---------------------------- MODULE SamgrParcel ----------------------------
(***************************************************************************)
(* MessageParcel as the proxies and stubs of this repository use it: a     *)
(* typed write appends a value and fails when the parcel is full, a typed  *)
(* read takes the next value.  A value carries no type on the wire, so a   *)
(* read of another type takes whatever is there; only an object read finds *)
(* out.  A field is <<kind, name>>: the name is the variable of the code   *)
(* that the value is written from or read into.                            *)
(***************************************************************************)
EXTENDS Naturals, SequencesExt

Int32(n) == <<"int32", n>>
Int64(n) == <<"int64", n>>
Bool(n) == <<"bool", n>>
String(n) == <<"string", n>>
String16(n) == <<"string16", n>>
Object(n) == <<"object", n>>
Fd(n) == <<"fd", n>>
Vector(n) == <<"vector", n>>
Parcelable(n) == <<"parcelable", n>>
\* A size followed by that many elements, and a flag followed by an object
\* when the flag is true.
List(n, fields) == <<"list", n, fields>>
Optional(n) == <<"optional", n>>
\* A read whose failure the code ignores: the variable keeps its default.
Unchecked(n) == <<"unchecked", n>>

Repeat(s, n) == FlattenSeq([i \in 1..n |-> s])

(***************************************************************************)
(* The values a writer puts in a parcel: every list has n elements, and    *)
(* the values named in bad are the ones a check would refuse (an id out of *)
(* range, an empty string, a null object, a flag that is false).           *)
(***************************************************************************)
RECURSIVE Values(_, _, _)
Values(fields, bad, n) ==
  IF fields = <<>> THEN <<>>
  ELSE LET f == Head(fields)
           Value(kind, val) == <<[kind |-> kind, of |-> f[2], val |-> val]>>
           here == CASE f[1] = "list" ->
                          Value("int32", n) \o Repeat(Values(f[3], bad, n), n)
                     [] f[1] = "optional" ->
                          Value("bool", IF n = 0 THEN 0 ELSE 1)
                            \o (IF n = 0 THEN <<>> ELSE Value("object", 1))
                     [] OTHER -> Value(f[1], IF f[2] \in bad THEN 0 ELSE 1)
       IN here \o Values(Tail(fields), bad, n)

(***************************************************************************)
(* A reader: the values not read yet and what was read so far, as pairs of *)
(* the name read into and the value.                                       *)
(***************************************************************************)
Reader(parcel) == [ok |-> TRUE, rest |-> parcel, got |-> <<>>]

ReadOne(r, f) ==
  IF r.rest = <<>> \/ (f[1] = "object" /\ (Head(r.rest).kind # "object" \/ Head(r.rest).val = 0))
  THEN [r EXCEPT !.ok = (f[1] = "unchecked")]
  ELSE [r EXCEPT !.rest = Tail(@), !.got = Append(@, <<f[2], Head(r.rest)>>)]

RECURSIVE ReadAll(_, _)
ReadAll(r, fields) ==
  IF ~r.ok \/ fields = <<>> THEN r
  ELSE LET f == Head(fields)
           size == ReadOne(r, Int32(f[2]))
           flag == ReadOne(r, Bool(f[2]))
           here == CASE f[1] = "list" /\ size.ok ->
                          ReadAll(size, Repeat(f[3], Last(size.got)[2].val))
                     [] f[1] = "list" /\ ~size.ok -> size
                     [] f[1] = "optional" ->
                          \* The flag is not checked: a missing one is false.
                          IF flag.ok /\ Last(flag.got)[2].val = 1
                          THEN ReadOne(flag, Object(f[2]))
                          ELSE [flag EXCEPT !.ok = TRUE]
                     [] OTHER -> ReadOne(r, f)
       IN ReadAll(here, Tail(fields))

\* The value read into a variable is the one written from it.
Faithful(got) == \A i \in 1..Len(got) : got[i][1] = got[i][2].of

\* The value read into the variable name was not one a check would refuse.
ReadValid(got, name) == \A i \in 1..Len(got) : got[i][1] = name => got[i][2].val # 0
=============================================================================
