----------------------------- MODULE HeaderMangle -----------------------------
(***************************************************************************)
(* concat_headers of csvjoin/cycle_cleanup.h: how the header of the next   *)
(* table is appended to the header joined so far.  A name is a sequence of *)
(* tokens (<<"a">>, <<"a", "2">>), a blank name is <<>>; appending to the  *)
(* string appends tokens, a number those of its digits.                    *)
(***************************************************************************)
EXTENDS Integers, Sequences

Occurs(name, header) == \E i \in DOMAIN header : header[i] = name
Clash(name, header) == name # <<>> /\ Occurs(name, header)

\* std::to_string.
Digit(d) == <<"0", "1", "2", "3", "4", "5", "6", "7", "8", "9">>[d + 1]
Decimal(number) ==
  LET written[n \in 0..number] ==
        IF n < 10 THEN <<Digit(n)>> ELSE Append(written[n \div 10], Digit(n % 10))
  IN  written[number]

\* The k-th attempt at renaming: n2, n2_2, n2_3, ...
Attempt(name, k) == Append(name, "2") \o (IF k = 1 THEN <<>> ELSE <<"_">> \o Decimal(k))

\* Variant: the new name is not compared with the header.
MangledOnce(name, header) == Attempt(name, 1)

\* The first attempt that is not taken; one of the first Len(header) + 1 is free.
Mangled(name, header) ==
  LET free(k) == ~Occurs(Attempt(name, k), header)
      first   == CHOOSE k \in 1..(Len(header) + 1) :
                   free(k) /\ \A j \in 1..(k - 1) : ~free(j)
  IN  Attempt(name, first)

\* Names are appended one by one, each compared with the header grown so far.
AppendName(header, name) ==
  Append(header, IF Clash(name, header) THEN Mangled(name, header) ELSE name)
AppendHeader(left, right) ==
  LET grown[n \in 0..Len(right)] == IF n = 0 THEN left ELSE AppendName(grown[n - 1], right[n])
  IN  grown[Len(right)]

===============================================================================
