----------------------------- MODULE RingBuffer -----------------------------
(***************************************************************************)
(* The operations of RingBuffer<T> the recorder uses, and the loops it     *)
(* runs over a buffer.  A buffer is the sequence of its elements, oldest   *)
(* first; an element is a record with a time stamp ts.                     *)
(***************************************************************************)
EXTENDS Sequences, FiniteSetsExt

\* push_back: a full buffer gives up its oldest element first.
PushBack(buf, capacity, x) ==
  Append(IF Len(buf) >= capacity THEN Tail(buf) ELSE buf, x)

\* pop_front as long as the front is older than age at time t.  The code's
\* difference is unsigned: a front stamped later than t counts as old.
DropOlder(buf, t, age) ==
  LET young == {i \in DOMAIN buf : buf[i].ts <= t /\ t - buf[i].ts <= age}
  IN  IF young = {} THEN << >> ELSE SubSeq(buf, Min(young), Len(buf))

\* The elements a scan with the bounds first and last picks.
Within(buf, first, last) ==
  {x \in Range(buf) : x.ts >= first /\ x.ts <= last}

\* The stamps of a set of elements.
Stamps(S) == {x.ts : x \in S}
=============================================================================
