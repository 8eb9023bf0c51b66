--------------------------- MODULE WindowTheorems ---------------------------
(***************************************************************************)
(* Facts about windows of versions, on which all controllers' proofs rest: *)
(* nonempty sequences that grow at the API server's end and are consumed   *)
(* at the informer's.                                                      *)
(***************************************************************************)
EXTENDS Integers, Sequences, SequenceTheorems, TLAPS

\* Every element of a window is a version, the two ends included.
LEMMA VersionTypes ==
  ASSUME NEW S, NEW w \in Seq(S), w # << >>
  PROVE  /\ Len(w) \in Nat \ {0}
         /\ DOMAIN w = 1..Len(w)
         /\ \A i \in 1..Len(w) : w[i] \in S
         /\ w[1] \in S
         /\ w[Len(w)] \in S
BY EmptySeq, LenProperties, ElementOfSeq

\* A sequence with a length is not empty.
LEMMA NotEmpty ==
  ASSUME NEW w, Len(w) # 0
  PROVE  w # << >>
OBVIOUS

\* The API server stores a version: it is the last one of the window.
LEMMA VersionAppended ==
  ASSUME NEW S, NEW w \in Seq(S), w # << >>, NEW o \in S
  PROVE  /\ Append(w, o) \in Seq(S)
         /\ Append(w, o) # << >>
         /\ Len(Append(w, o)) = Len(w) + 1
         /\ \A i \in 1..Len(w) : Append(w, o)[i] = w[i]
         /\ Append(w, o)[1] = w[1]
         /\ Append(w, o)[Len(w) + 1] = o
<1>1. /\ Append(w, o) \in Seq(S)
      /\ Len(Append(w, o)) = Len(w) + 1
      /\ \A i \in 1..Len(w) : Append(w, o)[i] = w[i]
      /\ Append(w, o)[Len(w) + 1] = o
  BY AppendProperties
<1>2. Len(w) \in Nat \ {0}
  BY EmptySeq, LenProperties
<1>3. Append(w, o) # << >>
  <2>1. Len(Append(w, o)) # 0
    BY <1>1, <1>2
  <2>. QED
    BY <2>1, NotEmpty, Zenon
<1>. QED
  BY <1>1, <1>2, <1>3

\* The informer sees the next version.
LEMMA VersionDelivered ==
  ASSUME NEW S, NEW w \in Seq(S), Len(w) > 1
  PROVE  /\ Tail(w) \in Seq(S)
         /\ Tail(w) # << >>
         /\ Len(Tail(w)) = Len(w) - 1
         /\ \A i \in 1..(Len(w) - 1) : Tail(w)[i] = w[i + 1]
         /\ Tail(w)[1] = w[2]
         /\ Tail(w)[Len(w) - 1] = w[Len(w)]
<1>1. Len(w) \in Nat /\ w # << >>
  BY EmptySeq, LenProperties
<1>2. /\ Tail(w) \in Seq(S)
      /\ Len(Tail(w)) = Len(w) - 1
      /\ \A i \in 1..Len(Tail(w)) : Tail(w)[i] = w[i + 1]
  BY <1>1, HeadTailProperties
<1>3. Tail(w) # << >>
  <2>1. Len(Tail(w)) # 0
    BY <1>1, <1>2
  <2>. QED
    BY <2>1, NotEmpty, Zenon
<1>4. \A i \in 1..(Len(w) - 1) : Tail(w)[i] = w[i + 1]
  BY <1>2
<1>. QED
  BY <1>1, <1>2, <1>3, <1>4

\* The informer lists again and misses the versions before the k-th.
LEMMA VersionsSkipped ==
  ASSUME NEW S, NEW w \in Seq(S), w # << >>, NEW k \in 1..Len(w)
  PROVE  /\ SubSeq(w, k, Len(w)) \in Seq(S)
         /\ SubSeq(w, k, Len(w)) # << >>
         /\ Len(SubSeq(w, k, Len(w))) = Len(w) - k + 1
         /\ \A i \in 1..(Len(w) - k + 1) : SubSeq(w, k, Len(w))[i] = w[k + i - 1]
         /\ SubSeq(w, k, Len(w))[1] = w[k]
         /\ SubSeq(w, k, Len(w))[Len(w) - k + 1] = w[Len(w)]
<1>1. Len(w) \in Nat \ {0} /\ k \in Nat /\ k <= Len(w)
  BY EmptySeq, LenProperties
<1>2. /\ SubSeq(w, k, Len(w)) \in Seq(S)
      /\ Len(SubSeq(w, k, Len(w))) = Len(w) - k + 1
      /\ \A i \in 1..(Len(w) - k + 1) : SubSeq(w, k, Len(w))[i] = w[k + i - 1]
  BY <1>1, SubSeqProperties
<1>3. SubSeq(w, k, Len(w)) # << >>
  <2>1. Len(SubSeq(w, k, Len(w))) # 0
    BY <1>1, <1>2
  <2>. QED
    BY <2>1, NotEmpty, Zenon
<1>. QED
  BY <1>1, <1>2, <1>3

\* A window that has been listed anew.
LEMMA VersionListed ==
  ASSUME NEW S, NEW o \in S
  PROVE  /\ <<o>> \in Seq(S)
         /\ <<o>> # << >>
         /\ Len(<<o>>) = 1
         /\ <<o>>[1] = o
OBVIOUS
=============================================================================
