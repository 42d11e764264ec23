----------------------------- MODULE WireProofs -----------------------------
(***************************************************************************)
(* What the clients of SignalingServer believe, proved for any connections *)
(* and addresses: once a client has read what is under way to it, its      *)
(* session, its role and its peer list are the server's own, and what is   *)
(* relayed stays inside the session.                                       *)
(*                                                                         *)
(* All of these look at the LAST message of some kind on a wire.  The      *)
(* first part says what appending a message to a wire, and taking one from *)
(* it, do to such a look; the second goes through the server's handlers.   *)
(***************************************************************************)
EXTENDS SignalingServerProofs, WellFoundedInduction

(* The last of a set of positions.                                         *)

Top(M) == CHOOSE i \in M : \A j \in M : j <= i

\* A nonempty set of positions of a finite wire has a last one.
LEMMA TopExists ==
    ASSUME NEW n \in Nat, NEW M \in SUBSET (1..n), M # {}
    PROVE  Top(M) \in M /\ \A j \in M : j <= Top(M)
<1>. DEFINE T == {k \in Nat : \E i \in M : k = n - i}
            R == {p \in Nat \X Nat : p[1] < p[2]}
<1>1. T \subseteq Nat /\ T # {}
  <2>1. PICK i \in M : TRUE
    OBVIOUS
  <2>2. n - i \in T
    BY <2>1
  <2>. QED
    BY <2>2
<1>2. PICK x \in T : \A y \in T : ~(<<y, x>> \in R)
  <2>1. IsWellFoundedOn(R, Nat)
    BY NatLessThanWellFounded DEF OpToRel
  <2>. HIDE DEF R, T
  <2>. QED
    BY <1>1, <2>1, WFMin
<1>3. ASSUME NEW y \in T PROVE x <= y
  <2>1. x \in Nat /\ y \in Nat
    BY <1>1
  <2>2. ~(y < x)
    <3>1. y < x => <<y, x>> \in R
      BY <2>1
    <3>. QED
      BY <1>2, <3>1
  <2>. QED
    BY <2>1, <2>2
<1>4. PICK i \in M : x = n - i
  OBVIOUS
<1>5. ASSUME NEW j \in M PROVE j <= i
  <2>1. n - j \in T
    OBVIOUS
  <2>. QED
    BY <1>3, <1>4, <2>1
<1>. QED
  BY <1>4, <1>5 DEF Top

\* There is only one.
LEMMA TopUnique ==
    ASSUME NEW n \in Nat, NEW M \in SUBSET (1..n), NEW i \in M, \A j \in M : j <= i
    PROVE  Top(M) = i
<1>1. M # {} /\ Top(M) \in M /\ i <= Top(M)
  BY TopExists
<1>. DEFINE t == Top(M)
<1>. HIDE DEF t
<1>2. t \in M /\ i <= t
  BY <1>1 DEF t
<1>3. t \in 1..n /\ i \in 1..n /\ t <= i
  BY <1>2
<1>4. t = i
  BY <1>2, <1>3
<1>. QED
  BY <1>4 DEF t

\* One more position at the end is the last.
LEMMA TopOfLonger ==
    ASSUME NEW n \in Nat, NEW M \in SUBSET (1..n)
    PROVE  Top(M \cup {n + 1}) = n + 1
<1>1. /\ M \cup {n + 1} \in SUBSET (1..(n + 1))
      /\ n + 1 \in Nat
      /\ n + 1 \in M \cup {n + 1} /\ \A j \in M \cup {n + 1} : j <= n + 1
  OBVIOUS
<1>. QED
  BY <1>1, TopUnique

\* When the first position goes, what is left moves up by one.
LEMMA TopOfShorter ==
    ASSUME NEW n \in Nat, NEW M \in SUBSET (1..(n + 1)), NEW K \in SUBSET (1..n),
           \A i \in 1..n : i \in K <=> i + 1 \in M, K # {}
    PROVE  Top(M) = Top(K) + 1 /\ Top(K) \in 1..n
<1>. DEFINE k == Top(K)
<1>2. k \in K /\ \A j \in K : j <= k
  BY TopExists
<1>. HIDE DEF k
<1>3. k \in 1..n /\ k + 1 \in M
  BY <1>2
<1>4. ASSUME NEW j \in M PROVE j <= k + 1
  <2>1. CASE j = 1
    BY <2>1, <1>3
  <2>2. CASE j # 1
    <3>1. j \in 2..(n + 1)
      BY <2>2
    <3>2. j - 1 \in 1..n /\ (j - 1) + 1 = j
      BY <3>1
    <3>3. j - 1 \in K
      BY <3>2
    <3>. QED
      BY <1>2, <1>3, <3>1, <3>3
  <2>. QED
    BY <2>1, <2>2
<1>5. Top(M) = k + 1
  BY <1>3, <1>4, TopUnique, n + 1 \in Nat
<1>. QED
  BY <1>3, <1>5 DEF k
-----------------------------------------------------------------------------
(* What a client will know when it has read the wire s, or the first n of  *)
(* its messages, and what it knows now is cl.                              *)

Marks(s, n, types) == {i \in 1..n : s[i].type \in types}

Sess(s, cl, n) ==
    LET marks == Marks(s, n, {"role", "peer_left"}) IN
    IF marks = {} THEN cl.session
    ELSE IF s[Top(marks)].type = "role" THEN s[Top(marks)].with ELSE None

Role(s, cl) ==
    LET marks == Marks(s, Len(s), {"role"}) IN
    IF marks = {} THEN cl.isOfferer ELSE s[Top(marks)].role = "offerer"

Listed(s, cl) ==
    LET marks == Marks(s, Len(s), {"peers"}) IN
    IF marks = {} THEN cl.onlinePeers ELSE s[Top(marks)].peers

InSession(s, cl) ==
    \A i \in 1..Len(s) : s[i].type = "signal" => Sess(s, cl, i - 1) = s[i].from

\* These are the looks of SignalingServer.
LEMMA Looks ==
    ASSUME NEW c
    PROVE  /\ \A n : SessionAfter(c, n) = Sess(wire[c], client[c], n)
           /\ FinalRole(c) = Role(wire[c], client[c])
           /\ LatestList(c) = Listed(wire[c], client[c])
BY DEF SessionAfter, Sess, FinalRole, Role, LatestList, Listed, Marks, Top

\* The marks of a wire with one more message.
LEMMA MarksAppend ==
    ASSUME NEW s \in Seq(Msg), NEW m \in Msg, NEW types
    PROVE  /\ \A n \in 0..Len(s) : Marks(Append(s, m), n, types) = Marks(s, n, types)
           /\ Marks(Append(s, m), Len(s) + 1, types) =
                 IF m.type \in types THEN Marks(s, Len(s), types) \cup {Len(s) + 1}
                                     ELSE Marks(s, Len(s), types)
<1>. DEFINE q == Append(s, m)
<1>1. Len(s) \in Nat /\ q[Len(s) + 1] = m /\ \A i \in 1..Len(s) : q[i] = s[i]
  OBVIOUS
<1>. HIDE DEF q
<1>2. ASSUME NEW n \in 0..Len(s) PROVE Marks(q, n, types) = Marks(s, n, types)
  BY <1>1 DEF Marks
<1>3. 1..(Len(s) + 1) = (1..Len(s)) \cup {Len(s) + 1}
  BY <1>1
<1>4. Marks(q, Len(s) + 1, types) =
         IF m.type \in types THEN Marks(s, Len(s), types) \cup {Len(s) + 1}
                             ELSE Marks(s, Len(s), types)
  BY <1>1, <1>3 DEF Marks
<1>. QED
  BY <1>2, <1>4 DEF q

\* A message at the end of the wire has the last word.
LEMMA AfterAppend ==
    ASSUME NEW s \in Seq(Msg), NEW m \in Msg, NEW cl
    PROVE  /\ \A n \in 0..Len(s) : Sess(Append(s, m), cl, n) = Sess(s, cl, n)
           /\ Sess(Append(s, m), cl, Len(s) + 1) =
                 IF m.type = "role" THEN m.with
                 ELSE IF m.type = "peer_left" THEN None ELSE Sess(s, cl, Len(s))
           /\ Role(Append(s, m), cl) = IF m.type = "role" THEN m.role = "offerer" ELSE Role(s, cl)
           /\ Listed(Append(s, m), cl) = IF m.type = "peers" THEN m.peers ELSE Listed(s, cl)
<1>. DEFINE q == Append(s, m)
<1>1. /\ Len(s) \in Nat /\ q[Len(s) + 1] = m /\ \A i \in 1..Len(s) : q[i] = s[i]
      /\ Len(q) = Len(s) + 1
  OBVIOUS
<1>m. \A types :
         /\ \A n \in 0..Len(s) : Marks(Append(s, m), n, types) = Marks(s, n, types)
         /\ Marks(Append(s, m), Len(s) + 1, types) =
               IF m.type \in types THEN Marks(s, Len(s), types) \cup {Len(s) + 1}
                                   ELSE Marks(s, Len(s), types)
  <2>. HIDE DEF q
  <2>. QED
    BY MarksAppend, Zenon
<1>2. ASSUME NEW types, NEW n \in 0..Len(s)
      PROVE  /\ Marks(q, n, types) = Marks(s, n, types)
             /\ Marks(s, n, types) # {} =>
                   /\ Top(Marks(s, n, types)) \in 1..Len(s)
                   /\ q[Top(Marks(s, n, types))] = s[Top(Marks(s, n, types))]
  <2>1. Marks(q, n, types) = Marks(s, n, types)
    BY <1>m DEF q
  <2>2. n \in Nat /\ Marks(s, n, types) \in SUBSET (1..n)
    BY <1>1 DEF Marks
  <2>3. Marks(s, n, types) # {} => Top(Marks(s, n, types)) \in 1..n
    BY <2>2, TopExists
  <2>. QED
    BY <2>1, <2>3, <1>1
<1>3. ASSUME NEW types
      PROVE  /\ m.type \in types => /\ Marks(q, Len(s) + 1, types) # {}
                                    /\ Top(Marks(q, Len(s) + 1, types)) = Len(s) + 1
             /\ m.type \notin types => Marks(q, Len(s) + 1, types) = Marks(s, Len(s), types)
  <2>1. Marks(q, Len(s) + 1, types) =
           IF m.type \in types THEN Marks(s, Len(s), types) \cup {Len(s) + 1}
                               ELSE Marks(s, Len(s), types)
    BY <1>m DEF q
  <2>2. Marks(s, Len(s), types) \in SUBSET (1..Len(s))
    BY DEF Marks
  <2>3. Top(Marks(s, Len(s), types) \cup {Len(s) + 1}) = Len(s) + 1
    BY <1>1, <2>2, TopOfLonger
  <2>. QED
    BY <2>1, <2>3
<1>. HIDE DEF q
<1>4. \A n \in 0..Len(s) : Sess(q, cl, n) = Sess(s, cl, n)
  BY <1>2 DEF Sess
<1>5. Sess(q, cl, Len(s) + 1) =
         IF m.type = "role" THEN m.with
         ELSE IF m.type = "peer_left" THEN None ELSE Sess(s, cl, Len(s))
  <2>1. CASE m.type \in {"role", "peer_left"}
    BY <1>1, <1>3, <2>1 DEF Sess
  <2>2. CASE m.type \notin {"role", "peer_left"}
    <3>1. Marks(q, Len(s) + 1, {"role", "peer_left"}) = Marks(s, Len(s), {"role", "peer_left"})
      BY <1>3, <2>2
    <3>. QED
      BY <1>1, <1>2, <3>1, <2>2, Len(s) \in 0..Len(s) DEF Sess
  <2>. QED
    BY <2>1, <2>2
<1>6. Role(q, cl) = IF m.type = "role" THEN m.role = "offerer" ELSE Role(s, cl)
  <2>1. CASE m.type = "role"
    BY <1>1, <1>3, <2>1 DEF Role
  <2>2. CASE m.type # "role"
    <3>1. Marks(q, Len(s) + 1, {"role"}) = Marks(s, Len(s), {"role"})
      BY <1>3, <2>2
    <3>. QED
      BY <1>1, <1>2, <3>1, <2>2, Len(s) \in 0..Len(s) DEF Role
  <2>. QED
    BY <2>1, <2>2
<1>7. Listed(q, cl) = IF m.type = "peers" THEN m.peers ELSE Listed(s, cl)
  <2>1. CASE m.type = "peers"
    BY <1>1, <1>3, <2>1 DEF Listed
  <2>2. CASE m.type # "peers"
    <3>1. Marks(q, Len(s) + 1, {"peers"}) = Marks(s, Len(s), {"peers"})
      BY <1>3, <2>2
    <3>. QED
      BY <1>1, <1>2, <3>1, <2>2, Len(s) \in 0..Len(s) DEF Listed
  <2>. QED
    BY <2>1, <2>2
<1>. QED
  BY <1>4, <1>5, <1>6, <1>7 DEF q

\* The last mark of a wire is the last mark of its tail, or else its head.
LEMMA MarksTail ==
    ASSUME NEW s \in Seq(Msg), s # <<>>
    PROVE  \A n \in 0..(Len(s) - 1) : \A types :
             /\ Marks(Tail(s), n, types) # {} =>
                   /\ Marks(s, n + 1, types) # {}
                   /\ s[Top(Marks(s, n + 1, types))] = Tail(s)[Top(Marks(Tail(s), n, types))]
             /\ Marks(Tail(s), n, types) = {} /\ Head(s).type \in types =>
                   /\ Marks(s, n + 1, types) # {}
                   /\ s[Top(Marks(s, n + 1, types))] = Head(s)
             /\ Marks(Tail(s), n, types) = {} /\ Head(s).type \notin types =>
                   Marks(s, n + 1, types) = {}
<1>. TAKE n \in 0..(Len(s) - 1)
<1>. TAKE types
<1>. DEFINE q == Tail(s)
            K == Marks(Tail(s), n, types)
            M == Marks(s, n + 1, types)
<1>1. /\ n \in Nat /\ Len(s) \in Nat /\ n + 1 <= Len(s)
      /\ Head(s) = s[1] /\ \A i \in 1..n : q[i] = s[i + 1]
  OBVIOUS
<1>. HIDE DEF q, K, M
<1>2. K = {i \in 1..n : i + 1 \in M} /\ M \in SUBSET (1..(n + 1))
  BY <1>1 DEF Marks, q, K, M
<1>3. 1 \in M <=> Head(s).type \in types
  BY <1>1 DEF Marks, M
<1>. DEFINE Goal == /\ K # {} => M # {} /\ s[Top(M)] = q[Top(K)]
                    /\ K = {} /\ Head(s).type \in types => M # {} /\ s[Top(M)] = Head(s)
                    /\ K = {} /\ Head(s).type \notin types => M = {}
<1>4. ASSUME K # {} PROVE Goal
  <2>1. Top(M) = Top(K) + 1 /\ Top(K) \in 1..n
    <3>. HIDE DEF Goal
    <3>1. n \in Nat /\ M \in SUBSET (1..(n + 1)) /\ K \in SUBSET (1..n)
          /\ (\A i \in 1..n : i \in K <=> i + 1 \in M) /\ K # {}
      BY <1>1, <1>2, <1>4
    <3>. QED
      BY <3>1, TopOfShorter
  <2>2. M # {}
    BY <1>2, <1>4
  <2>3. s[Top(K) + 1] = q[Top(K)]
    BY <2>1, <1>1
  <2>. QED
    BY <1>4, <2>1, <2>2, <2>3
<1>5. ASSUME K = {} PROVE Goal
  <2>1. ASSUME NEW j \in M PROVE j = 1
    <3>1. j \in 1..(n + 1) /\ (j # 1 => j - 1 \in 1..n /\ (j - 1) + 1 = j)
      BY <1>1, <1>2
    <3>2. j # 1 => j - 1 \in K
      BY <1>2, <3>1
    <3>. QED
      BY <1>5, <3>2
  <2>2. CASE Head(s).type \in types
    <3>1. n + 1 \in Nat /\ 1 \in M /\ \A j \in M : j <= 1
      BY <1>1, <1>3, <2>1, <2>2
    <3>2. Top(M) = 1
      BY <1>2, <3>1, TopUnique
    <3>. QED
      BY <1>1, <1>3, <1>5, <2>2, <3>2
  <2>3. CASE Head(s).type \notin types
    BY <1>3, <1>5, <2>1, <2>3
  <2>. QED
    BY <2>2, <2>3
<1>6. Goal
  BY <1>4, <1>5
<1>. QED
  BY <1>6, Zenon DEF K, M, q

\* Reading the first message changes nothing about what will be known.
LEMMA AfterTail ==
    ASSUME NEW s \in Seq(Msg), s # <<>>, NEW cl,
           NEW cl2, cl2 = ReceiveSignal(cl, Head(s))
    PROVE  /\ \A n \in 0..(Len(s) - 1) : Sess(Tail(s), cl2, n) = Sess(s, cl, n + 1)
           /\ Role(Tail(s), cl2) = Role(s, cl)
           /\ Listed(Tail(s), cl2) = Listed(s, cl)
<1>. DEFINE q == Tail(s)
<1>1. /\ Len(s) \in Nat /\ Len(q) = Len(s) - 1 /\ Len(s) - 1 \in 0..(Len(s) - 1)
      /\ (Len(s) - 1) + 1 = Len(s)
  OBVIOUS
<1>2. \A n \in 0..(Len(s) - 1) : \A types :
         /\ Marks(q, n, types) # {} =>
               /\ Marks(s, n + 1, types) # {}
               /\ s[Top(Marks(s, n + 1, types))] = q[Top(Marks(q, n, types))]
         /\ Marks(q, n, types) = {} /\ Head(s).type \in types =>
               /\ Marks(s, n + 1, types) # {}
               /\ s[Top(Marks(s, n + 1, types))] = Head(s)
         /\ Marks(q, n, types) = {} /\ Head(s).type \notin types => Marks(s, n + 1, types) = {}
  BY MarksTail, Zenon DEF q
<1>3. /\ cl2.session = IF Head(s).type = "role" THEN Head(s).with
                       ELSE IF Head(s).type = "peer_left" THEN None ELSE cl.session
      /\ cl2.isOfferer = IF Head(s).type = "role" THEN Head(s).role = "offerer" ELSE cl.isOfferer
      /\ cl2.onlinePeers = IF Head(s).type = "peers" THEN Head(s).peers ELSE cl.onlinePeers
  BY DEF ReceiveSignal
<1>. HIDE DEF q
<1>4. ASSUME NEW n \in 0..(Len(s) - 1) PROVE Sess(q, cl2, n) = Sess(s, cl, n + 1)
  BY <1>2, <1>3 DEF Sess
<1>5. Role(q, cl2) = Role(s, cl)
  <2>1. CASE Marks(q, Len(q), {"role"}) # {}
    BY <1>1, <1>2, <2>1 DEF Role
  <2>2. CASE Marks(q, Len(q), {"role"}) = {} /\ Head(s).type = "role"
    BY <1>1, <1>2, <1>3, <2>2 DEF Role
  <2>3. CASE Marks(q, Len(q), {"role"}) = {} /\ Head(s).type # "role"
    <3>1. Marks(s, Len(s), {"role"}) = {}
      BY <1>1, <1>2, <2>3
    <3>2. cl2.isOfferer = cl.isOfferer
      BY <1>3, <2>3
    <3>. QED
      BY <2>3, <3>1, <3>2, Zenon DEF Role
  <2>. QED
    BY <2>1, <2>2, <2>3
<1>6. Listed(q, cl2) = Listed(s, cl)
  BY <1>1, <1>2, <1>3 DEF Listed
<1>. QED
  BY <1>4, <1>5, <1>6 DEF q

\* Relayed messages stay inside their session when one is taken from the wire,
\* and when one is put on it whose sender is the session at the wire's end.
LEMMA InSessionKept ==
    ASSUME NEW s \in Seq(Msg), NEW cl, InSession(s, cl)
    PROVE  /\ s # <<>> => InSession(Tail(s), ReceiveSignal(cl, Head(s)))
           /\ \A m \in Msg : (m.type = "signal" => Sess(s, cl, Len(s)) = m.from)
                                => InSession(Append(s, m), cl)
<1>1. ASSUME s # <<>> PROVE InSession(Tail(s), ReceiveSignal(cl, Head(s)))
  <2>. DEFINE q == Tail(s)
              cl2 == ReceiveSignal(cl, Head(s))
  <2>1. Len(s) \in Nat /\ Len(q) = Len(s) - 1 /\ \A i \in 1..Len(q) : q[i] = s[i + 1]
    BY <1>1
  <2>2. \A n \in 0..(Len(s) - 1) : Sess(q, cl2, n) = Sess(s, cl, n + 1)
    BY <1>1, AfterTail
  <2>. HIDE DEF q, cl2
  <2>3. ASSUME NEW i \in 1..Len(q), q[i].type = "signal" PROVE Sess(q, cl2, i - 1) = q[i].from
    <3>1. /\ i + 1 \in 1..Len(s) /\ i - 1 \in 0..(Len(s) - 1)
          /\ (i - 1) + 1 = i /\ (i + 1) - 1 = i
      BY <2>1
    <3>2. Sess(s, cl, i) = s[i + 1].from
      BY <2>1, <2>3, <3>1 DEF InSession
    <3>3. Sess(q, cl2, i - 1) = Sess(s, cl, i)
      BY <2>2, <3>1
    <3>. QED
      BY <2>1, <3>2, <3>3
  <2>. QED
    BY <2>3 DEF InSession, q, cl2
<1>2. ASSUME NEW m \in Msg, m.type = "signal" => Sess(s, cl, Len(s)) = m.from
      PROVE  InSession(Append(s, m), cl)
  <2>. DEFINE q == Append(s, m)
  <2>1. /\ Len(s) \in Nat /\ Len(q) = Len(s) + 1 /\ q[Len(s) + 1] = m
        /\ \A i \in 1..Len(s) : q[i] = s[i]
    OBVIOUS
  <2>2. \A n \in 0..Len(s) : Sess(q, cl, n) = Sess(s, cl, n)
    BY AfterAppend
  <2>. HIDE DEF q
  <2>3. ASSUME NEW i \in 1..Len(q), q[i].type = "signal" PROVE Sess(q, cl, i - 1) = q[i].from
    <3>1. i - 1 \in 0..Len(s) /\ Sess(q, cl, i - 1) = Sess(s, cl, i - 1)
      BY <2>1, <2>2
    <3>2. CASE i \in 1..Len(s)
      BY <2>1, <2>3, <3>1, <3>2 DEF InSession
    <3>3. CASE i = Len(s) + 1
      <4>1. i - 1 = Len(s)
        BY <2>1, <3>3
      <4>. QED
        BY <1>2, <2>1, <2>3, <3>1, <3>3, <4>1
    <3>. QED
      BY <2>1, <3>2, <3>3
  <2>. QED
    BY <2>3 DEF InSession, q
<1>. QED
  BY <1>1, <1>2
-----------------------------------------------------------------------------
(* What a connection's client will know once it has read its whole wire.   *)

EndSession(x) == Sess(wire[x], client[x], Len(wire[x]))
EndRole(x)    == Role(wire[x], client[x])
EndList(x)    == Listed(wire[x], client[x])
Inside(x)     == InSession(wire[x], client[x])

(* The inductive invariant.  That what is relayed stays inside its session *)
(* rests on the server's and the client's sessions agreeing, that a new    *)
(* connection starts with nothing known on Quiet, and all of it on IInv.   *)

Quiet ==
    \A x \in Conns : readyState[x] # "OPEN" => wire[x] = <<>> /\ client[x] = NewClient

SessionsEnd ==
    \A x \in Conns : readyState[x] = "OPEN" => EndSession(x) = pairPartner[x]

RolesEnd ==
    \A a, b \in Conns :
        readyState[a] = "OPEN" /\ readyState[b] = "OPEN" /\ pairPartner[a] = b
            => EndRole(a) = ~EndRole(b)

ListsEnd ==
    \A x \in Conns : readyState[x] = "OPEN" /\ Registered(x, clientsByIP) =>
        /\ PeerListFor(x, clientsByIP, readyState) \subseteq EndList(x)
        /\ EndList(x) \subseteq {k \in Keys : clientsByIP[k] \notin {None, x}}

WInv == Quiet /\ SessionsEnd /\ (\A x \in Conns : Inside(x)) /\ RolesEnd /\ ListsEnd

\* The properties of SignalingServer are parts of it.
LEMMA InvariantImplies ==
    ASSUME WInv
    PROVE  SessionAgreement /\ NoCrossTalk /\ RolesComplementary /\ PeerListCurrent
<1>1. SessionAgreement
  BY Looks DEF WInv, SessionsEnd, EndSession, SessionAgreement
<1>2. NoCrossTalk
  BY Looks DEF WInv, Inside, InSession, NoCrossTalk
<1>3. RolesComplementary
  BY Looks, Zenon DEF WInv, RolesEnd, EndRole, RolesComplementary
<1>4. PeerListCurrent
  BY Looks DEF WInv, ListsEnd, EndList, PeerListCurrent
<1>. QED
  BY <1>1, <1>2, <1>3, <1>4

\* A connection whose wire and client a step leaves alone.
LEMMA Kept ==
    ASSUME NEW x, wire'[x] = wire[x], client'[x] = client[x]
    PROVE  /\ EndSession(x)' = EndSession(x) /\ EndRole(x)' = EndRole(x)
           /\ EndList(x)' = EndList(x) /\ Inside(x)' = Inside(x)
  BY Zenon DEF EndSession, EndRole, EndList, Inside

\* A connection to which a step sends m.
LEMMA Appended ==
    ASSUME TypeOK, NEW x \in Conns, NEW m \in Msg,
           wire'[x] = Append(wire[x], m), client'[x] = client[x]
    PROVE  /\ EndSession(x)' = IF m.type = "role" THEN m.with
                               ELSE IF m.type = "peer_left" THEN None ELSE EndSession(x)
           /\ EndRole(x)' = IF m.type = "role" THEN m.role = "offerer" ELSE EndRole(x)
           /\ EndList(x)' = IF m.type = "peers" THEN m.peers ELSE EndList(x)
           /\ Inside(x) /\ (m.type = "signal" => EndSession(x) = m.from) => Inside(x)'
<1>1. wire[x] \in Seq(Msg) /\ Len(Append(wire[x], m)) = Len(wire[x]) + 1
  BY DEF TypeOK
<1>. DEFINE s == wire[x]
            cl == client[x]
<1>2. /\ EndSession(x)' = Sess(Append(s, m), cl, Len(s) + 1)
      /\ EndRole(x)' = Role(Append(s, m), cl)
      /\ EndList(x)' = Listed(Append(s, m), cl)
      /\ Inside(x)' = InSession(Append(s, m), cl)
  BY <1>1, Zenon DEF EndSession, EndRole, EndList, Inside
<1>3. EndSession(x) = Sess(s, cl, Len(s)) /\ EndRole(x) = Role(s, cl)
      /\ EndList(x) = Listed(s, cl) /\ Inside(x) = InSession(s, cl)
  BY Zenon DEF EndSession, EndRole, EndList, Inside
<1>. HIDE DEF s, cl
<1>4. s \in Seq(Msg)
  BY <1>1 DEF s
<1>5. /\ Sess(Append(s, m), cl, Len(s) + 1) =
            IF m.type = "role" THEN m.with
            ELSE IF m.type = "peer_left" THEN None ELSE Sess(s, cl, Len(s))
      /\ Role(Append(s, m), cl) = IF m.type = "role" THEN m.role = "offerer" ELSE Role(s, cl)
      /\ Listed(Append(s, m), cl) = IF m.type = "peers" THEN m.peers ELSE Listed(s, cl)
  BY <1>4, AfterAppend, Zenon
<1>6. InSession(s, cl) /\ (m.type = "signal" => Sess(s, cl, Len(s)) = m.from)
         => InSession(Append(s, m), cl)
  BY <1>4, InSessionKept, Zenon
<1>. QED
  BY <1>2, <1>3, <1>5, <1>6, Zenon

\* A connection whose client takes the next message.
LEMMA Received ==
    ASSUME TypeOK, NEW x \in Conns, wire[x] # <<>>,
           wire'[x] = Tail(wire[x]), client'[x] = ReceiveSignal(client[x], Head(wire[x]))
    PROVE  /\ EndSession(x)' = EndSession(x) /\ EndRole(x)' = EndRole(x)
           /\ EndList(x)' = EndList(x) /\ (Inside(x) => Inside(x)')
<1>. DEFINE s == wire[x]
            cl == client[x]
            cl2 == ReceiveSignal(cl, Head(s))
<1>1. /\ s \in Seq(Msg) /\ s # <<>>
      /\ Len(Tail(s)) = Len(s) - 1 /\ Len(s) - 1 \in 0..(Len(s) - 1)
      /\ (Len(s) - 1) + 1 = Len(s)
  BY DEF TypeOK
<1>2. /\ EndSession(x)' = Sess(Tail(s), cl2, Len(Tail(s)))
      /\ EndRole(x)' = Role(Tail(s), cl2)
      /\ EndList(x)' = Listed(Tail(s), cl2)
      /\ Inside(x)' = InSession(Tail(s), cl2)
  BY Zenon DEF EndSession, EndRole, EndList, Inside
<1>3. EndSession(x) = Sess(s, cl, Len(s)) /\ EndRole(x) = Role(s, cl)
      /\ EndList(x) = Listed(s, cl) /\ Inside(x) = InSession(s, cl)
  BY Zenon DEF EndSession, EndRole, EndList, Inside
<1>4. InSession(s, cl) => InSession(Tail(s), cl2)
  <2>. HIDE DEF s, cl
  <2>. QED
    BY <1>1, InSessionKept, Zenon DEF cl2
<1>. HIDE DEF s, cl, cl2
<1>5. cl2 = ReceiveSignal(cl, Head(s))
  BY DEF cl2
<1>6. /\ \A n \in 0..(Len(s) - 1) : Sess(Tail(s), cl2, n) = Sess(s, cl, n + 1)
      /\ Role(Tail(s), cl2) = Role(s, cl)
      /\ Listed(Tail(s), cl2) = Listed(s, cl)
  BY <1>1, <1>5, AfterTail, Zenon
<1>7. Sess(Tail(s), cl2, Len(Tail(s))) = Sess(s, cl, Len(s))
  BY <1>1, <1>6, Zenon
<1>. QED
  BY <1>2, <1>3, <1>4, <1>6, <1>7, Zenon
-----------------------------------------------------------------------------
(* The handlers.                                                           *)

\* Two OPEN partners after the step were OPEN partners before it, unless the
\* step paired them; so their roles agree if the step sends neither a role.
LEMMA RolesKept ==
    ASSUME IInv, IInv', RolesEnd,
           \A x \in Conns : readyState'[x] = "OPEN" /\ pairPartner'[x] # None =>
               /\ readyState[x] = "OPEN" /\ pairPartner[x] = pairPartner'[x]
               /\ EndRole(x)' = EndRole(x)
    PROVE  RolesEnd'
<1>. SUFFICES ASSUME NEW a \in Conns, NEW b \in Conns, readyState'[a] = "OPEN",
                     readyState'[b] = "OPEN", pairPartner'[a] = b
              PROVE  EndRole(a)' = ~EndRole(b)'
  BY Zenon DEF RolesEnd
<1>1. a # None /\ b # None /\ pairPartner'[b] = a
  BY NoneAssumption DEF IInv, PairingSymmetric, Attached
<1>2. /\ readyState[a] = "OPEN" /\ readyState[b] = "OPEN" /\ pairPartner[a] = b
      /\ EndRole(a)' = EndRole(a) /\ EndRole(b)' = EndRole(b)
  BY <1>1
<1>3. EndRole(a) = ~EndRole(b)
  BY <1>2, Zenon DEF RolesEnd
<1>. QED
  BY <1>2, <1>3, Zenon

\* A list that was just sent is current.
LEMMA FreshList ==
    ASSUME NEW x, NEW map, NEW rs
    PROVE  PeerListFor(x, map, rs) \subseteq {k \in Keys : map[k] \notin {None, x}}
  BY DEF PeerListFor

\* A step that only sends one OPEN client a list, an error, a peer_joined, or a
\* message relayed from its partner.
LEMMA SentOne ==
    ASSUME IInv, IInv', WInv, NEW r \in Conns, NEW m \in Msg,
           m.type \in {"peers", "error", "peer_joined", "signal"},
           m.type = "signal" /\ readyState[r] = "OPEN" => m.from = pairPartner[r],
           m.type = "peers" => m.peers = PeerListFor(r, clientsByIP, readyState),
           wire' = Sent(wire, r, m),
           UNCHANGED <<readyState, pairPartner, clientsByIP, client>>
    PROVE  WInv'
<1>1. ASSUME NEW x \in Conns, ~(x = r /\ readyState[r] = "OPEN")
      PROVE  /\ wire'[x] = wire[x] /\ client'[x] = client[x]
             /\ EndSession(x)' = EndSession(x) /\ EndRole(x)' = EndRole(x)
             /\ EndList(x)' = EndList(x) /\ Inside(x)' = Inside(x)
  <2>1. wire'[x] = wire[x] /\ client'[x] = client[x]
    BY <1>1 DEF Sent, IInv, TypeOK
  <2>. QED
    BY <2>1, Kept
<1>2. ASSUME readyState[r] = "OPEN"
      PROVE  /\ EndSession(r)' = EndSession(r) /\ EndRole(r)' = EndRole(r)
             /\ EndList(r)' = IF m.type = "peers" THEN m.peers ELSE EndList(r)
             /\ Inside(r)'
  <2>1. wire'[r] = Append(wire[r], m) /\ client'[r] = client[r]
    BY <1>2 DEF Sent, IInv, TypeOK
  <2>2. m.type = "signal" => EndSession(r) = m.from
    BY <1>2 DEF WInv, SessionsEnd
  <2>3. Inside(r)
    BY DEF WInv
  <2>4. TypeOK
    BY DEF IInv
  <2>. QED
    BY <2>1, <2>2, <2>3, <2>4, Appended
<1>3. Quiet'
  BY <1>1 DEF WInv, Quiet
<1>4. SessionsEnd'
  BY <1>1, <1>2 DEF WInv, SessionsEnd
<1>5. \A x \in Conns : Inside(x)'
  BY <1>1, <1>2, Zenon DEF WInv
<1>6. RolesEnd'
  <2>1. \A x \in Conns : EndRole(x)' = EndRole(x)
    BY <1>1, <1>2, Zenon
  <2>2. RolesEnd
    BY DEF WInv
  <2>. QED
    BY <2>1, <2>2, RolesKept
<1>7. ListsEnd'
  <2>. SUFFICES ASSUME NEW x \in Conns, readyState[x] = "OPEN", Registered(x, clientsByIP)
                PROVE  /\ PeerListFor(x, clientsByIP, readyState) \subseteq EndList(x)'
                       /\ EndList(x)' \subseteq {k \in Keys : clientsByIP[k] \notin {None, x}}
    BY DEF ListsEnd
  <2>1. CASE EndList(x)' = EndList(x)
    BY <2>1 DEF WInv, ListsEnd
  <2>2. CASE EndList(x)' = PeerListFor(x, clientsByIP, readyState)
    BY <2>2, FreshList
  <2>. QED
    BY <1>1, <1>2, <2>1, <2>2
<1>. QED
  BY <1>3, <1>4, <1>5, <1>6, <1>7 DEF WInv

\* A client reads on.
LEMMA DeliverKeeps ==
    ASSUME IInv, IInv', WInv, NEW c \in Conns, Deliver(c)
    PROVE  WInv'
<1>0. UNCHANGED <<readyState, pairPartner, clientsByIP>>
  BY DEF Deliver, server
<1>1. ASSUME NEW x \in Conns
      PROVE  /\ EndSession(x)' = EndSession(x) /\ EndRole(x)' = EndRole(x)
             /\ EndList(x)' = EndList(x) /\ (Inside(x) => Inside(x)')
  <2>1. CASE x = c
    <3>1. /\ wire[c] # <<>> /\ wire'[c] = Tail(wire[c])
          /\ client'[c] = ReceiveSignal(client[c], Head(wire[c]))
      BY DEF Deliver, IInv, TypeOK
    <3>2. TypeOK
      BY DEF IInv
    <3>. QED
      BY <2>1, <3>1, <3>2, Received, Zenon
  <2>2. CASE x # c
    <3>1. wire'[x] = wire[x] /\ client'[x] = client[x]
      BY <2>2 DEF Deliver, IInv, TypeOK
    <3>. QED
      BY <3>1, Kept
  <2>. QED
    BY <2>1, <2>2
<1>2. Quiet'
  BY DEF Deliver, IInv, TypeOK, WInv, Quiet, server
<1>3. SessionsEnd'
  BY <1>0, <1>1 DEF WInv, SessionsEnd
<1>4. \A x \in Conns : Inside(x)'
  BY <1>1, Zenon DEF WInv
<1>5. RolesEnd'
  <2>1. \A x \in Conns : EndRole(x)' = EndRole(x)
    BY <1>1, Zenon
  <2>2. RolesEnd
    BY DEF WInv
  <2>. QED
    BY <1>0, <2>1, <2>2, RolesKept
<1>6. ListsEnd'
  BY <1>0, <1>1 DEF WInv, ListsEnd
<1>. QED
  BY <1>2, <1>3, <1>4, <1>5, <1>6 DEF WInv

\* After a broadcast every list is current, and nothing else about what a client
\* will know depends on it.
LEMMA Broadcasted ==
    ASSUME NEW w \in [Conns -> Seq(Msg)],
           wire' = BroadcastPeerLists(w, clientsByIP', readyState'), client' = client
    PROVE  /\ ListsEnd'
           /\ \A x \in Conns :
                /\ EndSession(x)' = Sess(w[x], client[x], Len(w[x]))
                /\ EndRole(x)' = Role(w[x], client[x])
                /\ InSession(w[x], client[x]) => Inside(x)'
<1>. DEFINE m(x) == PeersMsg(PeerListFor(x, clientsByIP', readyState'))
<1>1. ASSUME NEW x \in Conns
      PROVE  /\ m(x) \in Msg /\ m(x).type = "peers"
             /\ m(x).peers = PeerListFor(x, clientsByIP', readyState')
             /\ Len(Append(w[x], m(x))) = Len(w[x]) + 1
  <2>1. PeerListFor(x, clientsByIP', readyState') \in SUBSET Keys
    BY DEF PeerListFor
  <2>2. m(x) \in Msg /\ m(x).type = "peers" /\ m(x).peers = PeerListFor(x, clientsByIP', readyState')
    BY <2>1, PeersMsgType DEF PeersMsg
  <2>. HIDE DEF m
  <2>. QED
    BY <2>2
<1>2. ASSUME NEW x \in Conns
      PROVE  wire'[x] = IF Registered(x, clientsByIP') /\ readyState'[x] = "OPEN"
                        THEN Append(w[x], m(x)) ELSE w[x]
  BY DEF BroadcastPeerLists
<1>. HIDE DEF m
<1>3. ASSUME NEW x \in Conns
      PROVE  /\ EndSession(x)' = Sess(w[x], client[x], Len(w[x]))
             /\ EndRole(x)' = Role(w[x], client[x])
             /\ InSession(w[x], client[x]) => Inside(x)'
             /\ Registered(x, clientsByIP') /\ readyState'[x] = "OPEN" =>
                   EndList(x)' = PeerListFor(x, clientsByIP', readyState')
  <2>. DEFINE s == w[x]
              cl == client[x]
              p == m(x)
  <2>1. s \in Seq(Msg) /\ p \in Msg /\ p.type = "peers" /\ Len(Append(s, p)) = Len(s) + 1
    BY <1>1
  <2>2. CASE wire'[x] = w[x] /\ ~(Registered(x, clientsByIP') /\ readyState'[x] = "OPEN")
    BY <2>2, Zenon DEF EndSession, EndRole, Inside
  <2>3. CASE wire'[x] = Append(s, p)
    <3>1. /\ EndSession(x)' = Sess(Append(s, p), cl, Len(s) + 1)
          /\ EndRole(x)' = Role(Append(s, p), cl)
          /\ EndList(x)' = Listed(Append(s, p), cl)
          /\ Inside(x)' = InSession(Append(s, p), cl)
      BY <2>1, <2>3, Zenon DEF EndSession, EndRole, EndList, Inside
    <3>. HIDE DEF s, cl, p
    <3>2. /\ Sess(Append(s, p), cl, Len(s) + 1) =
                IF p.type = "role" THEN p.with
                ELSE IF p.type = "peer_left" THEN None ELSE Sess(s, cl, Len(s))
          /\ Role(Append(s, p), cl) = IF p.type = "role" THEN p.role = "offerer" ELSE Role(s, cl)
          /\ Listed(Append(s, p), cl) = IF p.type = "peers" THEN p.peers ELSE Listed(s, cl)
      BY <2>1, AfterAppend, Zenon
    <3>3. p.type # "role" /\ p.type # "peer_left" /\ p.type # "signal"
      BY <2>1
    <3>4. InSession(s, cl) => InSession(Append(s, p), cl)
      BY <2>1, <3>3, InSessionKept, Zenon
    <3>5. /\ Sess(Append(s, p), cl, Len(s) + 1) = Sess(s, cl, Len(s))
          /\ Listed(Append(s, p), cl) = p.peers
      BY <2>1, <3>2, <3>3
    <3>6. Role(Append(s, p), cl) = Role(s, cl)
      BY <3>2, <3>3, Zenon
    <3>7. p.peers = PeerListFor(x, clientsByIP', readyState')
      BY <1>1 DEF p
    <3>. QED
      BY <3>1, <3>4, <3>5, <3>6, <3>7, Zenon DEF s, cl
  <2>. QED
    BY <1>2, <2>2, <2>3
<1>4. ListsEnd'
  <2>. SUFFICES ASSUME NEW x \in Conns, readyState'[x] = "OPEN", Registered(x, clientsByIP')
                PROVE  /\ PeerListFor(x, clientsByIP', readyState') \subseteq EndList(x)'
                       /\ EndList(x)' \subseteq {k \in Keys : clientsByIP'[k] \notin {None, x}}
    BY DEF ListsEnd
  <2>1. EndList(x)' = PeerListFor(x, clientsByIP', readyState')
    BY <1>3
  <2>. QED
    BY <2>1, FreshList
<1>. QED
  BY <1>3, <1>4, Zenon

\* A client that has been told nothing is in no session.
LEMMA NothingKnown == Sess(<<>>, NewClient, 0) = None
<1>1. Marks(<<>>, 0, {"role", "peer_left"}) = {}
  BY DEF Marks
<1>. QED
  BY <1>1 DEF Sess, NewClient

\* A new client is told the current list, and so is everyone else.
LEMMA ConnectKeeps ==
    ASSUME IInv, IInv', WInv, NEW c \in Conns, NEW k \in Keys, Connect(c, k)
    PROVE  WInv'
<1>0. /\ wire \in [Conns -> Seq(Msg)] /\ wire' = BroadcastPeerLists(wire, clientsByIP', readyState')
      /\ client' = client /\ readyState[c] = "NEW" /\ pairPartner[c] = None
  BY DEF IInv, TypeOK, Connect, PairingSymmetric, Attached
<1>1. /\ pairPartner' = pairPartner
      /\ readyState'[c] = "OPEN" /\ \A x \in Conns \ {c} : readyState'[x] = readyState[x]
  BY <1>0 DEF IInv, TypeOK, Connect
<1>2. /\ ListsEnd'
      /\ \A x \in Conns :
           /\ EndSession(x)' = Sess(wire[x], client[x], Len(wire[x]))
           /\ EndRole(x)' = Role(wire[x], client[x])
           /\ InSession(wire[x], client[x]) => Inside(x)'
  BY <1>0, Broadcasted, Zenon
<1>3. Quiet'
  BY <1>0, <1>1 DEF WInv, Quiet, BroadcastPeerLists
<1>4. SessionsEnd'
  <2>. SUFFICES ASSUME NEW x \in Conns, readyState'[x] = "OPEN"
                PROVE  EndSession(x)' = pairPartner[x]
    BY <1>1 DEF SessionsEnd
  <2>1. CASE x = c
    <3>1. wire[x] = <<>> /\ client[x] = NewClient /\ Len(<<>>) = 0
      BY <1>0, <2>1 DEF WInv, Quiet
    <3>2. EndSession(x)' = Sess(<<>>, NewClient, 0)
      BY <1>2, <3>1, Zenon
    <3>. QED
      BY <1>0, <2>1, <3>2, NothingKnown
  <2>2. CASE x # c
    BY <1>1, <1>2, <2>2 DEF WInv, SessionsEnd, EndSession
  <2>. QED
    BY <2>1, <2>2
<1>5. \A x \in Conns : Inside(x)'
  BY <1>2, Zenon DEF WInv, Inside
<1>6. RolesEnd'
  <2>1. \A x \in Conns : EndRole(x)' = EndRole(x)
    BY <1>2, Zenon DEF EndRole
  <2>2. RolesEnd
    BY DEF WInv
  <2>. QED
    BY <1>0, <1>1, <2>1, <2>2, RolesKept
<1>. QED
  BY <1>2, <1>3, <1>4, <1>5, <1>6 DEF WInv

\* Both partners of an accepted pair_request, those of them that are OPEN, are
\* told of the session and of complementary roles.
LEMMA PairKeeps ==
    ASSUME IInv, IInv', WInv, NEW c \in Conns, NEW t \in KeysOrNone, Pair(c, t)
    PROVE  WInv'
<1>0. TargetOf(t) \in Conns /\ TargetOf(t) # c
  BY TargetType DEF Pair, IInv, ConnsOrNone
<1>1. PICK g \in Conns : g = TargetOf(t) /\ g # c
  BY <1>0
<1>2. /\ pairPartner' = [pairPartner EXCEPT ![c] = g, ![g] = c]
      /\ wire' = Sent(Sent(wire, c, OffererMsg(c, g)), g, AnswererMsg(g, c))
      /\ UNCHANGED <<readyState, clientsByIP, client>>
  BY <1>1 DEF Pair
<1>3. /\ OffererMsg(c, g) \in Msg /\ AnswererMsg(g, c) \in Msg
      /\ OffererMsg(c, g).type = "role" /\ OffererMsg(c, g).with = g
      /\ OffererMsg(c, g).role = "offerer"
      /\ AnswererMsg(g, c).type = "role" /\ AnswererMsg(g, c).with = c
      /\ AnswererMsg(g, c).role = "answerer"
  BY <1>1, RoleMsgType DEF OffererMsg, AnswererMsg, IInv
<1>4. /\ readyState[c] = "OPEN" => wire'[c] = Append(wire[c], OffererMsg(c, g))
      /\ readyState[g] = "OPEN" => wire'[g] = Append(wire[g], AnswererMsg(g, c))
      /\ \A x \in Conns : x \notin {c, g} \/ readyState[x] # "OPEN" => wire'[x] = wire[x]
  <2>. DEFINE mc == OffererMsg(c, g)
              mg == AnswererMsg(g, c)
  <2>1. wire' = Sent(Sent(wire, c, mc), g, mg)
    BY <1>2
  <2>. HIDE DEF mc, mg
  <2>2. /\ readyState[c] = "OPEN" => wire'[c] = Append(wire[c], mc)
        /\ readyState[g] = "OPEN" => wire'[g] = Append(wire[g], mg)
        /\ \A x \in Conns : x \notin {c, g} \/ readyState[x] # "OPEN" => wire'[x] = wire[x]
    BY <1>1, <2>1 DEF Sent, IInv, TypeOK
  <2>. QED
    BY <2>2 DEF mc, mg
<1>5. ASSUME NEW x \in Conns, x \notin {c, g} \/ readyState[x] # "OPEN"
      PROVE  /\ wire'[x] = wire[x]
             /\ EndSession(x)' = EndSession(x) /\ EndRole(x)' = EndRole(x)
             /\ EndList(x)' = EndList(x) /\ Inside(x)' = Inside(x)
  BY <1>2, <1>4, <1>5, Kept
<1>6. ASSUME readyState[c] = "OPEN"
      PROVE  EndSession(c)' = g /\ EndRole(c)' = TRUE /\ EndList(c)' = EndList(c) /\ Inside(c)'
  <2>1. TypeOK /\ Inside(c) /\ client'[c] = client[c]
    BY <1>2 DEF IInv, WInv
  <2>2. /\ EndSession(c)' = g /\ EndRole(c)' = ("offerer" = "offerer")
        /\ EndList(c)' = EndList(c) /\ Inside(c)'
    BY <1>3, <1>4, <1>6, <2>1, Appended
  <2>. QED
    BY <2>2
<1>7. ASSUME readyState[g] = "OPEN"
      PROVE  EndSession(g)' = c /\ EndRole(g)' = FALSE /\ EndList(g)' = EndList(g) /\ Inside(g)'
  <2>1. TypeOK /\ Inside(g) /\ client'[g] = client[g]
    BY <1>1, <1>2 DEF IInv, WInv
  <2>2. /\ EndSession(g)' = c /\ EndRole(g)' = ("answerer" = "offerer")
        /\ EndList(g)' = EndList(g) /\ Inside(g)'
    BY <1>1, <1>3, <1>4, <1>7, <2>1, Appended
  <2>. QED
    BY <2>2
<1>8. Quiet'
  BY <1>2, <1>5 DEF WInv, Quiet
<1>9. SessionsEnd'
  BY <1>1, <1>2, <1>5, <1>6, <1>7 DEF WInv, SessionsEnd, IInv, TypeOK
<1>10. \A x \in Conns : Inside(x)'
  <2>. SUFFICES ASSUME NEW x \in Conns PROVE Inside(x)'
    OBVIOUS
  <2>1. Inside(x)
    BY DEF WInv
  <2>2. CASE x \notin {c, g} \/ readyState[x] # "OPEN"
    BY <1>5, <2>1, <2>2, Zenon
  <2>3. CASE x \in {c, g} /\ readyState[x] = "OPEN"
    BY <1>6, <1>7, <2>3
  <2>. QED
    BY <2>2, <2>3
<1>11. RolesEnd'
  <2>. SUFFICES ASSUME NEW a \in Conns, NEW b \in Conns, readyState[a] = "OPEN",
                       readyState[b] = "OPEN", pairPartner'[a] = b
                PROVE  EndRole(a)' = ~EndRole(b)'
    BY <1>2, Zenon DEF RolesEnd
  <2>0. readyState'[a] = "OPEN" /\ a # None /\ b # None
    BY <1>2, NoneAssumption
  <2>1. pairPartner'[b] = a
    BY <2>0 DEF IInv, PairingSymmetric, Attached
  <2>2. pairPartner'[c] = g /\ pairPartner'[g] = c
    BY <1>1, <1>2 DEF IInv, TypeOK
  <2>3. CASE a = c
    <3>1. b = g
      BY <2>2, <2>3
    <3>. QED
      BY <1>6, <1>7, <2>3, <3>1
  <2>4. CASE a = g
    <3>1. b = c
      BY <2>2, <2>4
    <3>. QED
      BY <1>6, <1>7, <2>4, <3>1
  <2>5. CASE a \notin {c, g}
    <3>1. b \notin {c, g}
      BY <2>1, <2>2, <2>5
    <3>2. pairPartner[a] = b
      BY <1>1, <1>2, <2>5 DEF IInv, TypeOK
    <3>3. EndRole(a) = ~EndRole(b)
      BY <3>2, Zenon DEF WInv, RolesEnd
    <3>4. EndRole(a)' = EndRole(a) /\ EndRole(b)' = EndRole(b)
      BY <1>5, <2>5, <3>1
    <3>. QED
      BY <3>3, <3>4, Zenon
  <2>. QED
    BY <2>3, <2>4, <2>5
<1>12. ListsEnd'
  <2>1. \A x \in Conns : EndList(x)' = EndList(x)
    BY <1>5, <1>6, <1>7
  <2>. QED
    BY <1>2, <2>1 DEF WInv, ListsEnd
<1>. QED
  BY <1>8, <1>9, <1>10, <1>11, <1>12 DEF WInv

\* The client of a socket that is CLOSING has lost what was under way to it.
LEMMA BeginCloseKeeps ==
    ASSUME IInv, IInv', WInv, NEW c \in Conns, BeginClose(c)
    PROVE  WInv'
<1>0. /\ readyState' = [readyState EXCEPT ![c] = "CLOSING"]
      /\ wire'[c] = <<>> /\ client'[c] = NewClient
      /\ UNCHANGED <<pairPartner, clientsByIP>>
  BY DEF BeginClose, IInv, TypeOK
<1>1. readyState'[c] = "CLOSING" /\ \A x \in Conns \ {c} : readyState'[x] = readyState[x]
  BY <1>0 DEF IInv, TypeOK
<1>2. ASSUME NEW x \in Conns, x # c
      PROVE  /\ wire'[x] = wire[x] /\ client'[x] = client[x]
             /\ EndSession(x)' = EndSession(x) /\ EndRole(x)' = EndRole(x)
             /\ EndList(x)' = EndList(x) /\ Inside(x)' = Inside(x)
  <2>1. wire'[x] = wire[x] /\ client'[x] = client[x]
    BY <1>2 DEF BeginClose, IInv, TypeOK
  <2>. QED
    BY <2>1, Kept
<1>3. Quiet'
  BY <1>0, <1>1, <1>2 DEF WInv, Quiet
<1>4. SessionsEnd'
  BY <1>0, <1>1, <1>2 DEF WInv, SessionsEnd
<1>5. ASSUME NEW x \in Conns PROVE Inside(x)'
  <2>1. CASE x = c
    <3>1. \A i \in 1..Len(wire'[x]) : FALSE
      BY <1>0, <2>1
    <3>. QED
      BY <3>1, Zenon DEF Inside, InSession
  <2>2. CASE x # c
    BY <1>2, <2>2, Zenon DEF WInv
  <2>. QED
    BY <2>1, <2>2
<1>6. RolesEnd'
  <2>1. RolesEnd
    BY DEF WInv
  <2>2. ASSUME NEW x \in Conns, readyState'[x] = "OPEN"
        PROVE  x # c
    BY <1>1, <2>2
  <2>. QED
    BY <1>0, <1>1, <1>2, <2>1, <2>2, RolesKept
<1>7. ListsEnd'
  <2>. SUFFICES ASSUME NEW x \in Conns, readyState'[x] = "OPEN", Registered(x, clientsByIP)
                PROVE  /\ PeerListFor(x, clientsByIP, readyState') \subseteq EndList(x)'
                       /\ EndList(x)' \subseteq {k \in Keys : clientsByIP[k] \notin {None, x}}
    BY <1>0 DEF ListsEnd
  <2>1. x # c /\ readyState[x] = "OPEN" /\ EndList(x)' = EndList(x)
    BY <1>1, <1>2
  <2>2. PeerListFor(x, clientsByIP, readyState') \subseteq PeerListFor(x, clientsByIP, readyState)
    BY <1>1 DEF PeerListFor, IInv, TypeOK, ConnsOrNone
  <2>. QED
    BY <2>1, <2>2 DEF WInv, ListsEnd
<1>. QED
  BY <1>3, <1>4, <1>5, <1>6, <1>7 DEF WInv

\* The 'close' of c ends the session of its OPEN partner, and of nobody else.
LEMMA CloseKeeps ==
    ASSUME IInv, IInv', WInv, NEW c \in Conns, Close(c)
    PROVE  WInv'
<1>. DEFINE w == PeerLeftNotice(wire, c)
            freed(x) == ReleasesPartner(c) /\ x = pairPartner[c]
<1>0. wire \in [Conns -> Seq(Msg)] /\ PeerLeftMsg \in Msg /\ PeerLeftMsg.type = "peer_left"
  BY PeerLeftMsgType DEF IInv, TypeOK, PeerLeftMsg
<1>1. w \in [Conns -> Seq(Msg)]
  BY <1>0, SentType DEF PeerLeftNotice, ReleasesPartner, IInv, TypeOK, ConnsOrNone
<1>2. /\ wire' = BroadcastPeerLists(w, clientsByIP', readyState') /\ client' = client
      /\ \A x \in Conns : pairPartner'[x] = IF x = c \/ freed(x) THEN None ELSE pairPartner[x]
      /\ readyState[c] = "CLOSING" /\ readyState'[c] = "CLOSED"
      /\ \A x \in Conns \ {c} : readyState'[x] = readyState[x]
  BY DEF Close, IInv, TypeOK
<1>3. ASSUME NEW x \in Conns
      PROVE  /\ freed(x) => readyState[x] = "OPEN" /\ w[x] = Append(wire[x], PeerLeftMsg)
             /\ ~freed(x) => w[x] = wire[x]
  BY <1>0 DEF PeerLeftNotice, ReleasesPartner, Sent
<1>. HIDE DEF w
<1>4. /\ ListsEnd'
      /\ \A x \in Conns :
           /\ EndSession(x)' = Sess(w[x], client[x], Len(w[x]))
           /\ EndRole(x)' = Role(w[x], client[x])
           /\ InSession(w[x], client[x]) => Inside(x)'
  BY <1>1, <1>2, Broadcasted, Zenon
<1>5. ASSUME NEW x \in Conns, ~freed(x)
      PROVE  EndSession(x)' = EndSession(x) /\ EndRole(x)' = EndRole(x) /\ Inside(x)'
  <2>1. w[x] = wire[x]
    BY <1>3, <1>5
  <2>2. Inside(x)
    BY DEF WInv
  <2>. QED
    BY <1>4, <2>1, <2>2, Zenon DEF EndSession, EndRole, Inside
<1>6. ASSUME NEW x \in Conns, freed(x)
      PROVE  EndSession(x)' = None /\ EndRole(x)' = EndRole(x) /\ Inside(x)'
  <2>. DEFINE s == wire[x]
              cl == client[x]
              m == PeerLeftMsg
  <2>1. /\ s \in Seq(Msg) /\ m \in Msg /\ m.type = "peer_left" /\ w[x] = Append(s, m)
        /\ Len(Append(s, m)) = Len(s) + 1 /\ m.type # "role" /\ m.type # "signal"
    BY <1>0, <1>3, <1>6
  <2>2. InSession(s, cl)
    BY DEF WInv, Inside
  <2>. HIDE DEF s, cl, m
  <2>3. /\ Sess(Append(s, m), cl, Len(s) + 1) =
              IF m.type = "role" THEN m.with
              ELSE IF m.type = "peer_left" THEN None ELSE Sess(s, cl, Len(s))
        /\ Role(Append(s, m), cl) = IF m.type = "role" THEN m.role = "offerer" ELSE Role(s, cl)
    BY <2>1, AfterAppend, Zenon
  <2>4. Sess(Append(s, m), cl, Len(s) + 1) = None
    BY <2>1, <2>3
  <2>5. Role(Append(s, m), cl) = Role(s, cl)
    BY <2>1, <2>3, Zenon
  <2>6. InSession(Append(s, m), cl)
    BY <2>1, <2>2, InSessionKept, Zenon
  <2>7. EndSession(x)' = Sess(Append(s, m), cl, Len(s) + 1)
    BY <1>4, <2>1, Zenon DEF cl
  <2>. QED
    BY <1>4, <2>1, <2>4, <2>5, <2>6, <2>7, Zenon DEF s, cl, EndRole
<1>7. Quiet'
  <2>. SUFFICES ASSUME NEW x \in Conns, readyState'[x] # "OPEN"
                PROVE  wire'[x] = <<>> /\ client[x] = NewClient
    BY <1>2 DEF Quiet
  <2>1. readyState[x] # "OPEN"
    BY <1>2
  <2>2. w[x] = wire[x]
    BY <1>3, <2>1
  <2>. QED
    BY <1>2, <2>1, <2>2 DEF WInv, Quiet, BroadcastPeerLists
<1>8. SessionsEnd'
  <2>. SUFFICES ASSUME NEW x \in Conns, readyState'[x] = "OPEN"
                PROVE  EndSession(x)' = pairPartner'[x]
    BY DEF SessionsEnd
  <2>1. x # c /\ readyState[x] = "OPEN"
    BY <1>2
  <2>2. EndSession(x) = pairPartner[x]
    BY <2>1 DEF WInv, SessionsEnd
  <2>. HIDE DEF freed
  <2>. QED
    BY <1>2, <1>5, <1>6, <2>1, <2>2
<1>9. \A x \in Conns : Inside(x)'
  <2>. HIDE DEF freed
  <2>. QED
    BY <1>5, <1>6, Zenon
<1>10. RolesEnd'
  <2>1. \A x \in Conns : EndRole(x)' = EndRole(x)
    <3>. HIDE DEF freed
    <3>. QED
      BY <1>5, <1>6, Zenon
  <2>2. RolesEnd
    BY DEF WInv
  <2>3. ASSUME NEW x \in Conns, readyState'[x] = "OPEN" /\ pairPartner'[x] # None
        PROVE  readyState[x] = "OPEN" /\ pairPartner[x] = pairPartner'[x]
    BY <1>2, <2>3
  <2>. QED
    BY <2>1, <2>2, <2>3, RolesKept
<1>. QED
  BY <1>4, <1>7, <1>8, <1>9, <1>10 DEF WInv
-----------------------------------------------------------------------------
(* The theorems.                                                           *)

\* At the start nothing has been sent.
LEMMA WireInit == Init => WInv
<1>. SUFFICES ASSUME Init PROVE WInv
  OBVIOUS
<1>1. Quiet /\ SessionsEnd /\ RolesEnd /\ ListsEnd
  BY DEF Init, Quiet, SessionsEnd, RolesEnd, ListsEnd
<1>2. ASSUME NEW x \in Conns PROVE Inside(x)
  <2>1. \A i \in 1..Len(wire[x]) : FALSE
    BY DEF Init
  <2>. QED
    BY <2>1, Zenon DEF Inside, InSession
<1>. QED
  BY <1>1, <1>2 DEF WInv

\* Each handler of the server, and each delivery, preserves the invariant.
LEMMA WireStep == IInv /\ IInv' /\ WInv /\ [Next]_vars => WInv'
<1>. SUFFICES ASSUME IInv, IInv', WInv, [Next]_vars PROVE WInv'
  OBVIOUS
<1>t. TypeOK /\ timers \in Seq(Conns \X Conns)
  BY DEF IInv, TypeOK
<1>1. CASE PeerJoinedTimer
  <2>1. Head(timers) \in Conns \X Conns
    BY <1>1, <1>t DEF PeerJoinedTimer
  <2>2. PICK r \in Conns, g \in Conns : Head(timers) = <<r, g>>
    BY <2>1
  <2>3. /\ wire' = Sent(wire, r, PeerJoinedMsg(clientIP[g]))
        /\ UNCHANGED <<readyState, pairPartner, clientsByIP, client>>
    BY <1>1, <2>2 DEF PeerJoinedTimer
  <2>4. PICK m \in Msg : m = PeerJoinedMsg(clientIP[g])
    BY <1>t, PeerJoinedMsgType DEF TypeOK
  <2>5. m.type = "peer_joined"
    BY <2>4 DEF PeerJoinedMsg
  <2>. QED
    BY <2>3, <2>4, <2>5, SentOne
<1>2. ASSUME NEW c \in Conns, NEW k \in Keys, Connect(c, k) PROVE WInv'
  BY <1>2, ConnectKeeps
<1>3. ASSUME NEW c \in Conns, NEW t \in KeysOrNone, PairRequest(c, t) PROVE WInv'
  <2>1. CASE PairTargetNotFound(c, t) \/ PairBusy(c, t)
    <3>1. PICK m \in {ErrorMsg("target_not_found"), ErrorMsg("busy")} : wire' = Sent(wire, c, m)
      BY <2>1 DEF PairTargetNotFound, PairBusy
    <3>2. m \in Msg /\ m.type = "error"
      BY <3>1, ErrorMsgType DEF ErrorMsg
    <3>3. UNCHANGED <<readyState, pairPartner, clientsByIP, client>>
      BY <2>1 DEF PairTargetNotFound, PairBusy, server
    <3>. QED
      BY <3>1, <3>2, <3>3, SentOne
  <2>2. CASE Pair(c, t)
    BY <2>2, PairKeeps
  <2>. QED
    BY <1>3, <2>1, <2>2 DEF PairRequest
<1>4. ASSUME NEW c \in Conns, ListPeers(c) PROVE WInv'
  <2>1. PeerListFor(c, clientsByIP, readyState) \in SUBSET Keys
    BY DEF PeerListFor
  <2>2. PICK m \in Msg : m = PeersMsg(PeerListFor(c, clientsByIP, readyState))
    BY <2>1, PeersMsgType
  <2>3. m.type = "peers" /\ m.peers = PeerListFor(c, clientsByIP, readyState)
    BY <2>2 DEF PeersMsg
  <2>4. wire' = Sent(wire, c, m) /\ UNCHANGED <<readyState, pairPartner, clientsByIP, client>>
    BY <1>4, <2>2 DEF ListPeers, server
  <2>. QED
    BY <2>2, <2>3, <2>4, SentOne
<1>5. ASSUME NEW c \in Conns, NEW p \in Payloads \cup {"peer_left"}, Relay(c, p) PROVE WInv'
  <2>1. UNCHANGED <<readyState, pairPartner, clientsByIP, client>>
    BY <1>5 DEF Relay, server
  <2>2. CASE pairPartner[c] = None \/ p \notin Payloads
    <3>1. wire' = wire
      BY <1>5, <2>2 DEF Relay
    <3>. QED
      BY <2>1, <3>1 DEF WInv, Quiet, SessionsEnd, RolesEnd, ListsEnd, EndSession, EndRole,
                        EndList, Inside
  <2>3. CASE pairPartner[c] # None /\ p \in Payloads
    <3>1. PICK r \in Conns : r = pairPartner[c]
      BY <1>t, <2>3 DEF TypeOK, ConnsOrNone
    <3>2. PICK m \in Msg : m = SignalMsg(c, p)
      BY <2>3, SignalMsgType
    <3>3. m.type = "signal" /\ m.from = c
      BY <3>2 DEF SignalMsg
    <3>4. wire' = Sent(wire, r, m)
      BY <1>5, <2>3, <3>1, <3>2 DEF Relay
    <3>5. readyState[r] = "OPEN" => pairPartner[r] = c
      BY <2>3, <3>1 DEF IInv, PairingSymmetric
    <3>. QED
      BY <2>1, <3>1, <3>2, <3>3, <3>4, <3>5, SentOne
  <2>. QED
    BY <2>2, <2>3
<1>6. ASSUME NEW c \in Conns, BeginClose(c) PROVE WInv'
  BY <1>6, BeginCloseKeeps
<1>7. ASSUME NEW c \in Conns, Close(c) PROVE WInv'
  BY <1>7, CloseKeeps
<1>8. ASSUME NEW c \in Conns, Deliver(c) PROVE WInv'
  BY <1>8, DeliverKeeps
<1>9. CASE UNCHANGED vars
  BY <1>9 DEF vars, WInv, Quiet, SessionsEnd, RolesEnd, ListsEnd, EndSession, EndRole,
              EndList, Inside
<1>. QED
  BY <1>1, <1>2, <1>3, <1>4, <1>5, <1>6, <1>7, <1>8, <1>9 DEF Next

\* The invariant holds of every behaviour.
LEMMA WireInvariant == Spec => []WInv
  BY InvariantHolds, WireInit, WireStep, PTL DEF Spec

\* The session each OPEN client will believe in once it has read its wire is the
\* _pairPartner the server keeps, across any re-pairings and closes.
THEOREM SessionsAgree == Spec => []SessionAgreement
  BY WireInvariant, InvariantImplies, PTL

\* What the server relays is read inside the session with its sender, however
\* pairings, closes and deliveries interleave.
THEOREM NothingCrosses == Spec => []NoCrossTalk
  BY WireInvariant, InvariantImplies, PTL

\* Two OPEN partners end up as one offerer and one answerer.
THEOREM RolesDiffer == Spec => []RolesComplementary
  BY WireInvariant, InvariantImplies, PTL

\* The peer list of a registered client is current: broadcastPeerLists runs
\* wherever the Map gains or loses an entry.
THEOREM ListsCurrent == Spec => []PeerListCurrent
  BY WireInvariant, InvariantImplies, PTL
-----------------------------------------------------------------------------
(* The address an offerer ends up with: of its last pending timer, or else *)
(* of the last message that names one.                                     *)

Names(m) == m.type = "peer_joined" \/ (m.type = "role" /\ m.peerIP # None)
Named(s) == {i \in 1..Len(s) : Names(s[i])}
Addr(s, cl) == IF Named(s) = {} THEN cl.peerIP ELSE s[Top(Named(s))].peerIP

Due(ts, x) == {i \in 1..Len(ts) : ts[i][1] = x}
LastDue(ts, x) == ts[Top(Due(ts, x))][2]

EndAddr(x) == Addr(wire[x], client[x])
EndAddress(x) == IF Due(timers, x) # {} THEN clientIP[LastDue(timers, x)] ELSE EndAddr(x)

\* The inductive invariant.  A timer's target has connected, so its address does
\* not change while the timer is pending.
TargetsKnown == \A i \in 1..Len(timers) : readyState[timers[i][2]] # "NEW"

AddressesEnd ==
    \A x \in Conns : readyState[x] = "OPEN" /\ pairPartner[x] # None /\ EndRole(x)
        => EndAddress(x) = clientIP[pairPartner[x]]

AInv == TargetsKnown /\ AddressesEnd

\* The property of SignalingServer is a part of it.
LEMMA AddressLooks == AddressesEnd => OffererLearnsPartner
<1>1. \A x : FinalAddress(x) = EndAddress(x)
  BY DEF FinalAddress, EndAddress, EndAddr, Addr, Named, Names, Due, LastDue, Top
<1>2. \A x : FinalRole(x) = EndRole(x)
  BY Looks, Zenon DEF EndRole
<1>. QED
  BY <1>1, <1>2, Zenon DEF AddressesEnd, OffererLearnsPartner

\* When the first position goes, the last is the last of the others or the first.
LEMMA TopOfTail ==
    ASSUME NEW n \in Nat, NEW M \in SUBSET (1..(n + 1)), NEW K,
           K = {i \in 1..n : i + 1 \in M}
    PROVE  /\ K # {} => M # {} /\ Top(M) = Top(K) + 1 /\ Top(K) \in 1..n
           /\ K = {} /\ 1 \in M => Top(M) = 1
           /\ K = {} /\ 1 \notin M => M = {}
<1>1. ASSUME K # {} PROVE M # {} /\ Top(M) = Top(K) + 1 /\ Top(K) \in 1..n
  <2>1. K \in SUBSET (1..n) /\ (\A i \in 1..n : i \in K <=> i + 1 \in M) /\ M # {}
    BY <1>1
  <2>. QED
    BY <1>1, <2>1, TopOfShorter
<1>2. ASSUME K = {}, NEW j \in M PROVE j = 1
  <2>1. j \in 1..(n + 1) /\ (j # 1 => j - 1 \in 1..n /\ (j - 1) + 1 = j)
    OBVIOUS
  <2>. QED
    BY <1>2, <2>1
<1>3. ASSUME K = {}, 1 \in M PROVE Top(M) = 1
  <2>1. n + 1 \in Nat /\ \A j \in M : j <= 1
    BY <1>2, <1>3
  <2>. QED
    BY <1>3, <2>1, TopUnique
<1>. QED
  BY <1>1, <1>2, <1>3

\* A message that names an address, at the end of the wire, has the last word.
LEMMA AddrAppend ==
    ASSUME NEW s \in Seq(Msg), NEW m \in Msg, NEW cl
    PROVE  Addr(Append(s, m), cl) = IF Names(m) THEN m.peerIP ELSE Addr(s, cl)
<1>. DEFINE q == Append(s, m)
            n == Len(s)
<1>1. n \in Nat /\ Len(q) = n + 1 /\ q[n + 1] = m /\ \A i \in 1..n : q[i] = s[i]
  OBVIOUS
<1>. HIDE DEF q, n
<1>2. Named(s) = {i \in 1..n : Names(s[i])} /\ Named(s) \in SUBSET (1..n)
  BY DEF Named, n
<1>3. 1..(n + 1) = (1..n) \cup {n + 1}
  BY <1>1
<1>4. Named(q) = IF Names(m) THEN Named(s) \cup {n + 1} ELSE Named(s)
  BY <1>1, <1>2, <1>3 DEF Named
<1>5. CASE Names(m)
  <2>1. Top(Named(q)) = n + 1 /\ Named(q) # {}
    BY <1>1, <1>2, <1>4, <1>5, TopOfLonger
  <2>. QED
    BY <1>1, <1>5, <2>1 DEF Addr, q
<1>6. CASE ~Names(m)
  <2>1. Named(q) = Named(s)
    BY <1>4, <1>6
  <2>2. Named(s) # {} => Top(Named(s)) \in 1..n
    BY <1>1, <1>2, TopExists
  <2>3. Addr(q, cl) = Addr(s, cl)
    BY <1>1, <2>1, <2>2 DEF Addr
  <2>. QED
    BY <1>6, <2>3 DEF q
<1>. QED
  BY <1>5, <1>6

\* Reading the first message does not change the address there will be.
LEMMA AddrTail ==
    ASSUME NEW s \in Seq(Msg), s # <<>>, NEW cl
    PROVE  Addr(Tail(s), ReceiveSignal(cl, Head(s))) = Addr(s, cl)
<1>. DEFINE q == Tail(s)
            n == Len(q)
            cl2 == ReceiveSignal(cl, Head(s))
<1>1. /\ n \in Nat /\ Len(s) = n + 1 /\ Head(s) = s[1]
      /\ \A i \in 1..n : q[i] = s[i + 1]
  OBVIOUS
<1>2. cl2.peerIP = IF Names(Head(s)) THEN Head(s).peerIP ELSE cl.peerIP
  BY DEF ReceiveSignal, Names
<1>. HIDE DEF q, n, cl2
<1>3. /\ Named(s) \in SUBSET (1..(n + 1)) /\ Named(q) = {i \in 1..n : i + 1 \in Named(s)}
      /\ (1 \in Named(s) <=> Names(Head(s)))
  <2>1. Named(s) = {i \in 1..(n + 1) : Names(s[i])} /\ Named(q) = {i \in 1..n : Names(q[i])}
    BY <1>1 DEF Named, n
  <2>2. \A i \in 1..n : i + 1 \in 1..(n + 1)
    BY <1>1
  <2>3. 1 \in 1..(n + 1)
    BY <1>1
  <2>. QED
    BY <1>1, <2>1, <2>2, <2>3
<1>4. /\ Named(q) # {} => Named(s) # {} /\ Top(Named(s)) = Top(Named(q)) + 1
                          /\ Top(Named(q)) \in 1..n
      /\ Named(q) = {} /\ 1 \in Named(s) => Top(Named(s)) = 1
      /\ Named(q) = {} /\ 1 \notin Named(s) => Named(s) = {}
  BY <1>1, <1>3, TopOfTail
<1>5. Addr(q, cl2) = Addr(s, cl)
  BY <1>1, <1>2, <1>3, <1>4 DEF Addr
<1>. QED
  BY <1>5 DEF q, cl2

\* A timer that is armed is the last due of its offerer.
LEMMA DueAppend ==
    ASSUME NEW ts \in Seq(Conns \X Conns), NEW e \in Conns \X Conns, NEW x
    PROVE  /\ e[1] = x => Due(Append(ts, e), x) # {} /\ LastDue(Append(ts, e), x) = e[2]
           /\ e[1] # x => /\ Due(Append(ts, e), x) = Due(ts, x)
                          /\ Due(ts, x) # {} => LastDue(Append(ts, e), x) = LastDue(ts, x)
<1>. DEFINE q == Append(ts, e)
            n == Len(ts)
<1>1. n \in Nat /\ Len(q) = n + 1 /\ q[n + 1] = e /\ \A i \in 1..n : q[i] = ts[i]
  OBVIOUS
<1>. HIDE DEF q, n
<1>2. Due(ts, x) = {i \in 1..n : ts[i][1] = x} /\ Due(ts, x) \in SUBSET (1..n)
  BY DEF Due, n
<1>3. 1..(n + 1) = (1..n) \cup {n + 1}
  BY <1>1
<1>4. Due(q, x) = IF e[1] = x THEN Due(ts, x) \cup {n + 1} ELSE Due(ts, x)
  BY <1>1, <1>2, <1>3 DEF Due
<1>5. ASSUME e[1] = x PROVE Due(q, x) # {} /\ LastDue(q, x) = e[2]
  <2>1. Top(Due(q, x)) = n + 1 /\ Due(q, x) # {}
    BY <1>1, <1>2, <1>4, <1>5, TopOfLonger
  <2>. QED
    BY <1>1, <2>1 DEF LastDue
<1>6. ASSUME e[1] # x
      PROVE  Due(q, x) = Due(ts, x) /\ (Due(ts, x) # {} => LastDue(q, x) = LastDue(ts, x))
  <2>1. Due(q, x) = Due(ts, x)
    BY <1>4, <1>6
  <2>2. Due(ts, x) # {} => Top(Due(ts, x)) \in 1..n
    BY <1>1, <1>2, TopExists
  <2>. QED
    BY <1>1, <2>1, <2>2 DEF LastDue
<1>. QED
  BY <1>5, <1>6 DEF q

\* When the first timer fires, the last due stays the last unless it was that one.
LEMMA DueTail ==
    ASSUME NEW ts \in Seq(Conns \X Conns), ts # <<>>, NEW x
    PROVE  /\ Due(Tail(ts), x) # {} => Due(ts, x) # {} /\ LastDue(ts, x) = LastDue(Tail(ts), x)
           /\ Due(Tail(ts), x) = {} /\ Head(ts)[1] = x =>
                 Due(ts, x) # {} /\ LastDue(ts, x) = Head(ts)[2]
           /\ Due(Tail(ts), x) = {} /\ Head(ts)[1] # x => Due(ts, x) = {}
<1>. DEFINE q == Tail(ts)
            n == Len(q)
<1>1. /\ n \in Nat /\ Len(ts) = n + 1 /\ Head(ts) = ts[1]
      /\ \A i \in 1..n : q[i] = ts[i + 1]
  OBVIOUS
<1>. HIDE DEF q, n
<1>2. /\ Due(ts, x) \in SUBSET (1..(n + 1)) /\ Due(q, x) = {i \in 1..n : i + 1 \in Due(ts, x)}
      /\ (1 \in Due(ts, x) <=> Head(ts)[1] = x)
  <2>1. Due(ts, x) = {i \in 1..(n + 1) : ts[i][1] = x} /\ Due(q, x) = {i \in 1..n : q[i][1] = x}
    BY <1>1 DEF Due, n
  <2>2. \A i \in 1..n : i + 1 \in 1..(n + 1)
    BY <1>1
  <2>3. 1 \in 1..(n + 1)
    BY <1>1
  <2>. QED
    BY <1>1, <2>1, <2>2, <2>3
<1>3. /\ Due(q, x) # {} => Due(ts, x) # {} /\ Top(Due(ts, x)) = Top(Due(q, x)) + 1
                           /\ Top(Due(q, x)) \in 1..n
      /\ Due(q, x) = {} /\ 1 \in Due(ts, x) => Top(Due(ts, x)) = 1
      /\ Due(q, x) = {} /\ 1 \notin Due(ts, x) => Due(ts, x) = {}
  BY <1>1, <1>2, TopOfTail
<1>4. Due(q, x) # {} => LastDue(ts, x) = LastDue(q, x)
  BY <1>1, <1>3 DEF LastDue
<1>5. Due(q, x) = {} /\ Head(ts)[1] = x => LastDue(ts, x) = Head(ts)[2]
  BY <1>1, <1>2, <1>3 DEF LastDue
<1>. QED
  BY <1>2, <1>3, <1>4, <1>5 DEF q

\* What a step does to the wire of x without changing its role or its address.
QuietAt(x) ==
    \/ wire'[x] = wire[x] /\ client'[x] = client[x]
    \/ /\ \E m \in Msg : ~Names(m) /\ m.type # "role" /\ wire'[x] = Append(wire[x], m)
       /\ client'[x] = client[x]
    \/ /\ wire[x] # <<>> /\ wire'[x] = Tail(wire[x])
       /\ client'[x] = ReceiveSignal(client[x], Head(wire[x]))

LEMMA QuietKeeps ==
    ASSUME TypeOK, NEW x \in Conns, QuietAt(x)
    PROVE  EndRole(x)' = EndRole(x) /\ EndAddr(x)' = EndAddr(x)
<1>0. wire[x] \in Seq(Msg)
  BY DEF TypeOK
<1>1. CASE wire'[x] = wire[x] /\ client'[x] = client[x]
  BY <1>1, Zenon DEF EndRole, EndAddr
<1>2. CASE /\ \E m \in Msg : ~Names(m) /\ m.type # "role" /\ wire'[x] = Append(wire[x], m)
           /\ client'[x] = client[x]
  <2>1. PICK m \in Msg : ~Names(m) /\ m.type # "role" /\ wire'[x] = Append(wire[x], m)
    BY <1>2
  <2>2. EndRole(x)' = EndRole(x)
    BY <1>2, <2>1, Appended, Zenon
  <2>3. Addr(Append(wire[x], m), client[x]) = Addr(wire[x], client[x])
    BY <1>0, <2>1, AddrAppend, Zenon
  <2>. QED
    BY <1>2, <2>1, <2>2, <2>3, Zenon DEF EndAddr
<1>3. CASE /\ wire[x] # <<>> /\ wire'[x] = Tail(wire[x])
           /\ client'[x] = ReceiveSignal(client[x], Head(wire[x]))
  <2>1. EndRole(x)' = EndRole(x)
    BY <1>3, Received
  <2>2. Addr(Tail(wire[x]), ReceiveSignal(client[x], Head(wire[x]))) = Addr(wire[x], client[x])
    BY <1>0, <1>3, AddrTail, Zenon
  <2>. QED
    BY <1>3, <2>1, <2>2, Zenon DEF EndAddr
<1>. QED
  BY <1>1, <1>2, <1>3, Zenon DEF QuietAt

\* A step that arms and fires no timer, pairs nobody, and changes only the
\* address of a socket that connects.
LEMMA AddressesKept ==
    ASSUME IInv, AInv, timers' = timers,
           \A y \in Conns : readyState[y] # "NEW" =>
               clientIP'[y] = clientIP[y] /\ readyState'[y] # "NEW",
           \A x \in Conns : readyState'[x] = "OPEN" /\ pairPartner'[x] # None =>
               readyState[x] = "OPEN" /\ pairPartner'[x] = pairPartner[x] /\ QuietAt(x)
    PROVE  AInv'
<1>0. TypeOK /\ timers \in Seq(Conns \X Conns)
  BY DEF IInv, TypeOK
<1>1. TargetsKnown'
  <2>1. \A i \in 1..Len(timers) : timers[i][2] \in Conns
    BY <1>0
  <2>. QED
    BY <2>1 DEF AInv, TargetsKnown
<1>2. AddressesEnd'
  <2>. SUFFICES ASSUME NEW x \in Conns, readyState'[x] = "OPEN", pairPartner'[x] # None,
                       EndRole(x)'
                PROVE  EndAddress(x)' = clientIP'[pairPartner'[x]]
    BY Zenon DEF AddressesEnd
  <2>1. readyState[x] = "OPEN" /\ pairPartner'[x] = pairPartner[x] /\ QuietAt(x)
    OBVIOUS
  <2>2. EndRole(x)' = EndRole(x) /\ EndAddr(x)' = EndAddr(x)
    BY <1>0, <2>1, QuietKeeps
  <2>3. EndAddress(x) = clientIP[pairPartner[x]]
    BY <2>1, <2>2, Zenon DEF AInv, AddressesEnd
  <2>4. clientIP'[pairPartner[x]] = clientIP[pairPartner[x]]
    <3>1. pairPartner[x] \in Conns /\ readyState[pairPartner[x]] # "NEW"
      <4>1. x \in Conns /\ pairPartner[x] # None /\ readyState[x] = "OPEN"
        BY <2>1
      <4>2. pairPartner[x] \in Conns
        BY <1>0, <4>1 DEF TypeOK, ConnsOrNone
      <4>3. Attached(pairPartner[x])
        BY <4>1 DEF IInv, PairingSymmetric
      <4>. QED
        BY <4>2, <4>3 DEF Attached
    <3>. QED
      BY <3>1
  <2>5. Due(timers, x) # {} => clientIP'[LastDue(timers, x)] = clientIP[LastDue(timers, x)]
    <3>. SUFFICES ASSUME Due(timers, x) # {}
                  PROVE  clientIP'[LastDue(timers, x)] = clientIP[LastDue(timers, x)]
      OBVIOUS
    <3>1. Len(timers) \in Nat /\ Due(timers, x) \in SUBSET (1..Len(timers))
      BY <1>0 DEF Due
    <3>2. Top(Due(timers, x)) \in 1..Len(timers)
      BY <3>1, TopExists
    <3>3. LastDue(timers, x) \in Conns /\ readyState[LastDue(timers, x)] # "NEW"
      BY <1>0, <3>2 DEF LastDue, AInv, TargetsKnown
    <3>. QED
      BY <3>3
  <2>. QED
    BY <2>1, <2>2, <2>3, <2>4, <2>5, Zenon DEF EndAddress
<1>. QED
  BY <1>1, <1>2 DEF AInv

\* A step that sends r one message that names no address.
LEMMA SentNoName ==
    ASSUME IInv, AInv, NEW r \in Conns, NEW m \in Msg, ~Names(m), m.type # "role",
           wire' = Sent(wire, r, m) \/ wire' = wire,
           UNCHANGED <<server, client>>
    PROVE  AInv'
<1>1. ASSUME NEW x \in Conns PROVE QuietAt(x)
  <2>1. wire'[x] = wire[x] \/ wire'[x] = Append(wire[x], m)
    BY DEF Sent, IInv, TypeOK
  <2>2. client'[x] = client[x]
    OBVIOUS
  <2>. QED
    BY <2>1, <2>2, Zenon DEF QuietAt
<1>. QED
  BY <1>1, AddressesKept DEF server

\* A broadcast leaves addresses as they are, also after a peer_left.
LEMMA BroadcastQuiet ==
    ASSUME TypeOK, NEW x \in Conns, wire' = BroadcastPeerLists(wire, clientsByIP', readyState'),
           client' = client
    PROVE  QuietAt(x)
<1>. DEFINE m == PeersMsg(PeerListFor(x, clientsByIP', readyState'))
<1>1. m \in Msg /\ m.type = "peers"
  BY PeersMsgType DEF PeersMsg, PeerListFor
<1>2. wire'[x] = wire[x] \/ wire'[x] = Append(wire[x], m)
  BY DEF BroadcastPeerLists
<1>. HIDE DEF m
<1>3. ~Names(m) /\ m.type # "role"
  BY <1>1 DEF Names
<1>. QED
  BY <1>1, <1>2, <1>3 DEF QuietAt

\* The timer of a new pairing is the last of its offerer, so its peer_joined is.
LEMMA PairAddresses ==
    ASSUME IInv, IInv', AInv, WInv, NEW c \in Conns, NEW t \in KeysOrNone, Pair(c, t)
    PROVE  AInv'
<1>0. TargetOf(t) \in Conns /\ TargetOf(t) # c /\ readyState[TargetOf(t)] # "NEW"
  BY TargetType DEF Pair, IInv, TypeOK, RegistryConsistent, TargetOf, KeysOrNone, ConnsOrNone,
                    Attached
<1>g. PICK g \in Conns : g = TargetOf(t)
  BY <1>0
<1>1. /\ g # c /\ readyState[g] # "NEW"
      /\ TypeOK /\ timers \in Seq(Conns \X Conns) /\ <<c, g>> \in Conns \X Conns
  BY <1>0, <1>g DEF IInv, TypeOK
<1>2. /\ timers' = Append(timers, <<c, g>>)
      /\ pairPartner' = [pairPartner EXCEPT ![c] = g, ![g] = c]
      /\ wire' = Sent(Sent(wire, c, OffererMsg(c, g)), g, AnswererMsg(g, c))
      /\ UNCHANGED <<readyState, clientIP, client>>
  BY <1>g DEF Pair
<1>e. PICK e \in Conns \X Conns : e[1] = c /\ e[2] = g /\ timers' = Append(timers, e)
  BY <1>1, <1>2
<1>d. ASSUME NEW x
      PROVE  /\ c = x => Due(timers', x) # {} /\ LastDue(timers', x) = g
             /\ c # x => /\ Due(timers', x) = Due(timers, x)
                         /\ Due(timers, x) # {} => LastDue(timers', x) = LastDue(timers, x)
  <2>1. timers \in Seq(Conns \X Conns) /\ e[1] = c /\ e[2] = g
    BY <1>1, <1>e
  <2>2. /\ e[1] = x => Due(Append(timers, e), x) # {} /\ LastDue(Append(timers, e), x) = e[2]
        /\ e[1] # x => /\ Due(Append(timers, e), x) = Due(timers, x)
                       /\ Due(timers, x) # {} => LastDue(Append(timers, e), x) = LastDue(timers, x)
    BY <2>1, DueAppend, ZenonT(30)
  <2>. QED
    BY <1>e, <2>1, <2>2
<1>3. TargetsKnown'
  <2>1. \A i \in 1..Len(timers) : readyState[timers[i][2]] # "NEW"
    BY DEF AInv, TargetsKnown
  <2>. QED
    BY <1>1, <1>2, <2>1 DEF TargetsKnown
<1>4. ASSUME NEW x \in Conns, readyState[x] = "OPEN", pairPartner'[x] # None, EndRole(x)'
      PROVE  EndAddress(x)' = clientIP[pairPartner'[x]]
  <2>1. CASE x = c
    <3>1. pairPartner'[x] = g
      BY <1>1, <1>2, <2>1 DEF TypeOK
    <3>2. Due(timers', x) # {} /\ LastDue(timers', x) = g
      BY <1>d, <2>1
    <3>. QED
      BY <1>2, <3>1, <3>2, Zenon DEF EndAddress
  <2>2. CASE x = g
    <3>1. readyState'[g] = "OPEN" /\ pairPartner'[g] = c
      BY <1>1, <1>2, <1>4, <2>2 DEF TypeOK
    <3>2. AnswererMsg(g, c) \in Msg /\ AnswererMsg(g, c).type = "role"
          /\ AnswererMsg(g, c).role = "answerer"
      BY <1>1, RoleMsgType DEF AnswererMsg
    <3>3. wire'[g] = Append(wire[g], AnswererMsg(g, c))
      <4>. DEFINE mg == AnswererMsg(g, c)
                  mc == OffererMsg(c, g)
      <4>1. wire' = Sent(Sent(wire, c, mc), g, mg)
        BY <1>2
      <4>. HIDE DEF mg, mc
      <4>2. wire'[g] = Append(wire[g], mg)
        BY <1>1, <1>2, <3>1, <4>1 DEF Sent, TypeOK
      <4>. QED
        BY <4>2 DEF mg
    <3>4. EndRole(g)' = ("answerer" = "offerer")
      <4>0. PICK mg \in Msg : mg = AnswererMsg(g, c)
        BY <3>2
      <4>1. /\ mg \in Msg /\ wire'[g] = Append(wire[g], mg) /\ client'[g] = client[g]
            /\ mg.type = "role" /\ mg.role = "answerer"
        BY <1>2, <3>2, <3>3, <4>0
      <4>2. EndRole(g)' = IF mg.type = "role" THEN mg.role = "offerer" ELSE EndRole(g)
        BY <1>1, <4>1, Appended, Zenon
      <4>. QED
        BY <4>1, <4>2
    <3>. QED
      BY <1>4, <2>2, <3>4
  <2>3. CASE x \notin {c, g}
    <3>1. wire'[x] = wire[x] /\ client'[x] = client[x] /\ pairPartner'[x] = pairPartner[x]
      BY <1>1, <1>2, <2>3 DEF Sent, TypeOK
    <3>2. EndRole(x)' = EndRole(x) /\ EndAddr(x)' = EndAddr(x)
      BY <3>1, Zenon DEF EndRole, EndAddr
    <3>3. EndAddress(x) = clientIP[pairPartner[x]]
      BY <1>4, <3>1, <3>2, Zenon DEF AInv, AddressesEnd
    <3>4. /\ Due(timers', x) = Due(timers, x)
          /\ Due(timers, x) # {} => LastDue(timers', x) = LastDue(timers, x)
      BY <1>d, <2>3
    <3>. QED
      BY <1>2, <3>1, <3>2, <3>3, <3>4, Zenon DEF EndAddress
  <2>. QED
    BY <2>1, <2>2, <2>3
<1>. QED
  BY <1>2, <1>3, <1>4, Zenon DEF AInv, AddressesEnd

\* What the first timer sends is the address it was due to send, and a later one
\* of the same offerer overrules it.
LEMMA TimerAddresses ==
    ASSUME IInv, AInv, PeerJoinedTimer
    PROVE  AInv'
<1>0. TypeOK /\ timers \in Seq(Conns \X Conns) /\ timers # <<>>
  BY DEF IInv, TypeOK, PeerJoinedTimer
<1>1. PICK r \in Conns, g \in Conns : Head(timers) = <<r, g>>
  BY <1>0
<1>2. /\ wire' = Sent(wire, r, PeerJoinedMsg(clientIP[g])) /\ timers' = Tail(timers)
      /\ UNCHANGED <<readyState, clientIP, pairPartner, client>>
  BY <1>1 DEF PeerJoinedTimer
<1>3. PICK m \in Msg : m = PeerJoinedMsg(clientIP[g])
  BY <1>0, PeerJoinedMsgType DEF TypeOK
<1>4. m.type = "peer_joined" /\ m.peerIP = clientIP[g] /\ Names(m)
  BY <1>3 DEF PeerJoinedMsg, Names
<1>5. TargetsKnown'
  BY <1>0, <1>2 DEF AInv, TargetsKnown
<1>6. ASSUME NEW x \in Conns, readyState[x] = "OPEN", pairPartner[x] # None, EndRole(x)'
      PROVE  EndAddress(x)' = clientIP[pairPartner[x]]
  <2>1. /\ Due(timers', x) # {} => Due(timers, x) # {} /\ LastDue(timers, x) = LastDue(timers', x)
        /\ Due(timers', x) = {} /\ r = x => Due(timers, x) # {} /\ LastDue(timers, x) = g
        /\ Due(timers', x) = {} /\ r # x => Due(timers, x) = {}
    <3>1. Head(timers)[1] = r /\ Head(timers)[2] = g
      BY <1>1
    <3>. QED
      BY <1>0, <1>2, <3>1, DueTail, Zenon
  <2>2. CASE x = r
    <3>1. wire'[x] = Append(wire[x], m) /\ client'[x] = client[x] /\ wire[x] \in Seq(Msg)
      BY <1>0, <1>2, <1>3, <1>6, <2>2 DEF Sent, TypeOK
    <3>2. EndRole(x)' = EndRole(x)
      <4>1. EndRole(x)' = IF m.type = "role" THEN m.role = "offerer" ELSE EndRole(x)
        BY <1>0, <3>1, Appended, Zenon
      <4>. QED
        BY <1>4, <4>1
    <3>3. EndAddr(x)' = clientIP[g]
      <4>1. Addr(Append(wire[x], m), client[x]) = m.peerIP
        BY <1>4, <3>1, AddrAppend, Zenon
      <4>. QED
        BY <1>4, <3>1, <4>1, Zenon DEF EndAddr
    <3>4. EndAddress(x) = clientIP[pairPartner[x]]
      BY <1>6, <3>2, Zenon DEF AInv, AddressesEnd
    <3>5. EndAddress(x)' = EndAddress(x)
      BY <1>2, <2>1, <2>2, <3>3, Zenon DEF EndAddress
    <3>. QED
      BY <3>4, <3>5
  <2>3. CASE x # r
    <3>1. wire'[x] = wire[x] /\ client'[x] = client[x]
      BY <1>0, <1>2, <2>3 DEF Sent, TypeOK
    <3>2. EndRole(x)' = EndRole(x) /\ EndAddr(x)' = EndAddr(x)
      BY <3>1, Zenon DEF EndRole, EndAddr
    <3>3. EndAddress(x) = clientIP[pairPartner[x]]
      BY <1>6, <3>2, Zenon DEF AInv, AddressesEnd
    <3>4. EndAddress(x)' = EndAddress(x)
      BY <1>2, <2>1, <2>3, <3>2, Zenon DEF EndAddress
    <3>. QED
      BY <3>3, <3>4
  <2>. QED
    BY <2>2, <2>3
<1>. QED
  BY <1>2, <1>5, <1>6, Zenon DEF AInv, AddressesEnd

\* A connection is made with a fresh address, and changes nobody else's.
LEMMA ConnectAddresses ==
    ASSUME IInv, AInv, NEW c \in Conns, NEW k \in Keys, Connect(c, k)
    PROVE  AInv'
<1>0. TypeOK
  BY DEF IInv
<1>1. /\ wire' = BroadcastPeerLists(wire, clientsByIP', readyState') /\ client' = client
      /\ timers' = timers
  BY DEF Connect
<1>2. \A x \in Conns : QuietAt(x)
  BY <1>0, <1>1, BroadcastQuiet
<1>3. \A y \in Conns : readyState[y] # "NEW" =>
         clientIP'[y] = clientIP[y] /\ readyState'[y] # "NEW"
  BY <1>0 DEF Connect, TypeOK
<1>4. \A x \in Conns : readyState'[x] = "OPEN" /\ pairPartner'[x] # None =>
         readyState[x] = "OPEN" /\ pairPartner'[x] = pairPartner[x]
  BY <1>0 DEF Connect, TypeOK
<1>. QED
  BY <1>1, <1>2, <1>3, <1>4, AddressesKept

\* A socket that keeps its partner through a 'close' is sent a list at most.
LEMMA CloseAddresses ==
    ASSUME IInv, AInv, NEW c \in Conns, Close(c)
    PROVE  AInv'
<1>0. TypeOK
  BY DEF IInv
<1>1. /\ wire' = BroadcastPeerLists(PeerLeftNotice(wire, c), clientsByIP', readyState')
      /\ UNCHANGED <<timers, client, clientIP>>
  BY DEF Close
<1>2. \A y \in Conns : readyState[y] # "NEW" => readyState'[y] # "NEW"
  BY <1>0 DEF Close, TypeOK
<1>3. ASSUME NEW x \in Conns, readyState'[x] = "OPEN", pairPartner'[x] # None
      PROVE  readyState[x] = "OPEN" /\ pairPartner'[x] = pairPartner[x] /\ QuietAt(x)
  <2>1. /\ readyState[x] = "OPEN" /\ pairPartner'[x] = pairPartner[x]
        /\ ~(ReleasesPartner(c) /\ x = pairPartner[c])
    BY <1>0, <1>3 DEF Close, TypeOK
  <2>2. PeerLeftNotice(wire, c)[x] = wire[x]
    BY <1>0, <2>1 DEF PeerLeftNotice, Sent, TypeOK, ReleasesPartner
  <2>. DEFINE m == PeersMsg(PeerListFor(x, clientsByIP', readyState'))
  <2>3. m \in Msg /\ m.type = "peers"
    BY PeersMsgType DEF PeersMsg, PeerListFor
  <2>4. wire'[x] = wire[x] \/ wire'[x] = Append(wire[x], m)
    BY <1>1, <2>2 DEF BroadcastPeerLists
  <2>. HIDE DEF m
  <2>5. ~Names(m) /\ m.type # "role"
    BY <2>3 DEF Names
  <2>6. QuietAt(x)
    BY <1>1, <2>3, <2>4, <2>5 DEF QuietAt
  <2>. QED
    BY <2>1, <2>6
<1>. QED
  BY <1>1, <1>2, <1>3, AddressesKept

\* Each handler of the server, and each delivery, preserves the invariant.
LEMMA AddressStep == IInv /\ IInv' /\ WInv /\ AInv /\ [Next]_vars => AInv'
<1>. SUFFICES ASSUME IInv, IInv', WInv, AInv, [Next]_vars PROVE AInv'
  OBVIOUS
<1>t. TypeOK
  BY DEF IInv
<1>1. CASE PeerJoinedTimer
  BY <1>1, TimerAddresses
<1>2. ASSUME NEW c \in Conns, NEW k \in Keys, Connect(c, k) PROVE AInv'
  BY <1>2, ConnectAddresses
<1>3. ASSUME NEW c \in Conns, NEW t \in KeysOrNone, PairRequest(c, t) PROVE AInv'
  <2>1. CASE PairTargetNotFound(c, t) \/ PairBusy(c, t)
    <3>1. PICK m \in {ErrorMsg("target_not_found"), ErrorMsg("busy")} : wire' = Sent(wire, c, m)
      BY <2>1 DEF PairTargetNotFound, PairBusy
    <3>2. m \in Msg /\ ~Names(m) /\ m.type # "role"
      BY <3>1, ErrorMsgType DEF ErrorMsg, Names
    <3>3. UNCHANGED <<server, client>>
      BY <2>1 DEF PairTargetNotFound, PairBusy
    <3>. QED
      BY <3>1, <3>2, <3>3, SentNoName
  <2>2. CASE Pair(c, t)
    BY <2>2, PairAddresses
  <2>. QED
    BY <1>3, <2>1, <2>2 DEF PairRequest
<1>4. ASSUME NEW c \in Conns, ListPeers(c) PROVE AInv'
  <2>1. PeerListFor(c, clientsByIP, readyState) \in SUBSET Keys
    BY DEF PeerListFor
  <2>2. PICK m \in Msg : m = PeersMsg(PeerListFor(c, clientsByIP, readyState))
    BY <2>1, PeersMsgType
  <2>3. ~Names(m) /\ m.type # "role"
    BY <2>2 DEF PeersMsg, Names
  <2>4. wire' = Sent(wire, c, m) /\ UNCHANGED <<server, client>>
    BY <1>4, <2>2 DEF ListPeers
  <2>. QED
    BY <2>2, <2>3, <2>4, SentNoName
<1>5. ASSUME NEW c \in Conns, NEW p \in Payloads \cup {"peer_left"}, Relay(c, p) PROVE AInv'
  <2>1. UNCHANGED <<server, client>>
    BY <1>5 DEF Relay
  <2>2. CASE pairPartner[c] = None \/ p \notin Payloads
    <3>1. wire' = wire /\ PeerLeftMsg \in Msg /\ ~Names(PeerLeftMsg) /\ PeerLeftMsg.type # "role"
      BY <1>5, <2>2, PeerLeftMsgType DEF Relay, PeerLeftMsg, Names
    <3>. QED
      BY <2>1, <3>1, SentNoName
  <2>3. CASE pairPartner[c] # None /\ p \in Payloads
    <3>1. PICK r \in Conns : r = pairPartner[c]
      BY <1>t, <2>3 DEF TypeOK, ConnsOrNone
    <3>2. PICK m \in Msg : m = SignalMsg(c, p)
      BY <2>3, SignalMsgType
    <3>3. ~Names(m) /\ m.type # "role"
      BY <3>2 DEF SignalMsg, Names
    <3>4. wire' = Sent(wire, r, m)
      BY <1>5, <2>3, <3>1, <3>2 DEF Relay
    <3>. QED
      BY <2>1, <3>3, <3>4, SentNoName
  <2>. QED
    BY <2>2, <2>3
<1>6. ASSUME NEW c \in Conns, BeginClose(c) PROVE AInv'
  <2>1. /\ \A y \in Conns : readyState[y] # "NEW" => readyState'[y] # "NEW"
        /\ \A x \in Conns : readyState'[x] = "OPEN" => x # c /\ readyState[x] = "OPEN"
        /\ UNCHANGED <<clientIP, pairPartner, timers>>
    BY <1>6, <1>t DEF BeginClose, TypeOK
  <2>2. \A x \in Conns : x # c => wire'[x] = wire[x] /\ client'[x] = client[x]
    BY <1>6, <1>t DEF BeginClose, TypeOK
  <2>. QED
    BY <2>1, <2>2, AddressesKept DEF QuietAt
<1>7. ASSUME NEW c \in Conns, Close(c) PROVE AInv'
  BY <1>7, CloseAddresses
<1>8. ASSUME NEW c \in Conns, Deliver(c) PROVE AInv'
  <2>1. ASSUME NEW x \in Conns PROVE QuietAt(x)
    <3>1. CASE x = c
      <4>1. /\ wire[x] # <<>> /\ wire'[x] = Tail(wire[x])
            /\ client'[x] = ReceiveSignal(client[x], Head(wire[x]))
        BY <1>8, <1>t, <3>1 DEF Deliver, TypeOK
      <4>. QED
        BY <4>1, Zenon DEF QuietAt
    <3>2. CASE x # c
      <4>1. wire'[x] = wire[x] /\ client'[x] = client[x]
        BY <1>8, <1>t, <3>2 DEF Deliver, TypeOK
      <4>. QED
        BY <4>1, Zenon DEF QuietAt
    <3>. QED
      BY <3>1, <3>2
  <2>2. UNCHANGED <<readyState, clientIP, pairPartner, timers>>
    BY <1>8 DEF Deliver, server
  <2>. QED
    BY <2>1, <2>2, AddressesKept
<1>9. CASE UNCHANGED vars
  <2>1. UNCHANGED <<readyState, clientIP, pairPartner, timers, wire, client>>
    BY <1>9 DEF vars
  <2>. QED
    BY <2>1, AddressesKept DEF QuietAt
<1>. QED
  BY <1>1, <1>2, <1>3, <1>4, <1>5, <1>6, <1>7, <1>8, <1>9 DEF Next

\* However timers of earlier pairings are still pending, an OPEN offerer ends up
\* with the address of the partner it has: timers fire in the order they are set.
THEOREM OfferersLearnPartners == Spec => []OffererLearnsPartner
<1>1. Init => AInv
  BY DEF Init, AInv, TargetsKnown, AddressesEnd
<1>. QED
  BY <1>1, InvariantHolds, WireInvariant, AddressStep, AddressLooks, PTL DEF Spec, AInv
=============================================================================
