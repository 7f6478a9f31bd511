---------------------------- MODULE PtyPoolProofs ---------------------------
(***************************************************************************)
(* Proofs, for a pool of any size and any number of borrowers, that every  *)
(* shell alive is in exactly one pair of hands, that the channel has room  *)
(* for whatever comes back, and that Stop drains after the reaper.         *)
(***************************************************************************)
EXTENDS PtyPool, FiniteSetTheorems, TLAPS

PoolAssumption == Size \in Nat /\ IsFiniteSet(Users)

-----------------------------------------------------------------------------
(***************************************************************************)
(* The inductive invariant                                                 *)
(***************************************************************************)

UserType == {Idle, [pc |-> "acquire"], [pc |-> "renew"]} \cup [pc : {"has", "send"}, p : Procs]
ReaperType == {Idle, [pc |-> "collect"], [pc |-> "check"], [pc |-> "renew"], [pc |-> "exited"]}
                \cup [pc : {"send"}, p : Procs]

Types == TypeOK /\ user \in [Users -> UserType] /\ reaper \in ReaperType

\* A sequence without repetition.
Distinct(s) == \A i, k \in DOMAIN s : i # k => s[i] # s[k]

\* Whose hands a process is in.
InSlots(p) == p \in SeqSet(slots)
InCollected(p) == p \in SeqSet(collected)
InReaper(p) == reaper.pc = "send" /\ reaper.p = p
InUser(u, p) == user[u].pc \in {"has", "send"} /\ user[u].p = p

\* A process is in the hands of one only, and once.
OneHand ==
    /\ Distinct(slots) /\ Distinct(collected)
    /\ \A p : /\ InSlots(p) => ~InCollected(p) /\ ~InReaper(p)
              /\ InCollected(p) => ~InReaper(p)
              /\ \A u \in Users : InUser(u, p) => ~InSlots(p) /\ ~InCollected(p) /\ ~InReaper(p)
              /\ \A u, v \in Users : InUser(u, p) /\ InUser(v, p) => u = v

\* The processes alive are those in somebody's hands.
LiveInHand ==
    \A p : p \in live <=> \/ InSlots(p) \/ InCollected(p) \/ InReaper(p)
                          \/ \E u \in Users : InUser(u, p)

\* The shells, and the places of those being replaced, fit into the channel.
Out == {u \in Users : user[u].pc \in {"has", "renew", "send"}}
InReplacement == IF reaper.pc \in {"renew", "send"} THEN 1 ELSE 0
Room == Len(slots) + Len(collected) + InReplacement + Cardinality(Out) <= Size

\* The reaper rests with nothing collected, and Stop drains after it has left.
ReaperRests ==
    /\ reaper.pc \in {"idle", "exited"} => collected = <<>>
    /\ stopper \in {"drain", "done"} => reaper.pc = "exited"

Inv == Types /\ OneHand /\ LiveInHand /\ Room /\ ReaperRests

-----------------------------------------------------------------------------
(***************************************************************************)
(* Sequences without repetition, and the borrowers that are out            *)
(***************************************************************************)

\* Receiving from a channel.
LEMMA TailSet ==
    ASSUME NEW S, NEW s \in Seq(S), s # <<>>, Distinct(s)
    PROVE  /\ Head(s) \in S /\ Tail(s) \in Seq(S) /\ Len(Tail(s)) = Len(s) - 1
           /\ Distinct(Tail(s)) /\ Head(s) \in SeqSet(s)
           /\ \A p : p \in SeqSet(Tail(s)) <=> p \in SeqSet(s) /\ p # Head(s)
<1>1. /\ Head(s) \in S /\ Tail(s) \in Seq(S) /\ Len(Tail(s)) = Len(s) - 1 /\ Head(s) = s[1]
      /\ Len(s) \in Nat \ {0} /\ \A i \in 1 .. Len(s) - 1 : Tail(s)[i] = s[i + 1]
  OBVIOUS
<1>2. Distinct(Tail(s))
  <2> SUFFICES ASSUME NEW i \in DOMAIN Tail(s), NEW k \in DOMAIN Tail(s), i # k
               PROVE  Tail(s)[i] # Tail(s)[k]
    BY DEF Distinct
  <2>1. i + 1 \in DOMAIN s /\ k + 1 \in DOMAIN s /\ i + 1 # k + 1
    BY <1>1
  <2>2. s[i + 1] # s[k + 1]
    BY <2>1 DEF Distinct
  <2>. QED
    BY <1>1, <2>2
<1>3. ASSUME NEW p, p \in SeqSet(Tail(s)) PROVE p \in SeqSet(s) /\ p # Head(s)
  <2>1. PICK i \in DOMAIN Tail(s) : p = Tail(s)[i]
    BY <1>3 DEF SeqSet
  <2>2. p = s[i + 1] /\ i + 1 \in DOMAIN s /\ 1 \in DOMAIN s /\ i + 1 # 1
    BY <1>1, <2>1
  <2>. QED
    BY <1>1, <2>2 DEF SeqSet, Distinct
<1>4. ASSUME NEW p, p \in SeqSet(s), p # Head(s) PROVE p \in SeqSet(Tail(s))
  <2>1. PICK i \in DOMAIN s : p = s[i]
    BY <1>4 DEF SeqSet
  <2>2. i - 1 \in DOMAIN Tail(s) /\ p = Tail(s)[i - 1]
    BY <1>1, <1>4, <2>1
  <2>. QED
    BY <2>2 DEF SeqSet
<1>5. Head(s) \in SeqSet(s)
  BY <1>1 DEF SeqSet
<1>. QED
  BY <1>1, <1>2, <1>3, <1>4, <1>5

\* Sending to a channel.
LEMMA AppendSet ==
    ASSUME NEW S, NEW s \in Seq(S), NEW x \in S, Distinct(s), x \notin SeqSet(s)
    PROVE  /\ Append(s, x) \in Seq(S) /\ Len(Append(s, x)) = Len(s) + 1
           /\ Distinct(Append(s, x))
           /\ \A p : p \in SeqSet(Append(s, x)) <=> p \in SeqSet(s) \/ p = x
<1>1. /\ Append(s, x) \in Seq(S) /\ Len(Append(s, x)) = Len(s) + 1 /\ Len(s) \in Nat
      /\ Append(s, x)[Len(s) + 1] = x /\ \A i \in DOMAIN s : Append(s, x)[i] = s[i]
      /\ \A i \in DOMAIN Append(s, x) : i \in DOMAIN s \/ i = Len(s) + 1
      /\ \A i \in DOMAIN s : i \in DOMAIN Append(s, x)
      /\ Len(s) + 1 \in DOMAIN Append(s, x)
  OBVIOUS
<1>2. Distinct(Append(s, x))
  BY <1>1 DEF Distinct, SeqSet
<1>. QED
  BY <1>1, <1>2 DEF SeqSet

\* The elements of a sequence without repetition are as many as it is long.
LEMMA DistinctCardinality ==
    ASSUME NEW S, NEW s \in Seq(S), Distinct(s)
    PROVE  IsFiniteSet(SeqSet(s)) /\ Cardinality(SeqSet(s)) = Len(s)
<1>1. IsFiniteSet(1 .. Len(s)) /\ Cardinality(1 .. Len(s)) = Len(s) /\ DOMAIN s = 1 .. Len(s)
  <2>1. Len(s) \in Nat /\ DOMAIN s = 1 .. Len(s)
    OBVIOUS
  <2>2. IsFiniteSet(1 .. Len(s)) /\ Cardinality(1 .. Len(s)) = IF 1 > Len(s) THEN 0 ELSE Len(s) - 1 + 1
    BY <2>1, FS_Interval
  <2>. QED
    BY <2>1, <2>2
<1>2. s \in Surjection(1 .. Len(s), SeqSet(s))
  BY <1>1 DEF Surjection, SeqSet
<1>3. s \in Injection(1 .. Len(s), SeqSet(s))
  BY <1>1 DEF Injection, IsInjective, SeqSet, Distinct
<1>. QED
  BY <1>1, <1>2, <1>3, FS_Surjection

\* The borrowers that are out are finitely many.
LEMMA OutFinite ==
    ASSUME PoolAssumption PROVE IsFiniteSet(Out) /\ Cardinality(Out) \in Nat
<1>1. Out \in SUBSET Users
  BY DEF Out
<1>. QED
  BY <1>1, FS_Subset, FS_CardinalityType DEF PoolAssumption

\* A borrower comes in, goes out or stays.
LEMMA OutStep ==
    ASSUME PoolAssumption, Types, NEW u \in Users, NEW r \in UserType, Goto(u, r)
    PROVE  /\ user' \in [Users -> UserType]
           /\ user'[u] = r /\ \A v \in Users \ {u} : user'[v] = user[v]
           /\ Cardinality(Out)' = Cardinality(Out)
                - (IF user[u].pc \in {"has", "renew", "send"} THEN 1 ELSE 0)
                + (IF r.pc \in {"has", "renew", "send"} THEN 1 ELSE 0)
<1>1. /\ user' \in [Users -> UserType]
      /\ user'[u] = r /\ \A v \in Users \ {u} : user'[v] = user[v]
  BY DEF Types, Goto
<1>2. Out' = IF r.pc \in {"has", "renew", "send"} THEN Out \cup {u} ELSE Out \ {u}
  BY <1>1 DEF Out
<1>3. u \in Out <=> user[u].pc \in {"has", "renew", "send"}
  BY DEF Out
<1>4. IsFiniteSet(Out) /\ Cardinality(Out) \in Nat
  BY OutFinite
<1>5. Cardinality(Out)' = Cardinality(Out')
  OBVIOUS
<1>6. /\ Cardinality(Out \cup {u}) = IF u \in Out THEN Cardinality(Out) ELSE Cardinality(Out) + 1
      /\ Cardinality(Out \ {u}) = IF u \in Out THEN Cardinality(Out) - 1 ELSE Cardinality(Out)
  BY <1>4, FS_AddElement, FS_RemoveElement
<1>7. Cardinality(Out') = IF r.pc \in {"has", "renew", "send"} THEN Cardinality(Out \cup {u})
                          ELSE Cardinality(Out \ {u})
  BY <1>2
<1>. QED
  BY <1>1, <1>3, <1>4, <1>5, <1>6, <1>7

-----------------------------------------------------------------------------
(***************************************************************************)
(* Steps                                                                   *)
(***************************************************************************)

\* Start has pre-warmed the channel, and nobody has borrowed.
LEMMA InitInv == ASSUME PoolAssumption PROVE Init => Inv
<1> SUFFICES ASSUME Init PROVE Inv
  OBVIOUS
<1>1. PICK n \in 1 .. Size : \E s \in [1 .. n -> Procs] :
          /\ \A i, k \in 1 .. n : i # k => s[i] # s[k]
          /\ slots = s
          /\ live = SeqSet(s)
  BY DEF Init
<1>2. slots \in [1 .. n -> Procs] /\ n \in Nat /\ live = SeqSet(slots)
      /\ \A i, k \in 1 .. n : i # k => slots[i] # slots[k]
  BY <1>1 DEF PoolAssumption
<1>3. slots \in Seq(Procs) /\ Len(slots) = n /\ n <= Size
  BY <1>1, <1>2 DEF PoolAssumption
<1>4. live \subseteq Procs
  BY <1>2 DEF SeqSet
<1>5. Types
  <2>1. user \in [Users -> UserType] /\ reaper \in ReaperType
    BY DEF Init, UserType, ReaperType
  <2>2. collected = <<>> /\ stopCh = FALSE /\ stopper = "no" /\ used = live
    BY DEF Init
  <2>3. collected \in Seq(Procs)
    BY <2>2
  <2>4. stopCh \in BOOLEAN
    BY <2>2, Zenon
  <2>. QED
    BY <1>3, <1>4, <2>1, <2>2, <2>3, <2>4 DEF Types, TypeOK
<1>6. OneHand
  <2>1. Distinct(slots) /\ Distinct(collected) /\ SeqSet(collected) = {}
    BY <1>2 DEF Init, Distinct, SeqSet
  <2>2. \A p : ~InCollected(p) /\ ~InReaper(p) /\ \A u \in Users : ~InUser(u, p)
    BY <2>1 DEF Init, InCollected, InReaper, InUser, Idle
  <2>. QED
    BY <2>1, <2>2 DEF OneHand
<1>7. LiveInHand
  <2>1. SeqSet(collected) = {}
    BY DEF Init, SeqSet
  <2>. QED
    BY <1>2, <2>1 DEF Init, LiveInHand, InSlots, InCollected, InReaper, InUser, Idle
<1>8. Room
  <2>1. Out = {} /\ InReplacement = 0 /\ Len(collected) = 0
    BY DEF Init, Out, InReplacement, Idle
  <2>2. Cardinality(Out) = 0
    BY <2>1, FS_EmptySet
  <2>. QED
    BY <1>3, <2>1, <2>2 DEF Room
<1>9. ReaperRests
  BY DEF Init, ReaperRests, Idle
<1>. QED
  BY <1>5, <1>6, <1>7, <1>8, <1>9 DEF Inv

\* A borrower asks, gives up, or takes a slot from the channel.
LEMMA AcquireInv ==
    ASSUME PoolAssumption, Inv, NEW u \in Users,
           AcquireBegin(u) \/ AcquireSlot(u) \/ AcquireFails(u)
    PROVE  Inv'
<1>0. Types /\ OneHand /\ LiveInHand /\ Room /\ ReaperRests
  BY DEF Inv
<1>1. Len(slots) \in Nat /\ Len(collected) \in Nat /\ InReplacement \in Nat
      /\ Cardinality(Out) \in Nat /\ Size \in Nat
  BY <1>0, OutFinite DEF Types, TypeOK, InReplacement, PoolAssumption
<1>2. CASE AcquireBegin(u) \/ AcquireFails(u)
  <2>1. PICK r \in {Idle, [pc |-> "acquire"]} : Goto(u, r)
    BY <1>2 DEF AcquireBegin, AcquireFails
  <2>2. r \in UserType /\ r.pc \in {"idle", "acquire"} /\ user[u].pc \in {"idle", "acquire"}
    BY <1>2 DEF UserType, Idle, AcquireBegin, AcquireFails
  <2>3. UNCHANGED <<live, used, slots, reaper, collected, stopCh, stopper>>
    BY <1>2 DEF AcquireBegin, AcquireFails, procs
  <2>4. /\ user' \in [Users -> UserType]
        /\ user'[u] = r /\ \A v \in Users \ {u} : user'[v] = user[v]
        /\ Cardinality(Out)' = Cardinality(Out)
    BY <1>0, <1>1, <2>1, <2>2, OutStep
  <2>5. \A p : \A v \in Users : InUser(v, p)' <=> InUser(v, p)
    BY <2>2, <2>4 DEF InUser
  <2>6. Types' /\ Room' /\ ReaperRests'
    BY <1>0, <2>3, <2>4 DEF Types, TypeOK, Room, InReplacement, ReaperRests
  <2>7. OneHand' /\ LiveInHand'
    BY <1>0, <2>3, <2>5 DEF OneHand, LiveInHand, Distinct, InSlots, InCollected, InReaper
  <2>. QED
    BY <2>6, <2>7 DEF Inv
<1>3. CASE AcquireSlot(u)
  <2> DEFINE h == Head(slots)
             r == [pc |-> "has", p |-> Head(slots)]
  <2>1. /\ Goto(u, r) /\ slots' = Tail(slots) /\ slots # <<>> /\ user[u].pc = "acquire"
        /\ UNCHANGED <<live, used, reaper, collected, stopCh, stopper>>
    BY <1>3 DEF AcquireSlot, procs
  <2>2. /\ h \in Procs /\ slots' \in Seq(Procs) /\ Len(slots') = Len(slots) - 1
        /\ Distinct(slots') /\ InSlots(h)
        /\ \A p : InSlots(p)' <=> InSlots(p) /\ p # h
    BY <1>0, <2>1, TailSet DEF Types, TypeOK, OneHand, InSlots
  <2>3. r \in UserType /\ r.pc = "has" /\ r.p = h
    BY <2>2 DEF UserType
  <2> HIDE DEF r
  <2>4. /\ user' \in [Users -> UserType]
        /\ user'[u] = r /\ \A v \in Users \ {u} : user'[v] = user[v]
        /\ Cardinality(Out)' = Cardinality(Out) + 1
    BY <1>0, <1>1, <2>1, <2>3, OutStep
  <2>5. \A p : \A v \in Users : InUser(v, p)' <=> IF v = u THEN p = h ELSE InUser(v, p)
    BY <2>3, <2>4 DEF InUser
  <2>6. \A p : ~InUser(u, p)
    BY <2>1 DEF InUser
  <2>7. Types' /\ ReaperRests'
    BY <1>0, <1>1, <2>1, <2>2, <2>4 DEF Types, TypeOK, ReaperRests
  <2>8. Room'
    BY <1>0, <1>1, <2>1, <2>2, <2>4 DEF Room, InReplacement
  <2>9. \A p : (InCollected(p)' <=> InCollected(p)) /\ (InReaper(p)' <=> InReaper(p))
    BY <2>1 DEF InCollected, InReaper
  <2>10. OneHand'
    BY <1>0, <2>1, <2>2, <2>5, <2>6, <2>9 DEF OneHand, Distinct
  <2>11. LiveInHand'
    BY <1>0, <2>1, <2>2, <2>5, <2>6, <2>9 DEF LiveInHand
  <2>. QED
    BY <2>7, <2>8, <2>10, <2>11 DEF Inv
<1>. QED
  BY <1>2, <1>3

\* A borrower brings its slot back: the process is killed, replaced and sent, and
\* its place in the channel is kept until then.
LEMMA ReleaseInv ==
    ASSUME PoolAssumption, Inv, NEW u \in Users, ReleaseKill(u) \/ ReleaseRenew(u) \/ ReleaseSend(u)
    PROVE  Inv'
<1>0. Types /\ OneHand /\ LiveInHand /\ Room /\ ReaperRests
  BY DEF Inv
<1>1. Len(slots) \in Nat /\ Len(collected) \in Nat /\ InReplacement \in Nat
      /\ Cardinality(Out) \in Nat /\ Size \in Nat
  BY <1>0, OutFinite DEF Types, TypeOK, InReplacement, PoolAssumption
<1>2. /\ UNCHANGED <<reaper, collected, stopCh, stopper>>
      /\ user[u].pc \in {"has", "renew", "send"} /\ user[u] \in UserType
  BY <1>0 DEF ReleaseKill, ReleaseRenew, ReleaseSend, Types
<1>3. \A p : (InCollected(p)' <=> InCollected(p)) /\ (InReaper(p)' <=> InReaper(p))
  BY <1>2 DEF InCollected, InReaper
<1>4. ReaperRests' /\ InReplacement' = InReplacement
  BY <1>0, <1>2 DEF ReaperRests, InReplacement
<1>5. Idle \in UserType /\ Idle.pc = "idle"
  BY DEF Idle, UserType
<1>6. CASE ReleaseKill(u)
  <2> DEFINE q == user[u].p
             r == [pc |-> "renew"]
  <2>1. live' = live \ {q} /\ Goto(u, r) /\ UNCHANGED <<used, slots>> /\ InUser(u, q)
    BY <1>6 DEF ReleaseKill, Kill, InUser
  <2>2. r \in UserType /\ r.pc = "renew"
    BY DEF UserType
  <2> HIDE DEF r
  <2>3. /\ user' \in [Users -> UserType]
        /\ user'[u] = r /\ \A v \in Users \ {u} : user'[v] = user[v]
        /\ Cardinality(Out)' = Cardinality(Out)
    BY <1>0, <1>1, <1>2, <2>1, <2>2, OutStep
  <2>4. \A p : (InSlots(p)' <=> InSlots(p))
               /\ \A v \in Users : InUser(v, p)' <=> v # u /\ InUser(v, p)
    BY <2>1, <2>2, <2>3 DEF InSlots, InUser
  <2>5. Types' /\ Room'
    BY <1>0, <1>2, <1>4, <2>1, <2>3 DEF Types, TypeOK, Room
  <2>6. OneHand'
    BY <1>0, <1>2, <1>3, <2>1, <2>4 DEF OneHand, Distinct
  <2>7. \A p : InUser(u, p) => p = q
    BY DEF InUser
  <2> HIDE DEF q
  <2>8. LiveInHand'
    BY <1>0, <1>3, <2>1, <2>4, <2>7 DEF LiveInHand, OneHand
  <2>. QED
    BY <1>4, <2>5, <2>6, <2>8 DEF Inv
<1>7. CASE ReleaseRenew(u)
  <2>0. UNCHANGED slots /\ user[u].pc = "renew"
    BY <1>7 DEF ReleaseRenew
  <2>1. \A p : (InSlots(p)' <=> InSlots(p)) /\ ~InUser(u, p)
    BY <2>0 DEF InSlots, InUser
  <2>2. CASE Goto(u, Idle) /\ UNCHANGED procs
    <3>1. /\ user' \in [Users -> UserType]
          /\ user'[u] = Idle /\ \A v \in Users \ {u} : user'[v] = user[v]
          /\ Cardinality(Out)' = Cardinality(Out) - 1
      BY <1>0, <1>1, <1>2, <1>5, <2>2, OutStep
    <3>2. \A p : \A v \in Users : InUser(v, p)' <=> InUser(v, p)
      BY <1>5, <2>1, <3>1 DEF InUser
    <3>3. Types' /\ Room'
      BY <1>0, <1>1, <1>2, <1>4, <2>0, <2>2, <3>1 DEF Types, TypeOK, Room, procs
    <3>4. OneHand' /\ LiveInHand'
      BY <1>0, <1>2, <1>3, <2>0, <2>1, <2>2, <3>2 DEF OneHand, LiveInHand, Distinct, procs
    <3>. QED
      BY <1>4, <3>3, <3>4 DEF Inv
  <2>3. ASSUME NEW q \in Procs, New(q), Goto(u, [pc |-> "send", p |-> q]) PROVE Inv'
    <3> DEFINE r == [pc |-> "send", p |-> q]
    <3>1. r \in UserType /\ r.pc = "send" /\ r.p = q /\ Goto(u, r)
      BY <2>3 DEF UserType
    <3> HIDE DEF r
    <3>2. q \notin used /\ used' = used \cup {q} /\ live' = live \cup {q} /\ q \notin live
      BY <1>0, <2>3 DEF New, Types, TypeOK
    <3>3. /\ user' \in [Users -> UserType]
          /\ user'[u] = r /\ \A v \in Users \ {u} : user'[v] = user[v]
          /\ Cardinality(Out)' = Cardinality(Out)
      BY <1>0, <1>1, <1>2, <3>1, OutStep
    <3>4. \A p : \A v \in Users : InUser(v, p)' <=> IF v = u THEN p = q ELSE InUser(v, p)
      BY <3>1, <3>3 DEF InUser
    <3>5. Types' /\ Room'
      BY <1>0, <1>2, <1>4, <2>0, <3>2, <3>3 DEF Types, TypeOK, Room
    <3>6. ~InSlots(q) /\ ~InCollected(q) /\ ~InReaper(q) /\ \A v \in Users : ~InUser(v, q)
      BY <1>0, <3>2 DEF LiveInHand
    <3>7. OneHand'
      BY <1>0, <1>2, <1>3, <2>0, <2>1, <3>4, <3>6 DEF OneHand, Distinct
    <3>8. LiveInHand'
      BY <1>0, <1>3, <2>1, <3>2, <3>4 DEF LiveInHand
    <3>. QED
      BY <1>4, <3>5, <3>7, <3>8 DEF Inv
  <2>. QED
    BY <1>7, <2>2, <2>3 DEF ReleaseRenew
<1>8. CASE ReleaseSend(u)
  <2> DEFINE q == user[u].p
  <2>0. InUser(u, q) /\ Goto(u, Idle) /\ q \in Procs /\ ~InSlots(q)
    BY <1>0, <1>2, <1>8 DEF ReleaseSend, InUser, UserType, Idle, OneHand
  <2>1. /\ user' \in [Users -> UserType]
        /\ user'[u] = Idle /\ \A v \in Users \ {u} : user'[v] = user[v]
        /\ Cardinality(Out)' = Cardinality(Out) - 1
    BY <1>0, <1>1, <1>2, <1>5, <2>0, OutStep
  <2>2. \A p : \A v \in Users : InUser(v, p)' <=> v # u /\ InUser(v, p)
    BY <1>5, <2>1 DEF InUser
  <2>3. \A p : InUser(u, p) => p = q
    BY DEF InUser
  <2>4. CASE Len(slots) < Size
    <3>1. slots' = Append(slots, q) /\ UNCHANGED <<live, used>>
      BY <1>8, <2>4 DEF ReleaseSend, procs
    <3> HIDE DEF q
    <3>2. /\ slots' \in Seq(Procs) /\ Len(slots') = Len(slots) + 1 /\ Distinct(slots')
          /\ \A p : InSlots(p)' <=> InSlots(p) \/ p = q
      BY <1>0, <2>0, <3>1, AppendSet DEF Types, TypeOK, OneHand, InSlots
    <3>3. Types' /\ Room'
      BY <1>0, <1>1, <1>2, <1>4, <2>1, <2>4, <3>1, <3>2 DEF Types, TypeOK, Room
    <3>4. OneHand'
      BY <1>0, <1>2, <1>3, <2>0, <2>2, <3>2 DEF OneHand, Distinct
    <3>5. LiveInHand'
      BY <1>0, <1>3, <2>0, <2>2, <2>3, <3>1, <3>2 DEF LiveInHand
    <3>. QED
      BY <1>4, <3>3, <3>4, <3>5 DEF Inv
  <2>5. CASE ~(Len(slots) < Size)
    <3>1. live' = live \ {q} /\ UNCHANGED <<used, slots>>
      BY <1>8, <2>5 DEF ReleaseSend, Kill
    <3> HIDE DEF q
    <3>2. \A p : InSlots(p)' <=> InSlots(p)
      BY <3>1 DEF InSlots
    <3>3. Types' /\ Room'
      BY <1>0, <1>1, <1>2, <1>4, <2>1, <3>1 DEF Types, TypeOK, Room
    <3>4. OneHand'
      BY <1>0, <1>2, <1>3, <2>2, <3>1, <3>2 DEF OneHand, Distinct
    <3>5. LiveInHand'
      BY <1>0, <1>3, <2>0, <2>2, <2>3, <3>1, <3>2 DEF LiveInHand, OneHand
    <3>. QED
      BY <1>4, <3>3, <3>4, <3>5 DEF Inv
  <2>. QED
    BY <2>4, <2>5
<1>. QED
  BY <1>6, <1>7, <1>8

\* The reaper empties the channel, replaces what it has collected, and rests.
LEMMA ReaperInv == ASSUME PoolAssumption, Inv, ReaperStep PROVE Inv'
<1>0. Types /\ OneHand /\ LiveInHand /\ Room /\ ReaperRests
  BY DEF Inv
<1>1. Len(slots) \in Nat /\ Len(collected) \in Nat /\ InReplacement \in Nat
      /\ Cardinality(Out) \in Nat /\ Size \in Nat
  BY <1>0, OutFinite DEF Types, TypeOK, InReplacement, PoolAssumption
<1>2. UNCHANGED <<user, stopCh, stopper>> /\ reaper.pc # "exited"
  BY DEF ReaperStep, ReaperTick, ReaperCollect, ReaperKill, ReaperRenew, ReaperSend, ReaperDone,
      ReaperExit, Idle
<1>3. /\ \A p : \A u \in Users : InUser(u, p)' <=> InUser(u, p)
      /\ Cardinality(Out)' = Cardinality(Out)
  BY <1>2 DEF InUser, Out
<1>4. stopper' \notin {"drain", "done"}
  BY <1>0, <1>2 DEF ReaperRests
<1>5. CASE ReaperTick \/ ReaperDone \/ ReaperExit
  <2>1. PICK r \in {Idle, [pc |-> "collect"], [pc |-> "exited"]} : reaper' = r
    BY <1>5 DEF ReaperTick, ReaperDone, ReaperExit
  <2>2. /\ r \in ReaperType /\ r.pc \in {"idle", "collect", "exited"}
        /\ reaper.pc \in {"idle", "check"} /\ collected = <<>>
        /\ UNCHANGED <<live, used, slots, collected>>
    BY <1>0, <1>5 DEF ReaperTick, ReaperDone, ReaperExit, ReaperType, Idle, procs, ReaperRests
  <2>3. Types' /\ ReaperRests'
    BY <1>0, <1>2, <1>4, <2>1, <2>2 DEF Types, TypeOK, ReaperRests
  <2>4. Room'
    BY <1>0, <1>3, <2>1, <2>2 DEF Room, InReplacement
  <2>5. \A p : /\ InSlots(p)' <=> InSlots(p)
               /\ InCollected(p)' <=> InCollected(p)
               /\ InReaper(p)' <=> InReaper(p)
    BY <2>1, <2>2 DEF InSlots, InCollected, InReaper
  <2>6. OneHand' /\ LiveInHand'
    BY <1>0, <1>3, <2>2, <2>5, ZenonT(60) DEF OneHand, LiveInHand, Distinct
  <2>. QED
    BY <2>3, <2>4, <2>6 DEF Inv
<1>6. CASE ReaperCollect
  <2>1. CASE slots # <<>>
    <3> DEFINE h == Head(slots)
    <3>1. /\ collected' = Append(collected, h) /\ slots' = Tail(slots) /\ reaper.pc = "collect"
          /\ UNCHANGED <<live, used, reaper>>
      BY <1>6, <2>1 DEF ReaperCollect, procs
    <3>2. /\ h \in Procs /\ slots' \in Seq(Procs) /\ Len(slots') = Len(slots) - 1
          /\ Distinct(slots') /\ InSlots(h)
          /\ \A p : InSlots(p)' <=> InSlots(p) /\ p # h
      BY <1>0, <2>1, <3>1, TailSet DEF Types, TypeOK, OneHand, InSlots
    <3>3. ~InCollected(h)
      BY <1>0, <3>2 DEF OneHand
    <3> HIDE DEF h
    <3>4. /\ collected' \in Seq(Procs) /\ Len(collected') = Len(collected) + 1
          /\ Distinct(collected')
          /\ \A p : InCollected(p)' <=> InCollected(p) \/ p = h
      BY <1>0, <3>1, <3>2, <3>3, AppendSet DEF Types, TypeOK, OneHand, InCollected
    <3>5. Types' /\ ReaperRests'
      BY <1>0, <1>1, <1>2, <1>4, <3>1, <3>2, <3>4 DEF Types, TypeOK, ReaperRests
    <3>6. Room'
      BY <1>0, <1>1, <1>3, <3>1, <3>2, <3>4 DEF Room, InReplacement
    <3>7. \A p : ~InReaper(p) /\ ~InReaper(p)'
      BY <3>1 DEF InReaper
    <3>8. OneHand'
      BY <1>0, <1>3, <3>2, <3>3, <3>4, <3>7 DEF OneHand
    <3>9. LiveInHand'
      BY <1>0, <1>3, <3>1, <3>2, <3>4, <3>7 DEF LiveInHand
    <3>. QED
      BY <3>5, <3>6, <3>8, <3>9 DEF Inv
  <2>2. CASE ~(slots # <<>>)
    <3>1. /\ reaper' = [pc |-> "check"] /\ reaper.pc = "collect"
          /\ UNCHANGED <<live, used, slots, collected>>
      BY <1>6, <2>2 DEF ReaperCollect, procs
    <3>2. Types' /\ ReaperRests'
      BY <1>0, <1>2, <1>4, <3>1 DEF Types, TypeOK, ReaperType, ReaperRests
    <3>3. Room'
      BY <1>0, <1>3, <3>1 DEF Room, InReplacement
    <3>4. \A p : /\ InSlots(p)' <=> InSlots(p)
                 /\ InCollected(p)' <=> InCollected(p)
                 /\ InReaper(p)' <=> InReaper(p)
      BY <3>1 DEF InSlots, InCollected, InReaper
    <3>5. OneHand' /\ LiveInHand'
      BY <1>0, <1>3, <3>1, <3>4 DEF OneHand, LiveInHand, Distinct
    <3>. QED
      BY <3>2, <3>3, <3>5 DEF Inv
  <2>. QED
    BY <2>1, <2>2
<1>7. CASE ReaperKill
  <2> DEFINE h == Head(collected)
  <2>1. /\ live' = live \ {h} /\ collected' = Tail(collected) /\ collected # <<>>
        /\ reaper.pc = "check" /\ reaper' = [pc |-> "renew"] /\ UNCHANGED <<used, slots>>
    BY <1>7 DEF ReaperKill, Kill
  <2>2. /\ collected' \in Seq(Procs) /\ Len(collected') = Len(collected) - 1
        /\ Distinct(collected') /\ InCollected(h)
        /\ \A p : InCollected(p)' <=> InCollected(p) /\ p # h
    BY <1>0, <2>1, TailSet DEF Types, TypeOK, OneHand, InCollected
  <2> HIDE DEF h
  <2>3. Types' /\ ReaperRests'
    BY <1>0, <1>2, <1>4, <2>1, <2>2 DEF Types, TypeOK, ReaperType, ReaperRests
  <2>4. Room'
    BY <1>0, <1>1, <1>3, <2>1, <2>2 DEF Room, InReplacement
  <2>5. \A p : (InSlots(p)' <=> InSlots(p)) /\ ~InReaper(p) /\ ~InReaper(p)'
    BY <2>1 DEF InSlots, InReaper
  <2>6. OneHand'
    BY <1>0, <1>3, <2>1, <2>2, <2>5 DEF OneHand, Distinct
  <2>7. LiveInHand'
    BY <1>0, <1>3, <2>1, <2>2, <2>5 DEF LiveInHand, OneHand
  <2>. QED
    BY <2>3, <2>4, <2>6, <2>7 DEF Inv
<1>8. CASE ReaperRenew
  <2>0. UNCHANGED <<slots, collected>> /\ reaper.pc = "renew"
    BY <1>8 DEF ReaperRenew
  <2>1. \A p : (InSlots(p)' <=> InSlots(p)) /\ (InCollected(p)' <=> InCollected(p)) /\ ~InReaper(p)
    BY <2>0 DEF InSlots, InCollected, InReaper
  <2>2. CASE reaper' = [pc |-> "check"] /\ UNCHANGED procs
    <3>1. Types' /\ ReaperRests'
      BY <1>0, <1>2, <1>4, <2>0, <2>2 DEF Types, TypeOK, ReaperType, ReaperRests, procs
    <3>2. Room'
      BY <1>0, <1>1, <1>3, <2>0, <2>2 DEF Room, InReplacement
    <3>3. \A p : ~InReaper(p)'
      BY <2>2 DEF InReaper
    <3>4. OneHand' /\ LiveInHand'
      BY <1>0, <1>3, <2>0, <2>1, <2>2, <3>3 DEF OneHand, LiveInHand, Distinct, procs
    <3>. QED
      BY <3>1, <3>2, <3>4 DEF Inv
  <2>3. ASSUME NEW q \in Procs, New(q), reaper' = [pc |-> "send", p |-> q] PROVE Inv'
    <3>1. q \notin used /\ used' = used \cup {q} /\ live' = live \cup {q} /\ q \notin live
      BY <1>0, <2>3 DEF New, Types, TypeOK
    <3>2. Types' /\ ReaperRests'
      BY <1>0, <1>2, <1>4, <2>0, <2>3, <3>1 DEF Types, TypeOK, ReaperType, ReaperRests
    <3>3. Room'
      BY <1>0, <1>1, <1>3, <2>0, <2>3 DEF Room, InReplacement
    <3>4. \A p : InReaper(p)' <=> p = q
      BY <2>3 DEF InReaper
    <3>5. ~InSlots(q) /\ ~InCollected(q) /\ \A v \in Users : ~InUser(v, q)
      BY <1>0, <3>1 DEF LiveInHand
    <3>6. OneHand'
      BY <1>0, <1>3, <2>0, <2>1, <3>4, <3>5 DEF OneHand, Distinct
    <3>7. LiveInHand'
      BY <1>0, <1>3, <2>1, <3>1, <3>4 DEF LiveInHand
    <3>. QED
      BY <3>2, <3>3, <3>6, <3>7 DEF Inv
  <2>. QED
    BY <1>8, <2>2, <2>3 DEF ReaperRenew
<1>9. CASE ReaperSend
  <2> DEFINE q == reaper.p
  <2>0. reaper.pc = "send" /\ reaper' = [pc |-> "check"] /\ UNCHANGED collected
    BY <1>9 DEF ReaperSend
  <2>1. InReaper(q) /\ q \in Procs /\ \A p : InReaper(p) => p = q
    BY <1>0, <2>0 DEF InReaper, Types, ReaperType, Idle
  <2>2. \A p : (InCollected(p)' <=> InCollected(p)) /\ ~InReaper(p)'
    BY <2>0 DEF InCollected, InReaper
  <2>3. ~InSlots(q) /\ ~InCollected(q) /\ \A u \in Users : ~InUser(u, q)
    BY <1>0, <2>1 DEF OneHand
  <2>4. \/ Len(slots) < Size /\ slots' = Append(slots, q) /\ UNCHANGED <<live, used>>
        \/ live' = live \ {q} /\ UNCHANGED <<used, slots>>
    BY <1>9 DEF ReaperSend, Kill, procs
  <2> HIDE DEF q
  <2>5. CASE Len(slots) < Size /\ slots' = Append(slots, q) /\ UNCHANGED <<live, used>>
    <3>1. /\ slots' \in Seq(Procs) /\ Len(slots') = Len(slots) + 1 /\ Distinct(slots')
          /\ \A p : InSlots(p)' <=> InSlots(p) \/ p = q
      BY <1>0, <2>1, <2>3, <2>5, AppendSet DEF Types, TypeOK, OneHand, InSlots
    <3>2. Types' /\ ReaperRests'
      BY <1>0, <1>1, <1>2, <1>4, <2>0, <2>5, <3>1 DEF Types, TypeOK, ReaperType, ReaperRests
    <3>3. Room'
      BY <1>0, <1>1, <1>3, <2>0, <3>1 DEF Room, InReplacement
    <3>4. OneHand'
      BY <1>0, <1>3, <2>0, <2>2, <2>3, <3>1 DEF OneHand, Distinct
    <3>5. LiveInHand'
      BY <1>0, <1>3, <2>1, <2>2, <2>5, <3>1 DEF LiveInHand
    <3>. QED
      BY <3>2, <3>3, <3>4, <3>5 DEF Inv
  <2>6. CASE live' = live \ {q} /\ UNCHANGED <<used, slots>>
    <3>1. \A p : InSlots(p)' <=> InSlots(p)
      BY <2>6 DEF InSlots
    <3>2. Types' /\ ReaperRests'
      BY <1>0, <1>2, <1>4, <2>0, <2>6 DEF Types, TypeOK, ReaperType, ReaperRests
    <3>3. Room'
      BY <1>0, <1>1, <1>3, <2>0, <2>6 DEF Room, InReplacement
    <3>4. OneHand'
      BY <1>0, <1>3, <2>0, <2>2, <2>6, <3>1 DEF OneHand, Distinct
    <3>5. LiveInHand'
      BY <1>0, <1>3, <2>1, <2>2, <2>3, <2>6, <3>1 DEF LiveInHand
    <3>. QED
      BY <3>2, <3>3, <3>4, <3>5 DEF Inv
  <2>. QED
    BY <2>4, <2>5, <2>6
<1>. QED
  BY <1>5, <1>6, <1>7, <1>8, <1>9 DEF ReaperStep

\* Stop closes its channel, waits for the reaper, and kills what is in the channel.
LEMMA StopInv ==
    ASSUME PoolAssumption, Inv, StopClose \/ StopWait \/ StopDrain \/ UNCHANGED vars PROVE Inv'
<1>0. Types /\ OneHand /\ LiveInHand /\ Room /\ ReaperRests
  BY DEF Inv
<1>1. Len(slots) \in Nat /\ Len(collected) \in Nat /\ InReplacement \in Nat
      /\ Cardinality(Out) \in Nat /\ Size \in Nat
  BY <1>0, OutFinite DEF Types, TypeOK, InReplacement, PoolAssumption
<1>2. /\ UNCHANGED <<user, reaper, collected>>
      /\ stopCh' \in BOOLEAN /\ stopper' \in {"no", "wait", "drain", "done"}
      /\ ReaperRests'
  BY <1>0 DEF StopClose, StopWait, StopDrain, vars, Types, TypeOK, ReaperRests
<1>3. /\ \A p : /\ \A u \in Users : InUser(u, p)' <=> InUser(u, p)
                /\ InCollected(p)' <=> InCollected(p)
                /\ InReaper(p)' <=> InReaper(p)
      /\ Cardinality(Out)' = Cardinality(Out) /\ InReplacement' = InReplacement
  BY <1>2 DEF InUser, InCollected, InReaper, Out, InReplacement
<1>4. CASE UNCHANGED <<live, used, slots>>
  <2>1. \A p : InSlots(p)' <=> InSlots(p)
    BY <1>4 DEF InSlots
  <2>2. Types' /\ Room'
    BY <1>0, <1>2, <1>3, <1>4 DEF Types, TypeOK, Room
  <2>3. OneHand' /\ LiveInHand'
    BY <1>0, <1>2, <1>3, <1>4, <2>1 DEF OneHand, LiveInHand, Distinct
  <2>. QED
    BY <1>2, <2>2, <2>3 DEF Inv
<1>5. CASE StopDrain /\ slots # <<>>
  <2> DEFINE h == Head(slots)
  <2>1. live' = live \ {h} /\ slots' = Tail(slots) /\ UNCHANGED used
    BY <1>5 DEF StopDrain, Kill
  <2>2. /\ slots' \in Seq(Procs) /\ Len(slots') = Len(slots) - 1
        /\ Distinct(slots') /\ InSlots(h)
        /\ \A p : InSlots(p)' <=> InSlots(p) /\ p # h
    BY <1>0, <1>5, <2>1, TailSet DEF Types, TypeOK, OneHand, InSlots
  <2> HIDE DEF h
  <2>3. Types' /\ Room'
    BY <1>0, <1>1, <1>2, <1>3, <2>1, <2>2 DEF Types, TypeOK, Room
  <2>4. OneHand'
    BY <1>0, <1>2, <1>3, <2>2 DEF OneHand, Distinct
  <2>5. LiveInHand'
    BY <1>0, <1>3, <2>1, <2>2 DEF LiveInHand, OneHand
  <2>. QED
    BY <1>2, <2>3, <2>4, <2>5 DEF Inv
<1>. QED
  BY <1>4, <1>5 DEF StopClose, StopWait, StopDrain, vars, procs

\* Every step keeps the invariant.
LEMMA NextInv == ASSUME PoolAssumption PROVE Inv /\ [Next]_vars => Inv'
BY AcquireInv, ReleaseInv, ReaperInv, StopInv DEF Next, UserStep

\* The invariant holds throughout.
LEMMA AlwaysInv == ASSUME PoolAssumption PROVE Spec => []Inv
BY InitInv, NextInv, PTL DEF Spec

-----------------------------------------------------------------------------
(***************************************************************************)
(* What follows                                                            *)
(***************************************************************************)

\* The borrowers that hold a process are as many as the processes they hold.
LEMMA HeldCardinality ==
    ASSUME PoolAssumption, Inv
    PROVE  LET H == {u \in Users : Held(u) # {}}
               P == UNION {Held(u) : u \in Users}
           IN  /\ IsFiniteSet(P) /\ Cardinality(P) = Cardinality(H)
               /\ H \subseteq Out /\ Cardinality(H) <= Cardinality(Out)
               /\ \A p : p \in P <=> \E u \in Users : InUser(u, p)
<1> DEFINE H == {u \in Users : Held(u) # {}}
           P == UNION {Held(u) : u \in Users}
           f == [u \in H |-> user[u].p]
<1>1. \A u \in Users : Held(u) = {p \in {user[u].p} : InUser(u, p)}
  BY DEF Held, InUser
<1>2. \A u \in Users : u \in H <=> InUser(u, user[u].p)
  BY <1>1
<1>3. \A p : p \in P <=> \E u \in Users : InUser(u, p)
  BY <1>1 DEF InUser
<1>4. H \in SUBSET Users /\ H \in SUBSET Out
  BY <1>2 DEF InUser, Out
<1>5. IsFiniteSet(H) /\ Cardinality(H) <= Cardinality(Out)
  BY <1>4, OutFinite, FS_Subset
<1>6. f \in Surjection(H, P)
  BY <1>2, <1>3 DEF Surjection, InUser
<1>7. f \in Injection(H, P)
  <2>1. f \in [H -> P]
    BY <1>6 DEF Surjection
  <2>2. \A u, v \in H : f[u] = f[v] => u = v
    BY <1>2, <1>4 DEF Inv, OneHand
  <2>. QED
    BY <2>1, <2>2 DEF Injection, IsInjective
<1> HIDE DEF H, P, f
<1>8. IsFiniteSet(P) /\ Cardinality(P) = Cardinality(H)
  BY <1>5, <1>6, <1>7, FS_Surjection
<1>. QED
  BY <1>3, <1>4, <1>5, <1>8 DEF H, P

\* The union of two disjoint finite sets.
LEMMA DisjointUnion ==
    ASSUME NEW S, IsFiniteSet(S), NEW T, IsFiniteSet(T), \A x : ~(x \in S /\ x \in T)
    PROVE  IsFiniteSet(S \cup T) /\ Cardinality(S \cup T) = Cardinality(S) + Cardinality(T)
<1>1. S \cap T = {}
  OBVIOUS
<1>2. Cardinality(S) \in Nat /\ Cardinality(T) \in Nat /\ Cardinality(S \cap T) = 0
  BY <1>1, FS_CardinalityType, FS_EmptySet
<1>3. /\ IsFiniteSet(S \cup T)
      /\ Cardinality(S \cup T) = Cardinality(S) + Cardinality(T) - Cardinality(S \cap T)
  BY FS_Union
<1>. QED
  BY <1>2, <1>3

\* The invariant says at least what the run checks.
LEMMA InvImplies == ASSUME PoolAssumption, Inv PROVE TypeOK /\ ShellsAccountedFor
<1> DEFINE A == SeqSet(slots)
           B == SeqSet(collected)
           R == IF reaper.pc = "send" THEN {reaper.p} ELSE {}
           H == {u \in Users : Held(u) # {}}
           P == UNION {Held(u) : u \in Users}
           n == IF reaper.pc = "send" THEN 1 ELSE 0
<1>0. /\ Len(slots) \in Nat /\ Len(collected) \in Nat /\ Cardinality(Out) \in Nat /\ Size \in Nat
      /\ slots \in Seq(Procs) /\ collected \in Seq(Procs)
  BY OutFinite DEF Inv, Types, TypeOK, PoolAssumption
<1>1. /\ IsFiniteSet(A) /\ Cardinality(A) = Len(slots)
      /\ IsFiniteSet(B) /\ Cardinality(B) = Len(collected)
  BY <1>0, DistinctCardinality DEF Inv, OneHand
<1>2. IsFiniteSet(R) /\ Cardinality(R) = n /\ \A p : p \in R <=> InReaper(p)
  BY FS_EmptySet, FS_Singleton DEF InReaper
<1>3. /\ IsFiniteSet(P) /\ Cardinality(P) = Cardinality(H)
      /\ H \subseteq Out /\ Cardinality(H) <= Cardinality(Out)
      /\ \A p : p \in P <=> \E u \in Users : InUser(u, p)
  BY HeldCardinality
<1>4. \A p : (p \in A <=> InSlots(p)) /\ (p \in B <=> InCollected(p))
  BY DEF InSlots, InCollected
<1>5. ReaperHeld = B \cup R
  BY DEF ReaperHeld
<1>6. n \in Nat /\ n <= InReplacement /\ InReplacement \in Nat
  BY DEF InReplacement
<1>7. Cardinality(H) \in Nat
  BY <1>3, FS_CardinalityType
<1> HIDE DEF A, B, R, H, P, n
<1>8. live = A \cup (B \cup R) \cup P
  BY <1>2, <1>3, <1>4 DEF Inv, LiveInHand
<1>9. IsFiniteSet(B \cup R) /\ Cardinality(B \cup R) = Len(collected) + n
  BY <1>1, <1>2, <1>4, DisjointUnion DEF Inv, OneHand
<1>10. IsFiniteSet(A \cup (B \cup R))
       /\ Cardinality(A \cup (B \cup R)) = Len(slots) + Len(collected) + n
  <2>1. \A x : ~(x \in A /\ x \in B \cup R)
    BY <1>2, <1>4 DEF Inv, OneHand
  <2>2. /\ IsFiniteSet(A \cup (B \cup R))
        /\ Cardinality(A \cup (B \cup R)) = Cardinality(A) + Cardinality(B \cup R)
    BY <1>1, <1>9, <2>1, DisjointUnion
  <2>. QED
    BY <1>0, <1>1, <1>6, <1>9, <2>2
<1>11. Cardinality(live) = Len(slots) + Len(collected) + n + Cardinality(H)
  <2>1. \A x : ~(x \in A \cup (B \cup R) /\ x \in P)
    BY <1>2, <1>3, <1>4 DEF Inv, OneHand
  <2>2. Cardinality(A \cup (B \cup R) \cup P) = Cardinality(A \cup (B \cup R)) + Cardinality(P)
    BY <1>3, <1>10, <2>1, DisjointUnion
  <2>. QED
    BY <1>3, <1>8, <1>10, <2>2
<1>12. SlotsHeldOnce
  BY <1>0, <1>5, <1>6, <1>7, <1>8, <1>9, <1>11 DEF SlotsHeldOnce, A, H, P
<1>13. RoomForAll
  <2>1. Cardinality(live) <= Size
    BY <1>0, <1>3, <1>6, <1>7, <1>11 DEF Inv, Room
  <2>2. reaper.pc = "send" => Len(slots) < Size
    BY <1>0 DEF Inv, Room, InReplacement
  <2>3. ASSUME NEW u \in Users, user[u].pc = "send" PROVE Len(slots) < Size
    <3>1. Out # {} /\ IsFiniteSet(Out)
      BY <2>3, OutFinite DEF Out
    <3>2. Cardinality(Out) # 0
      BY <3>1, FS_EmptySet
    <3>. QED
      BY <1>0, <1>6, <3>2 DEF Inv, Room
  <2>. QED
    BY <2>1, <2>2, <2>3 DEF RoomForAll
<1>14. DrainSeesAll
  <2> SUFFICES ASSUME stopper \in {"drain", "done"} PROVE ReaperHeld = {}
    BY DEF DrainSeesAll
  <2>1. collected = <<>> /\ reaper.pc = "exited"
    BY DEF Inv, ReaperRests
  <2>. QED
    BY <2>1 DEF ReaperHeld, SeqSet
<1>. QED
  BY <1>12, <1>13, <1>14 DEF ShellsAccountedFor, Inv, Types

\* Every shell alive is in exactly one pair of hands, what is lent out is alive, the
\* channel has room for whatever Release or the reaper sends, and Stop drains when
\* the reaper holds nothing: for every pool size and any number of borrowers.
THEOREM ShellsAreAccountedFor ==
    ASSUME PoolAssumption PROVE Spec => [](TypeOK /\ ShellsAccountedFor)
<1>1. Inv => TypeOK /\ ShellsAccountedFor
  BY InvImplies
<1>. QED
  BY <1>1, AlwaysInv, PTL
=============================================================================
