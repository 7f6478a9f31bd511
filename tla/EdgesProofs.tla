---------------------------- MODULE EdgesProofs -----------------------------
(***************************************************************************)
(* Proofs about the components of MCEdges, each by an inductive invariant  *)
(* of its own, and then about them together: the types, the rate limits    *)
(* and quotas, the pairing, the binary kept through updates, the clients   *)
(* that have caught up, the caches that expire and the relay's sessions.   *)
(***************************************************************************)
EXTENDS MCEdges, FiniteSetTheorems, SequenceTheorems, TLAPS

\* Cardinality, as the modules of the components know it.
LEMMA SameCardinality ==
    /\ \A S : Pair!Cardinality(S) = Cardinality(S)
    /\ \A S : Ipc!Cardinality(S) = Cardinality(S)
    /\ \A S : Limits!Cardinality(S) = Cardinality(S)
    /\ \A S : Gates!Cardinality(S) = Cardinality(S)
    /\ \A S : Keys!Cardinality(S) = Cardinality(S)
BY DEF Cardinality, Pair!Cardinality, Ipc!Cardinality, Limits!Cardinality, Gates!Cardinality, Keys!Cardinality

-----------------------------------------------------------------------------
(***************************************************************************)
(* Pairing                                                                 *)
(***************************************************************************)

PinCall ==
    [pc : {"idle", "draw"}]
        \cup [pc : {"insert"}, pin : Pins, expires : Pair!Times]
        \cup [pc : {"consume"}, pin : Pins, time : 0 .. MaxPinTime]
        \cup [pc : {"issue"}, pin : Pins]

PairTypes ==
    /\ pinTime \in 0 .. MaxPinTime
    /\ pins \in [Pins -> [expires : Pair!Times, used : BOOLEAN, row : BOOLEAN]]
    /\ devices \in [Devices -> {"absent", "active", "revoked"}]
    /\ pairCall \in [PairConns -> PinCall]
    /\ issued \in [Pins -> 0 .. MaxIssued]
    /\ paired \in [Pins -> Nat]

Present == {d \in Devices : devices[d] # "absent"}

\* A PIN has paired no more devices than there are.
DevicesPaired == \A p \in Pins : paired[p] <= Cardinality(Present)

\* What a PIN has paired, or is about to, is at most what it was given out for, and
\* less while its row can still be consumed.
Claims(p) == paired[p] + Cardinality(Pair!Pairing(p))

PinsSpent ==
    \A p \in Pins :
        /\ Claims(p) <= issued[p]
        /\ pins[p].row /\ ~pins[p].used => Claims(p) < issued[p]

PairInv == PairTypes /\ DevicesPaired /\ PinsSpent

\* The calls between the statements of device.pair are finitely many.
LEMMA PairingFinite ==
    ASSUME PairTypes, NEW p
    PROVE  IsFiniteSet(Pair!Pairing(p)) /\ Cardinality(Pair!Pairing(p)) \in Nat
BY PairAssumption, FS_Subset, FS_CardinalityType DEF Pair!Pairing

\* The initial state satisfies the invariant of pairing.
LEMMA PairInit == Pair!Init => PairInv
<1> SUFFICES ASSUME Pair!Init PROVE PairInv
  OBVIOUS
<1>1. PairTypes
  BY PairAssumption DEF Pair!Init, PairTypes, PinCall, Pair!Idle, Pair!Absent, Pair!Times
<1>2. DevicesPaired
  BY PairAssumption, FS_Subset, FS_CardinalityType DEF Pair!Init, DevicesPaired, Present
<1>3. \A p \in Pins : Pair!Pairing(p) = {}
  BY DEF Pair!Init, Pair!Pairing, Pair!Idle
<1>. QED
  BY <1>1, <1>2, <1>3, FS_EmptySet, SMTT(60) DEF PairInv, PinsSpent, Claims, Pair!Init, Pair!Absent

\* A call that moves, and is between the two statements neither before nor after,
\* leaves the pairings under way as they are.
LEMMA PairingKept ==
    ASSUME PairTypes, NEW c \in PairConns, NEW q, Pair!Goto(c, q),
           pairCall[c].pc # "issue", q.pc # "issue"
    PROVE  \A p : Pair!Pairing(p)' = Pair!Pairing(p)
<1>1. \A b \in PairConns : pairCall'[b] = IF b = c THEN q ELSE pairCall[b]
  BY DEF PairTypes, Pair!Goto
<1>. QED
  BY <1>1 DEF Pair!Pairing

\* The types of pairing are kept by every step.
LEMMA PairTypesNext == PairTypes /\ [Pair!Next]_(Pair!vars) => PairTypes'
<1> SUFFICES ASSUME PairTypes, [Pair!Next]_(Pair!vars) PROVE PairTypes'
  OBVIOUS
<1> USE PairAssumption DEF PairTypes
<1>0. ASSUME NEW c \in PairConns, NEW q \in PinCall, Pair!Goto(c, q)
      PROVE  pairCall' \in [PairConns -> PinCall]
  BY <1>0 DEF Pair!Goto
<1>1. CASE Pair!Tick
  BY <1>1 DEF Pair!Tick
<1>2. ASSUME NEW c \in PairConns, Pair!Cleanup(c) PROVE PairTypes'
  <2>1. [pc |-> "draw"] \in PinCall
    BY DEF PinCall
  <2>2. pins' \in [Pins -> [expires : Pair!Times, used : BOOLEAN, row : BOOLEAN]]
    BY <1>2 DEF Pair!Cleanup, Pair!Cleaned, Pair!Absent, Pair!Times
  <2>. QED
    BY <1>2, <1>0, <2>1, <2>2 DEF Pair!Cleanup
<1>3. ASSUME NEW c \in PairConns, Pair!Draw(c) PROVE PairTypes'
  <2>1. \A p \in Pins : [pc |-> "insert", pin |-> p, expires |-> pinTime + PinTTL] \in PinCall
    BY DEF PinCall, Pair!Times
  <2>. QED
    BY <1>3, <1>0, <2>1 DEF Pair!Draw
<1>4. ASSUME NEW c \in PairConns, Pair!InsertPin(c) PROVE PairTypes'
  <2>1. pairCall[c].pin \in Pins /\ pairCall[c].expires \in Pair!Times /\ Pair!Idle \in PinCall
    BY <1>4 DEF Pair!InsertPin, PinCall, Pair!Idle
  <2>2. pairCall' \in [PairConns -> PinCall]
    BY <1>4, <1>0, <2>1 DEF Pair!InsertPin
  <2>. QED
    BY <1>4, <2>1, <2>2 DEF Pair!InsertPin
<1>5. ASSUME NEW c \in PairConns, Pair!DevicePair(c) PROVE PairTypes'
  <2>1. \A p \in Pins : [pc |-> "consume", pin |-> p, time |-> pinTime] \in PinCall
    BY DEF PinCall
  <2>. QED
    BY <1>5, <1>0, <2>1 DEF Pair!DevicePair
<1>6. ASSUME NEW c \in PairConns, Pair!ConsumePin(c) PROVE PairTypes'
  <2>1. pairCall[c].pin \in Pins /\ Pair!Idle \in PinCall
    BY <1>6 DEF Pair!ConsumePin, PinCall, Pair!Idle
  <2>2. [pc |-> "issue", pin |-> pairCall[c].pin] \in PinCall
    BY <2>1 DEF PinCall
  <2>3. pairCall' \in [PairConns -> PinCall]
    BY <1>6, <1>0, <2>1, <2>2 DEF Pair!ConsumePin
  <2>4. pins' \in [Pins -> [expires : Pair!Times, used : BOOLEAN, row : BOOLEAN]]
    <3>1. PICK i \in Pins : i = pairCall[c].pin
      BY <2>1
    <3>2. [pins[i] EXCEPT !.used = TRUE] \in [expires : Pair!Times, used : BOOLEAN, row : BOOLEAN]
      OBVIOUS
    <3>3. pins' = [pins EXCEPT ![i] = [pins[i] EXCEPT !.used = TRUE]] \/ pins' = pins
      BY <1>6, <3>1 DEF Pair!ConsumePin
    <3>. QED
      BY <3>2, <3>3
  <2>. QED
    BY <1>6, <2>3, <2>4 DEF Pair!ConsumePin
<1>7. ASSUME NEW c \in PairConns, Pair!IssueDeviceToken(c) PROVE PairTypes'
  <2>1. pairCall[c].pin \in Pins /\ Pair!Idle \in PinCall
    BY <1>7 DEF Pair!IssueDeviceToken, PinCall, Pair!Idle
  <2>2. pairCall' \in [PairConns -> PinCall]
    BY <1>7, <1>0, <2>1 DEF Pair!IssueDeviceToken
  <2>. QED
    BY <1>7, <2>1, <2>2 DEF Pair!IssueDeviceToken
<1>8. ASSUME NEW c \in PairConns, Pair!DeviceRevoke(c) PROVE PairTypes'
  BY <1>8 DEF Pair!DeviceRevoke
<1>9. ASSUME NEW c \in PairConns, Pair!Drop(c) PROVE PairTypes'
  <2>1. Pair!Idle \in PinCall
    BY DEF PinCall, Pair!Idle
  <2>. QED
    BY <1>9, <1>0, <2>1 DEF Pair!Drop
<1>10. CASE UNCHANGED Pair!vars
  BY <1>10 DEF Pair!vars
<1>. QED
  BY <1>1, <1>2, <1>3, <1>4, <1>5, <1>6, <1>7, <1>8, <1>9, <1>10 DEF Pair!Next

\* Every statement, and every call that ends early, preserves the invariant.
LEMMA PairNext == PairInv /\ [Pair!Next]_(Pair!vars) => PairInv'
<1> SUFFICES ASSUME PairInv, [Pair!Next]_(Pair!vars) PROVE PairInv'
  OBVIOUS
<1>1. PairTypes /\ PairTypes'
  BY PairTypesNext DEF PairInv
<1>2. /\ IsFiniteSet(Present) /\ Cardinality(Present) \in Nat
      /\ \A p : /\ IsFiniteSet(Pair!Pairing(p)) /\ Cardinality(Pair!Pairing(p)) \in Nat
                /\ IsFiniteSet(Pair!Pairing(p)') /\ Cardinality(Pair!Pairing(p)') \in Nat
  <2>1. IsFiniteSet(Present) /\ Cardinality(Present) \in Nat
    BY PairAssumption, FS_Subset, FS_CardinalityType DEF Present
  <2>2. \A p : Pair!Pairing(p) \subseteq PairConns /\ Pair!Pairing(p)' \subseteq PairConns
    BY DEF Pair!Pairing
  <2>. QED
    BY <2>1, <2>2, PairAssumption, FS_Subset, FS_CardinalityType
<1>3. ASSUME \A p : Pair!Pairing(p)' = Pair!Pairing(p), UNCHANGED <<devices, paired, issued>>,
             \A p \in Pins : pins'[p].row /\ ~pins'[p].used => pins[p].row /\ ~pins[p].used
      PROVE  DevicesPaired' /\ PinsSpent'
  BY <1>3 DEF PairInv, DevicesPaired, PinsSpent, Present, Claims
<1>4. CASE Pair!Tick \/ UNCHANGED Pair!vars
  <2>1. UNCHANGED <<pairCall, devices, paired, issued, pins>>
    BY <1>4 DEF Pair!Tick, Pair!vars
  <2>. QED
    BY <1>1, <1>3, <2>1 DEF PairInv, Pair!Pairing
<1>5. ASSUME NEW c \in PairConns, Pair!Cleanup(c) \/ Pair!Draw(c) \/ Pair!DevicePair(c)
      PROVE  PairInv'
  <2>1. \A p : Pair!Pairing(p)' = Pair!Pairing(p)
    BY <1>1, <1>5, PairingKept DEF Pair!Cleanup, Pair!Draw, Pair!DevicePair
  <2>2. \A p \in Pins : pins'[p].row /\ ~pins'[p].used => pins[p].row /\ ~pins[p].used
    BY <1>1, <1>5 DEF Pair!Cleanup, Pair!Draw, Pair!DevicePair, PairTypes, Pair!Cleaned, Pair!Absent
  <2>3. UNCHANGED <<devices, paired, issued>>
    BY <1>5 DEF Pair!Cleanup, Pair!Draw, Pair!DevicePair
  <2>. QED
    BY <1>1, <1>3, <2>1, <2>2, <2>3 DEF PairInv
<1>6. ASSUME NEW c \in PairConns, Pair!InsertPin(c) PROVE PairInv'
  <2>1. \A p : Pair!Pairing(p)' = Pair!Pairing(p)
    BY <1>1, <1>6, PairingKept DEF Pair!InsertPin, Pair!Idle
  <2>2. PICK i \in Pins : /\ issued' = [issued EXCEPT ![i] = @ + 1]
                          /\ \A p \in Pins : p # i => pins'[p] = pins[p]
    <3>1. pairCall[c].pin \in Pins
      BY <1>1, <1>6 DEF Pair!InsertPin, PairTypes, PinCall
    <3>. QED
      BY <1>1, <1>6, <3>1 DEF Pair!InsertPin, PairTypes
  <2>3. UNCHANGED <<devices, paired>>
    BY <1>6 DEF Pair!InsertPin
  <2>4. \A p \in Pins : issued[p] \in Nat /\ paired[p] \in Nat /\ issued'[p] =
                          IF p = i THEN issued[p] + 1 ELSE issued[p]
    BY <1>1, <2>2 DEF PairTypes
  <2>. QED
    BY <1>1, <1>2, <2>1, <2>2, <2>3, <2>4
    DEF PairInv, DevicesPaired, PinsSpent, Present, Claims
<1>7. ASSUME NEW c \in PairConns, Pair!ConsumePin(c) PROVE PairInv'
  <2>1. CASE ~ Pair!Valid(pairCall[c].pin, pairCall[c].time)
    <3>1. \A p : Pair!Pairing(p)' = Pair!Pairing(p)
      BY <1>1, <1>7, <2>1, PairingKept DEF Pair!ConsumePin, Pair!Idle
    <3>. QED
      BY <1>1, <1>3, <1>7, <2>1, <3>1 DEF PairInv, Pair!ConsumePin
  <2>2. CASE Pair!Valid(pairCall[c].pin, pairCall[c].time)
    <3>1. PICK i \in Pins : /\ i = pairCall[c].pin /\ pairCall[c].pc = "consume"
                            /\ pins[i].row /\ ~pins[i].used
      BY <1>1, <1>7, <2>2 DEF Pair!ConsumePin, PairTypes, PinCall, Pair!Valid
    <3>2. \A b \in PairConns :
             pairCall'[b] = IF b = c THEN [pc |-> "issue", pin |-> i] ELSE pairCall[b]
      BY <1>1, <1>7, <2>2, <3>1 DEF Pair!ConsumePin, PairTypes, Pair!Goto
    <3>3. /\ pins'[i].used
          /\ \A p \in Pins : p # i => pins'[p] = pins[p]
      BY <1>1, <1>7, <2>2, <3>1 DEF Pair!ConsumePin, PairTypes
    <3>4. /\ Pair!Pairing(i)' = Pair!Pairing(i) \cup {c} /\ c \notin Pair!Pairing(i)
          /\ \A p : p # i => Pair!Pairing(p)' = Pair!Pairing(p)
      BY <3>1, <3>2 DEF Pair!Pairing
    <3>5. Cardinality(Pair!Pairing(i)') = Cardinality(Pair!Pairing(i)) + 1
      BY <1>2, <3>4, FS_AddElement
    <3>6. UNCHANGED <<devices, paired, issued>>
      BY <1>7 DEF Pair!ConsumePin
    <3>7. \A p \in Pins : issued[p] \in Nat /\ paired[p] \in Nat
      BY <1>1 DEF PairTypes
    <3>8. DevicesPaired'
      BY <3>6 DEF PairInv, DevicesPaired, Present
    <3>9. PinsSpent'
      <4> SUFFICES ASSUME NEW p \in Pins
                   PROVE  /\ Claims(p)' <= issued'[p]
                          /\ pins'[p].row /\ ~pins'[p].used => Claims(p)' < issued'[p]
        BY DEF PinsSpent
      <4>1. CASE p = i
        <5>1. Claims(i)' = Claims(i) + 1
          BY <1>2, <3>5, <3>6, <3>7 DEF Claims
        <5>2. Claims(i) < issued[i] /\ Claims(i) \in Nat
          BY <1>2, <3>1, <3>7 DEF PairInv, PinsSpent, Claims
        <5>. QED
          BY <3>3, <3>6, <3>7, <4>1, <5>1, <5>2
      <4>2. CASE p # i
        BY <3>3, <3>4, <3>6, <4>2 DEF PairInv, PinsSpent, Claims
      <4>. QED
        BY <4>1, <4>2
    <3>. QED
      BY <1>1, <3>8, <3>9 DEF PairInv
  <2>. QED
    BY <2>1, <2>2
<1>8. ASSUME NEW c \in PairConns, Pair!IssueDeviceToken(c) PROVE PairInv'
  <2>1. PICK i \in Pins : i = pairCall[c].pin /\ pairCall[c].pc = "issue"
    BY <1>1, <1>8 DEF Pair!IssueDeviceToken, PairTypes, PinCall
  <2>2. \A b \in PairConns : pairCall'[b] = IF b = c THEN Pair!Idle ELSE pairCall[b]
    BY <1>1, <1>8 DEF Pair!IssueDeviceToken, PairTypes, Pair!Goto
  <2>3. /\ Pair!Pairing(i)' = Pair!Pairing(i) \ {c} /\ c \in Pair!Pairing(i)
        /\ \A p : p # i => Pair!Pairing(p)' = Pair!Pairing(p)
    BY <2>1, <2>2 DEF Pair!Pairing, Pair!Idle
  <2>4. Cardinality(Pair!Pairing(i)') = Cardinality(Pair!Pairing(i)) - 1
    BY <1>2, <2>3, FS_RemoveElement
  <2>5. \A p \in Pins : /\ issued[p] \in Nat /\ paired[p] \in Nat
                        /\ paired'[p] = IF p = i THEN paired[p] + 1 ELSE paired[p]
    BY <1>1, <1>8, <2>1 DEF PairTypes, Pair!IssueDeviceToken
  <2>6. UNCHANGED <<pins, issued>>
    BY <1>8 DEF Pair!IssueDeviceToken
  <2>7. PICK d \in Devices : devices[d] = "absent" /\ devices' = [devices EXCEPT ![d] = "active"]
    BY <1>8 DEF Pair!IssueDeviceToken
  <2>8. Present' = Present \cup {d} /\ d \notin Present
    BY <1>1, <2>7 DEF Present, PairTypes
  <2>9. Cardinality(Present') = Cardinality(Present) + 1
    BY <1>2, <2>8, FS_AddElement
  <2>10. DevicesPaired'
    BY <1>2, <2>5, <2>9 DEF PairInv, DevicesPaired
  <2>11. PinsSpent'
    <3> SUFFICES ASSUME NEW p \in Pins PROVE Claims(p)' = Claims(p)
      BY <2>6 DEF PairInv, PinsSpent
    <3>1. CASE p = i
      BY <1>2, <2>4, <2>5, <3>1 DEF Claims
    <3>2. CASE p # i
      BY <2>3, <2>5, <3>2 DEF Claims
    <3>. QED
      BY <3>1, <3>2
  <2>. QED
    BY <1>1, <2>10, <2>11 DEF PairInv
<1>9. ASSUME NEW c \in PairConns, Pair!DeviceRevoke(c) PROVE PairInv'
  <2>1. UNCHANGED <<pairCall, paired, issued, pins>>
    BY <1>9 DEF Pair!DeviceRevoke
  <2>2. Present' = Present
    BY <1>1, <1>9 DEF Pair!DeviceRevoke, Present, PairTypes
  <2>. QED
    BY <1>1, <2>1, <2>2 DEF PairInv, DevicesPaired, PinsSpent, Claims, Pair!Pairing
<1>10. ASSUME NEW c \in PairConns, Pair!Drop(c) PROVE PairInv'
  <2>1. \A b \in PairConns : pairCall'[b] = IF b = c THEN Pair!Idle ELSE pairCall[b]
    BY <1>1, <1>10 DEF Pair!Drop, PairTypes, Pair!Goto
  <2>2. \A p : Pair!Pairing(p)' \subseteq Pair!Pairing(p)
    BY <2>1 DEF Pair!Pairing, Pair!Idle
  <2>3. \A p : Cardinality(Pair!Pairing(p)') <= Cardinality(Pair!Pairing(p))
    BY <1>2, <2>2, FS_Subset
  <2>4. UNCHANGED <<devices, pins, issued, paired>>
    BY <1>10 DEF Pair!Drop
  <2>5. \A p \in Pins : issued[p] \in Nat /\ paired[p] \in Nat
    BY <1>1 DEF PairTypes
  <2>. QED
    BY <1>1, <1>2, <2>3, <2>4, <2>5 DEF PairInv, DevicesPaired, PinsSpent, Claims, Present
<1>. QED
  BY <1>4, <1>5, <1>6, <1>7, <1>8, <1>9, <1>10 DEF Pair!Next

\* The invariant says that a PIN pairs once each time it is given out.
LEMMA PairInvGives == PairInv => Pair!TypeOK /\ Pair!PinPairsOnce
<1> SUFFICES ASSUME PairInv PROVE Pair!TypeOK /\ Pair!PinPairsOnce
  OBVIOUS
<1>1. Pair!PinPairsOnce
  BY SameCardinality DEF PairInv, PinsSpent, Claims, Pair!PinPairsOnce
<1>2. Cardinality(Present) \in Nat /\ Cardinality(Present) <= Cardinality(Devices)
  BY PairAssumption, FS_Subset, FS_CardinalityType DEF Present
<1>3. \A p \in Pins : issued[p] \in 0 .. MaxIssued /\ paired[p] \in 0 .. Pair!Cardinality(Devices)
  BY <1>2, SameCardinality, PairAssumption, FS_CardinalityType
  DEF PairInv, PairTypes, DevicesPaired
<1>. QED
  BY <1>1, <1>3 DEF PairInv, PairTypes, Pair!TypeOK

-----------------------------------------------------------------------------
(***************************************************************************)
(* Self-update                                                             *)
(***************************************************************************)

\* Where the binary of the running daemon can be.
Places == {"current", "backup", "gone"}

UpdateTypes ==
    /\ file \in [Update!Paths -> Update!Whole \cup {"none", "part"}]
    /\ sentinel \in {"none", "torn", "fresh", "stale"}
    /\ proc \in [pc : {"down", "start", "clear", "up"}, image : Update!Whole]
    /\ exe \in Places
    /\ policy \in {"auto", "manual", "never"}
    /\ pending \in BOOLEAN
    /\ writing \in Update!Paths \cup {"gone", "none"}
    /\ apply \in [UpdateConns -> [pc : {"idle", "stamp", "backup", "install", "exec"}, exe : Places]]
    /\ checks \in 0 .. ChecksPerLife /\ lives \in 0 .. MaxLives
    /\ crashed \in BOOLEAN /\ meddled \in BOOLEAN

\* A call is under way only while the daemon is up, and one that has made its backup
\* knows a path; so does a daemon that starts.
Placed ==
    /\ \A c \in UpdateConns :
          /\ apply[c].pc # "idle" => proc.pc = "up"
          /\ apply[c].pc \in {"install", "exec"} => apply[c].exe # "gone"
    /\ proc.pc = "start" => exe # "gone"

UpdateTypeInv == UpdateTypes /\ Placed

\* The initial state of the updater has its types.
LEMMA UpdateInitTypes == Update!Init => UpdateTypeInv
<1> SUFFICES ASSUME Update!Init PROVE UpdateTypeInv
  OBVIOUS
<1> USE UpdateAssumption DEF Update!Init
<1>1. /\ file \in [Update!Paths -> Update!Whole \cup {"none", "part"}]
      /\ proc \in [pc : {"down", "start", "clear", "up"}, image : Update!Whole]
      /\ apply \in [UpdateConns -> [pc : {"idle", "stamp", "backup", "install", "exec"}, exe : Places]]
  BY DEF Update!Paths, Update!Whole, Places, Update!Idle
<1>2. checks \in 0 .. ChecksPerLife /\ lives \in 0 .. MaxLives
  OBVIOUS
<1>3. pending \in BOOLEAN /\ crashed \in BOOLEAN /\ meddled \in BOOLEAN
  OBVIOUS
<1>4. sentinel = "none" /\ exe \in Places /\ policy = "auto" /\ writing = "none"
  BY DEF Places
<1>5. Placed
  BY DEF Placed, Update!Idle
<1>. QED
  BY <1>1, <1>2, <1>3, <1>4, <1>5, Zenon DEF UpdateTypeInv, UpdateTypes

\* What a rename does to the files, to the file that is written and to the binary of
\* the daemon.
LEMMA RenameTypes ==
    ASSUME UpdateTypes, NEW from \in Update!Paths, NEW to \in {"current", "backup"},
           Update!Rename(from, to)
    PROVE  /\ file' \in [Update!Paths -> Update!Whole \cup {"none", "part"}]
           /\ \A p \in Update!Paths :
                 file'[p] = IF p = to THEN file[from] ELSE IF p = from THEN "none" ELSE file[p]
           /\ writing' \in Update!Paths \cup {"gone", "none"}
           /\ writing = "none" => writing' = "none"
           /\ exe' \in Places
BY DEF UpdateTypes, Update!Rename, Update!Paths, Update!Whole, Places, Update!After

\* What it is for a call to go on.
LEMMA ApplyGoto ==
    ASSUME UpdateTypes, NEW c \in UpdateConns,
           NEW q \in {"idle", "stamp", "backup", "install", "exec"}, Update!Goto(c, q)
    PROVE  /\ apply' \in [UpdateConns -> [pc : {"idle", "stamp", "backup", "install", "exec"}, exe : Places]]
           /\ \A b \in UpdateConns : /\ apply'[b].pc = IF b = c THEN q ELSE apply[b].pc
                                     /\ apply'[b].exe = apply[b].exe
<1>1. [apply[c] EXCEPT !.pc = q] \in [pc : {"idle", "stamp", "backup", "install", "exec"}, exe : Places]
  BY DEF UpdateTypes
<1>2. apply' = [apply EXCEPT ![c] = [apply[c] EXCEPT !.pc = q]]
  BY DEF Update!Goto
<1>. QED
  BY <1>1, <1>2 DEF UpdateTypes

\* A process that begins has no call under way.
LEMMA BeginTypes ==
    ASSUME UpdateTypes, NEW path \in {"current", "backup"}, Update!Begin(path),
           file[path] \in Update!Whole, lives < MaxLives
    PROVE  /\ proc' \in [pc : {"down", "start", "clear", "up"}, image : Update!Whole]
           /\ proc'.pc = "start" /\ exe' = path /\ policy' = "auto" /\ ~pending' /\ pending' \in BOOLEAN
           /\ writing' = "none"
           /\ apply' \in [UpdateConns -> [pc : {"idle", "stamp", "backup", "install", "exec"}, exe : Places]]
           /\ \A c \in UpdateConns : apply'[c].pc = "idle"
           /\ checks' \in 0 .. ChecksPerLife /\ lives' \in 0 .. MaxLives
<1>1. proc' \in [pc : {"down", "start", "clear", "up"}, image : Update!Whole] /\ proc'.pc = "start"
  BY DEF Update!Begin
<1>2. exe' = path /\ policy' = "auto" /\ ~pending' /\ pending' \in BOOLEAN /\ writing' = "none"
  BY Zenon DEF Update!Begin
<1>3. /\ apply' \in [UpdateConns -> [pc : {"idle", "stamp", "backup", "install", "exec"}, exe : Places]]
      /\ \A c \in UpdateConns : apply'[c].pc = "idle"
  BY DEF Update!Begin, Update!Idle, Places
<1>4. checks' \in 0 .. ChecksPerLife /\ lives' \in 0 .. MaxLives
  BY UpdateAssumption DEF UpdateTypes, Update!Begin
<1>. QED
  BY <1>1, <1>2, <1>3, <1>4

\* Every step keeps the types of the updater.
LEMMA UpdateNextTypes == UpdateTypeInv /\ [Update!Next]_(Update!vars) => UpdateTypeInv'
<1> SUFFICES ASSUME UpdateTypeInv, [Update!Next]_(Update!vars) PROVE UpdateTypeInv'
  OBVIOUS
<1> USE UpdateAssumption DEF UpdateTypeInv
<1>0. UpdateTypes /\ Placed
  OBVIOUS
<1>1. CASE Update!Start
  <2>1. Update!Begin("current") /\ file["current"] \in Update!Whole /\ lives < MaxLives
    BY <1>1 DEF Update!Start
  <2>. QED
    BY <1>0, <1>1, <2>1, BeginTypes DEF Update!Start, UpdateTypes, Placed, Places
<1>2. CASE Update!CheckAndRollback
  <2>1. exe \in {"current", "backup"} /\ "backup" \in Update!Paths
    BY <1>0, <1>2 DEF Update!CheckAndRollback, UpdateTypes, Placed, Places, Update!Paths
  <2>2. /\ file' \in [Update!Paths -> Update!Whole \cup {"none", "part"}]
        /\ writing' \in Update!Paths \cup {"gone", "none"} /\ exe' \in Places
    BY <1>0, <1>2, <2>1, RenameTypes DEF Update!CheckAndRollback, Update!Stay, UpdateTypes
  <2>3. /\ proc' \in [pc : {"down", "start", "clear", "up"}, image : Update!Whole]
        /\ proc'.pc = "clear" /\ proc.pc = "start"
    BY <1>2 DEF Update!CheckAndRollback, UpdateTypes
  <2>. QED
    BY <1>2, <2>2, <2>3 DEF Update!CheckAndRollback, UpdateTypes, Placed
<1>3. CASE Update!DeleteRollbackSentinel
  <2>1. /\ proc' \in [pc : {"down", "start", "clear", "up"}, image : Update!Whole]
        /\ proc'.pc = "up" /\ proc.pc = "clear"
    BY <1>3 DEF Update!DeleteRollbackSentinel, UpdateTypes
  <2>. QED
    BY <1>3, <2>1 DEF Update!DeleteRollbackSentinel, UpdateTypes, Placed
<1>4. CASE Update!Tick
  BY <1>4 DEF Update!Tick, UpdateTypes, Placed
<1>5. CASE Update!Crash
  <2>1. /\ proc' \in [pc : {"down", "start", "clear", "up"}, image : Update!Whole]
        /\ proc'.pc = "down"
    BY <1>5 DEF Update!Crash, UpdateTypes
  <2>2. /\ apply' \in [UpdateConns -> [pc : {"idle", "stamp", "backup", "install", "exec"}, exe : Places]]
        /\ \A c \in UpdateConns : apply'[c].pc = "idle"
    BY <1>5 DEF Update!Crash, Update!Idle, Places
  <2>3. crashed' \in BOOLEAN /\ pending' \in BOOLEAN
    BY <1>5, Zenon DEF Update!Crash, UpdateTypes
  <2>. QED
    BY <1>5, <2>1, <2>2, <2>3 DEF Update!Crash, UpdateTypes, Placed
<1>6. CASE Update!SetPolicy
  BY <1>6 DEF Update!SetPolicy, UpdateTypes, Placed
<1>7. CASE Update!CheckAndDownload
  <2>1. meddled' \in BOOLEAN
    BY <1>7, Zenon DEF Update!CheckAndDownload, Update!Meddles, UpdateTypes
  <2>. QED
    BY <1>7, <2>1 DEF Update!CheckAndDownload, UpdateTypes, Placed, Update!Paths
<1>8. CASE Update!DownloadOk
  <2>1. pending' \in BOOLEAN
    BY <1>8, Zenon DEF Update!DownloadOk, UpdateTypes
  <2>. QED
    BY <1>8, <2>1 DEF Update!DownloadOk, UpdateTypes, Placed, Update!Whole
<1>9. CASE Update!DownloadFails
  <2>1. meddled' \in BOOLEAN
    BY <1>9, Zenon DEF Update!DownloadFails, Update!Meddles, UpdateTypes
  <2>. QED
    BY <1>9, <2>1 DEF Update!DownloadFails, UpdateTypes, Placed
<1>10. ASSUME NEW c \in UpdateConns, Update!ApplyIfReady(c) PROVE UpdateTypeInv'
  <2>1. meddled' \in BOOLEAN
    BY <1>10, Zenon DEF Update!ApplyIfReady, Update!Meddles, UpdateTypes
  <2>. QED
    BY <1>10, <2>1 DEF Update!ApplyIfReady, Update!Up, UpdateTypes, Placed
<1>11. ASSUME NEW c \in UpdateConns, Update!WriteRollbackSentinel(c) PROVE UpdateTypeInv'
  <2>1. Update!Goto(c, "backup") /\ apply[c].pc = "stamp"
    BY <1>11 DEF Update!WriteRollbackSentinel
  <2>. QED
    BY <1>0, <1>11, <2>1, ApplyGoto DEF Update!WriteRollbackSentinel, UpdateTypes, Placed
<1>12. ASSUME NEW c \in UpdateConns, Update!Backup(c) PROVE UpdateTypeInv'
  <2>1. /\ apply[c].exe \in {"current", "backup"} /\ apply[c].exe \in Update!Paths
        /\ Update!Rename(apply[c].exe, "backup") /\ Update!Goto(c, "install")
    BY <1>12 DEF Update!Backup, Update!Exists, UpdateTypes, Places, Update!Paths
  <2>2. /\ file' \in [Update!Paths -> Update!Whole \cup {"none", "part"}]
        /\ writing' \in Update!Paths \cup {"gone", "none"} /\ exe' \in Places
    BY <1>0, <2>1, RenameTypes
  <2>3. /\ apply' \in [UpdateConns -> [pc : {"idle", "stamp", "backup", "install", "exec"}, exe : Places]]
        /\ \A b \in UpdateConns : /\ apply'[b].pc = IF b = c THEN "install" ELSE apply[b].pc
                                  /\ apply'[b].exe = apply[b].exe
    BY <1>0, <2>1, ApplyGoto
  <2>4. /\ UNCHANGED <<sentinel, proc, policy, pending, checks, lives, crashed, meddled>>
        /\ apply[c].pc = "backup"
    BY <1>12 DEF Update!Backup
  <2>5. UpdateTypes'
    BY <1>0, <2>2, <2>3, <2>4 DEF UpdateTypes
  <2>6. Placed'
    BY <1>0, <2>1, <2>3, <2>4 DEF Placed, Places
  <2>. QED
    BY <2>5, <2>6
<1>12a. ASSUME NEW c \in UpdateConns, Update!BackupFails(c) PROVE UpdateTypeInv'
  <2>1. Update!Goto(c, "idle")
    BY <1>12a DEF Update!BackupFails
  <2>. QED
    BY <1>0, <1>12a, <2>1, ApplyGoto DEF Update!BackupFails, Update!Stay, UpdateTypes, Placed
<1>13. ASSUME NEW c \in UpdateConns, Update!Install(c) PROVE UpdateTypeInv'
  <2>1. /\ apply[c].exe \in {"current", "backup"} /\ "staged" \in Update!Paths
        /\ Update!Rename("staged", apply[c].exe) /\ Update!Goto(c, "exec")
        /\ apply[c].pc = "install"
    BY <1>13 DEF Update!Install, UpdateTypes, Placed, Places, Update!Paths
  <2>2. crashed' \in BOOLEAN
    BY <1>13, Zenon DEF Update!Install
  <2>. QED
    BY <1>0, <1>13, <2>1, <2>2, ApplyGoto, RenameTypes DEF Update!Install, UpdateTypes, Placed
<1>14. ASSUME NEW c \in UpdateConns, Update!InstallFails(c) PROVE UpdateTypeInv'
  <2>1. /\ apply[c].exe \in {"current", "backup"} /\ "backup" \in Update!Paths
        /\ Update!Goto(c, "idle") /\ apply[c].pc = "install"
    BY <1>14 DEF Update!InstallFails, UpdateTypes, Placed, Places, Update!Paths
  <2>2. /\ file' \in [Update!Paths -> Update!Whole \cup {"none", "part"}]
        /\ writing' \in Update!Paths \cup {"gone", "none"} /\ exe' \in Places
    BY <1>0, <1>14, <2>1, RenameTypes DEF Update!InstallFails, Update!Stay, UpdateTypes
  <2>. QED
    BY <1>0, <1>14, <2>1, <2>2, ApplyGoto DEF Update!InstallFails, UpdateTypes, Placed
<1>15. ASSUME NEW c \in UpdateConns, Update!Exec(c) PROVE UpdateTypeInv'
  <2>1. /\ apply[c].exe \in {"current", "backup"} /\ file[apply[c].exe] \in Update!Whole
        /\ lives < MaxLives /\ Update!Begin(apply[c].exe)
    BY <1>15 DEF Update!Exec, Update!Runs, UpdateTypes, Placed, Places
  <2>. QED
    BY <1>0, <1>15, <2>1, BeginTypes DEF Update!Exec, UpdateTypes, Placed, Places
<1>16. ASSUME NEW c \in UpdateConns, Update!ExecFails(c) PROVE UpdateTypeInv'
  <2>1. Update!Goto(c, "idle")
    BY <1>16 DEF Update!ExecFails
  <2>. QED
    BY <1>0, <1>16, <2>1, ApplyGoto DEF Update!ExecFails, UpdateTypes, Placed
<1>17. CASE UNCHANGED Update!vars
  BY <1>17 DEF Update!vars, UpdateTypes, Placed
<1>. QED
  BY <1>1, <1>2, <1>3, <1>4, <1>5, <1>6, <1>7, <1>8, <1>9, <1>10, <1>11, <1>12, <1>12a, <1>13,
     <1>14, <1>15, <1>16, <1>17 DEF Update!Next

\* The updater's types follow.
LEMMA UpdateTypeInvGives == UpdateTypeInv => Update!TypeOK
BY DEF UpdateTypeInv, UpdateTypes, Update!TypeOK, Places, Update!Paths

\* While no download meddles with an apply: what is pending was downloaded to its end,
\* or is being downloaded again before anybody applies it; calls of applyUpdate are
\* under way only for a pending update that is written no more; and the part of a
\* binary is nowhere but where downloads are written.
Undisturbed ==
    /\ writing \in {"none", "staged"}
    /\ writing # "none" \/ pending => proc.pc = "up"
    /\ pending /\ writing = "none" => file["staged"] # "part"
    /\ \A c \in UpdateConns : apply[c].pc # "idle" => pending /\ writing = "none"
    /\ file["backup"] # "part" /\ Update!BinaryWhole

UpdateInv == UpdateTypeInv /\ (~meddled => Undisturbed)

\* The initial state satisfies the updater's invariant.
LEMMA UpdateInit == Update!Init => UpdateInv
<1> SUFFICES ASSUME Update!Init PROVE UpdateInv
  OBVIOUS
<1>1. UpdateTypeInv
  BY UpdateInitTypes
<1>. QED
  BY <1>1 DEF Update!Init, UpdateInv, Undisturbed, Update!BinaryWhole, Update!Idle, Update!Paths,
              Update!Whole

\* A rename to the place of the binary or beside it keeps a whole binary there, and
\* moves no part of one there.
LEMMA RenameKeeps ==
    ASSUME UpdateTypes, Undisturbed, NEW from \in Update!Paths, NEW to \in {"current", "backup"},
           Update!Rename(from, to), file[from] \notin {"none", "part"}
    PROVE  file'["backup"] # "part" /\ Update!BinaryWhole'
<1>1. \A p \in Update!Paths :
         file'[p] = IF p = to THEN file[from] ELSE IF p = from THEN "none" ELSE file[p]
  BY RenameTypes
<1>2. file[from] \in Update!Whole
  BY DEF UpdateTypes
<1>. QED
  BY <1>1, <1>2 DEF Undisturbed, Update!BinaryWhole, Update!Paths, Update!Whole

\* What meddled says of a step: only a download or the start of an apply sets it.
LEMMA MeddledStays ==
    ASSUME [Update!Next]_(Update!vars), ~meddled'
    PROVE  ~meddled
BY DEF Update!Next, Update!vars, Update!Meddles, Update!Start, Update!CheckAndRollback,
       Update!DeleteRollbackSentinel, Update!Tick, Update!Crash, Update!SetPolicy,
       Update!CheckAndDownload, Update!DownloadOk, Update!DownloadFails, Update!ApplyIfReady,
       Update!WriteRollbackSentinel, Update!Backup, Update!BackupFails, Update!Install,
       Update!InstallFails, Update!Exec, Update!ExecFails

\* Every step of the downloads, of the calls and of the daemon's life preserves it.
LEMMA UpdateNext == UpdateInv /\ [Update!Next]_(Update!vars) => UpdateInv'
<1> SUFFICES ASSUME UpdateInv, [Update!Next]_(Update!vars), ~meddled' PROVE Undisturbed'
  BY UpdateNextTypes DEF UpdateInv
<1> USE UpdateAssumption
<1>0. UpdateTypeInv /\ UpdateTypeInv' /\ UpdateTypes /\ Placed /\ Undisturbed
  BY UpdateNextTypes, MeddledStays DEF UpdateInv, UpdateTypeInv
<1>a. ASSUME UNCHANGED file PROVE file'["backup"] # "part" /\ Update!BinaryWhole'
  BY <1>0, <1>a DEF Undisturbed, Update!BinaryWhole
<1>b. /\ "staged" \in Update!Paths /\ "backup" \in Update!Paths /\ "current" \in Update!Paths
      /\ file["backup"] # "part"
  BY <1>0 DEF Update!Paths, Undisturbed
<1>1. ASSUME NEW path \in {"current", "backup"}, Update!Begin(path), UNCHANGED file,
             file[path] \in Update!Whole, lives < MaxLives
      PROVE  Undisturbed'
  BY <1>0, <1>1, <1>a, BeginTypes DEF Undisturbed
<1>2. CASE Update!Start
  BY <1>1, <1>2 DEF Update!Start
<1>3. CASE Update!CheckAndRollback
  <2>1. /\ exe \in {"current", "backup"} /\ proc.pc = "start" /\ writing = "none" /\ ~pending
        /\ UNCHANGED <<pending, apply>>
    BY <1>0, <1>3 DEF Update!CheckAndRollback, UpdateTypes, Placed, Places, Undisturbed
  <2>2. file'["backup"] # "part" /\ Update!BinaryWhole' /\ writing' = "none"
    <3>1. CASE sentinel = "fresh" /\ file["backup"] # "none"
      BY <1>0, <1>3, <1>b, <2>1, <3>1, RenameKeeps, RenameTypes DEF Update!CheckAndRollback
    <3>2. CASE ~(sentinel = "fresh" /\ file["backup"] # "none")
      BY <1>3, <1>a, <2>1, <3>2 DEF Update!CheckAndRollback, Update!Stay
    <3>. QED
      BY <3>1, <3>2
  <2>3. \A c \in UpdateConns : apply'[c].pc = "idle"
    BY <1>0, <2>1 DEF Undisturbed
  <2>. QED
    BY <2>1, <2>2, <2>3 DEF Undisturbed
<1>4. CASE Update!DeleteRollbackSentinel
  <2>1. /\ UNCHANGED <<file, writing, pending, apply>> /\ proc.pc = "clear" /\ proc'.pc = "up"
    BY <1>0, <1>4 DEF Update!DeleteRollbackSentinel, UpdateTypes
  <2>. QED
    BY <1>0, <1>a, <2>1 DEF Undisturbed
<1>5. CASE Update!Tick
  BY <1>0, <1>5, <1>a DEF Update!Tick, Undisturbed
<1>6. CASE Update!Crash
  BY <1>0, <1>6, <1>a DEF Update!Crash, Undisturbed, Update!Idle
<1>7. CASE Update!SetPolicy
  BY <1>0, <1>7, <1>a DEF Update!SetPolicy, Undisturbed
<1>8. CASE Update!CheckAndDownload
  <2>1. CASE proc.image = "old" /\ policy = "auto"
    <3>1. /\ \A c \in UpdateConns : apply[c].pc = "idle"
          /\ UNCHANGED <<pending, apply, proc>> /\ writing' = "staged" /\ proc.pc = "up"
      BY <1>8, <2>1 DEF Update!CheckAndDownload, Update!Meddles, Update!Applying, Update!Up
    <3>2. file'["backup"] = file["backup"] /\ file'["current"] = file["current"]
      BY <1>0, <1>8, <2>1 DEF Update!CheckAndDownload, UpdateTypes, Update!Paths
    <3>. QED
      BY <1>0, <3>1, <3>2 DEF Undisturbed, Update!BinaryWhole
  <2>2. CASE ~(proc.image = "old" /\ policy = "auto")
    BY <1>0, <1>8, <1>a, <2>2 DEF Update!CheckAndDownload, Undisturbed
  <2>. QED
    BY <2>1, <2>2
<1>9. CASE Update!DownloadOk
  <2>1. writing = "staged" /\ writing' = "none" /\ UNCHANGED <<apply, proc>>
    BY <1>0, <1>9 DEF Update!DownloadOk, Undisturbed
  <2>2. /\ file'["backup"] = file["backup"] /\ file'["current"] = file["current"]
        /\ file'["staged"] = "new"
    BY <1>0, <1>9, <2>1 DEF Update!DownloadOk, UpdateTypes, Update!Paths
  <2>. QED
    BY <1>0, <2>1, <2>2 DEF Undisturbed, Update!BinaryWhole
<1>10. CASE Update!DownloadFails
  <2>1. writing = "staged" /\ writing' = "none" /\ UNCHANGED <<apply, proc, pending>>
    BY <1>0, <1>10 DEF Update!DownloadFails, Undisturbed
  <2>2. file'["backup"] = file["backup"] /\ file'["current"] = file["current"]
    BY <1>0, <1>10, <2>1 DEF Update!DownloadFails, UpdateTypes, Update!Paths
  <2>3. pending => file'["staged"] = "none"
    BY <1>0, <1>10 DEF Update!DownloadFails, Update!Meddles, UpdateTypes, Update!Paths
  <2>. QED
    BY <1>0, <2>1, <2>2, <2>3 DEF Undisturbed, Update!BinaryWhole
<1>11. ASSUME NEW c \in UpdateConns, Update!ApplyIfReady(c) PROVE Undisturbed'
  <2>1. pending /\ writing = "none" /\ UNCHANGED <<file, proc, pending, writing>>
    BY <1>11 DEF Update!ApplyIfReady, Update!Meddles
  <2>. QED
    BY <1>0, <1>a, <2>1 DEF Undisturbed
\* A step of a call finds the update pending and nobody writing.
<1>c. ASSUME NEW c \in UpdateConns, apply[c].pc # "idle", UNCHANGED <<proc, pending>>,
             writing' = "none", file'["staged"] \in {file["staged"], "none"},
             file'["backup"] # "part" /\ Update!BinaryWhole'
      PROVE  Undisturbed'
  BY <1>0, <1>c DEF Undisturbed
<1>d. \A c \in UpdateConns : apply[c].pc # "idle" => writing = "none" /\ file["staged"] # "part"
  BY <1>0 DEF Undisturbed
<1>12. ASSUME NEW c \in UpdateConns, Update!WriteRollbackSentinel(c) \/ Update!ExecFails(c)
       PROVE  Undisturbed'
  BY <1>12, <1>a, <1>c, <1>d DEF Update!WriteRollbackSentinel, Update!ExecFails
<1>13. ASSUME NEW c \in UpdateConns, Update!Backup(c) PROVE Undisturbed'
  <2>1. /\ apply[c].exe \in {"current", "backup"} /\ apply[c].exe \in Update!Paths
        /\ Update!Rename(apply[c].exe, "backup") /\ file[apply[c].exe] \notin {"none", "part"}
    BY <1>0, <1>13, <1>b
    DEF Update!Backup, Update!Exists, UpdateTypes, Places, Update!Paths, Undisturbed, Update!BinaryWhole
  <2>2. file'["backup"] # "part" /\ Update!BinaryWhole'
    BY <1>0, <2>1, RenameKeeps
  <2>3. writing' = "none" /\ file'["staged"] = file["staged"]
    BY <1>0, <1>13, <1>b, <1>d, <2>1, RenameTypes DEF Update!Backup
  <2>. QED
    BY <1>13, <1>c, <2>2, <2>3 DEF Update!Backup
<1>14. ASSUME NEW c \in UpdateConns, Update!BackupFails(c) PROVE Undisturbed'
  BY <1>14, <1>a, <1>c, <1>d DEF Update!BackupFails, Update!Stay
<1>15. ASSUME NEW c \in UpdateConns, Update!Install(c) PROVE Undisturbed'
  <2>1. /\ apply[c].exe \in {"current", "backup"} /\ Update!Rename("staged", apply[c].exe)
        /\ file["staged"] \notin {"none", "part"}
    BY <1>0, <1>15, <1>d DEF Update!Install, Update!Exists, UpdateTypes, Placed, Places
  <2>2. file'["backup"] # "part" /\ Update!BinaryWhole'
    BY <1>0, <1>b, <2>1, RenameKeeps
  <2>3. writing' = "none" /\ file'["staged"] = "none"
    BY <1>0, <1>15, <1>b, <1>d, <2>1, RenameTypes DEF Update!Install
  <2>. QED
    BY <1>15, <1>c, <2>2, <2>3 DEF Update!Install
<1>16. ASSUME NEW c \in UpdateConns, Update!InstallFails(c) PROVE Undisturbed'
  <2>1. CASE Update!Exists("backup") /\ Update!Rename("backup", apply[c].exe)
    <3>1. apply[c].exe \in {"current", "backup"} /\ file["backup"] \notin {"none", "part"}
      BY <1>0, <1>16, <1>b, <2>1 DEF Update!InstallFails, Update!Exists, UpdateTypes, Placed, Places
    <3>2. file'["backup"] # "part" /\ Update!BinaryWhole'
      BY <1>0, <1>b, <2>1, <3>1, RenameKeeps
    <3>3. writing' = "none" /\ file'["staged"] = file["staged"]
      BY <1>0, <1>16, <1>b, <1>d, <2>1, <3>1, RenameTypes DEF Update!InstallFails
    <3>. QED
      BY <1>16, <1>c, <3>2, <3>3 DEF Update!InstallFails
  <2>2. CASE Update!Stay
    BY <1>16, <1>a, <1>c, <1>d, <2>2 DEF Update!InstallFails, Update!Stay
  <2>. QED
    BY <1>16, <2>1, <2>2 DEF Update!InstallFails
<1>17. ASSUME NEW c \in UpdateConns, Update!Exec(c) PROVE Undisturbed'
  <2>1. apply[c].exe \in {"current", "backup"}
    BY <1>0, <1>17 DEF Update!Exec, UpdateTypes, Placed, Places
  <2>. QED
    BY <1>1, <1>17, <2>1 DEF Update!Exec, Update!Runs
<1>18. CASE UNCHANGED Update!vars
  BY <1>0, <1>18, <1>a DEF Update!vars, Undisturbed
<1>. QED
  BY <1>2, <1>3, <1>4, <1>5, <1>6, <1>7, <1>8, <1>9, <1>10, <1>11, <1>12, <1>13, <1>14, <1>15,
     <1>16, <1>17, <1>18 DEF Update!Next

-----------------------------------------------------------------------------
(***************************************************************************)
(* The events of the WebSocket server                                      *)
(***************************************************************************)

Change == [session : Sessions, version : Nat \ {0}]
Views == [Sessions -> Nat]
Opening == [pc : {"closed", "auth", "subscribe"}]
Serving == [pc : {"serve", "send"}, seen : Nat, lagged : BOOLEAN, view : {<<>>} \cup Views]

IpcTypes ==
    /\ store \in Views
    /\ writer \in [Writers -> Change \cup {Ipc!NoChange}]
    /\ wsEvents \in Seq(Change)
    /\ wsConn \in [Conns -> Opening \cup Serving]

\* Every change of a status is broadcast, or about to be, and there are not more
\* of them than the bound.
WritesCounted ==
    /\ Ipc!Written <= MaxWrites
    /\ \A s \in Sessions : store[s] <= Ipc!Written

IpcTypeInv == IpcTypes /\ WritesCounted

Writing == {w \in Writers : writer[w] # Ipc!NoChange}

\* A change is not the absence of one.
LEMMA ChangeIsChange == \A x \in Change : x # Ipc!NoChange /\ x.session \in Sessions /\ x.version \in Nat
BY DEF Change, Ipc!NoChange

\* How the changes are counted.
LEMMA WrittenIs ==
    ASSUME IpcTypes
    PROVE  /\ Ipc!Written = Len(wsEvents) + Cardinality(Writing)
           /\ IsFiniteSet(Writing) /\ Cardinality(Writing) \in Nat /\ Len(wsEvents) \in Nat
<1>1. IsFiniteSet(Writing) /\ Cardinality(Writing) \in Nat
  BY IpcAssumption, FS_Subset, FS_CardinalityType DEF Writing
<1>. QED
  BY <1>1, SameCardinality DEF Ipc!Written, Writing, IpcTypes

\* The initial state of the connections has its types.
LEMMA IpcInitTypes == Ipc!Init => IpcTypeInv
<1> SUFFICES ASSUME Ipc!Init PROVE IpcTypeInv
  OBVIOUS
<1>1. IpcTypes
  <2>1. Ipc!Closed \in Opening
    BY DEF Ipc!Closed, Opening
  <2>. QED
    BY <2>1 DEF Ipc!Init, IpcTypes, Views
<1>2. Writing = {}
  BY DEF Ipc!Init, Writing
<1>3. Ipc!Written = 0
  BY <1>1, <1>2, WrittenIs, FS_EmptySet DEF Ipc!Init
<1>. QED
  BY <1>1, <1>3, IpcAssumption DEF IpcTypeInv, WritesCounted, Ipc!Init

\* The connections' steps that leave the store alone.
LEMMA ConnKeeps ==
    ASSUME IpcTypes, NEW c \in Conns, NEW q \in Opening \cup Serving, Ipc!Goto(c, q)
    PROVE  /\ wsConn' \in [Conns -> Opening \cup Serving]
           /\ \A d \in Conns : wsConn'[d] = IF d = c THEN q ELSE wsConn[d]
BY DEF IpcTypes, Ipc!Goto

\* What a connection that serves has.
LEMMA ServingFields ==
    ASSUME IpcTypes, NEW c \in Conns, wsConn[c].pc \in {"serve", "send"}
    PROVE  /\ wsConn[c] \in Serving /\ wsConn[c].seen \in Nat /\ wsConn[c].lagged \in BOOLEAN
           /\ wsConn[c].view \in {<<>>} \cup Views
<1>1. wsConn[c] \in Opening \cup Serving
  BY DEF IpcTypes
<1>2. wsConn[c] \notin Opening
  BY DEF Opening
<1>. QED
  BY <1>1, <1>2 DEF Serving

\* A receiver is behind the events, never before them.
InRange(q) == q \in Serving => q.seen <= Len(wsEvents)

\* The next event brings the view of connection c up to date in q.
Applies(c, q) ==
    \E i \in DOMAIN wsEvents :
        /\ wsConn[c].pc = "serve" /\ i = wsConn[c].seen + 1 /\ q.seen = i
        /\ q.lagged = wsConn[c].lagged /\ wsConn[c].view # <<>>
        /\ q.view = [wsConn[c].view EXCEPT ![wsEvents[i].session] = wsEvents[i].version]

\* What a step of a connection does: it ends or begins, it has no view or the one of
\* the store, it lags, it goes on as it is, or it forwards the next event.
Moves(c, q) ==
    /\ InRange(wsConn[c]) => InRange(q)
    /\ \/ q \in Opening
       \/ q \in Serving /\ (q.view \in {<<>>, store} \/ q.lagged)
       \/ /\ q \in Serving /\ wsConn[c].pc = "send"
          /\ q.seen = wsConn[c].seen /\ q.lagged = wsConn[c].lagged /\ q.view = wsConn[c].view
       \/ q \in Serving /\ Applies(c, q)

ConnStep(c) ==
    \/ Ipc!Accept(c) \/ Ipc!Refuse(c) \/ Ipc!Authenticate(c) \/ Ipc!Subscribe(c)
    \/ Ipc!Dispatch(c) \/ Ipc!Respond(c) \/ Ipc!Forward(c) \/ Ipc!Lag(c) \/ Ipc!Disconnect(c)

\* Every step of a connection is one of these.
LEMMA ConnMoves ==
    ASSUME IpcTypes, NEW c \in Conns, ConnStep(c)
    PROVE  /\ UNCHANGED <<store, writer, wsEvents>>
           /\ \E q \in Opening \cup Serving : Ipc!Goto(c, q) /\ Moves(c, q)
<1> USE IpcAssumption
<1>1. Len(wsEvents) \in Nat /\ DOMAIN wsEvents = 1 .. Len(wsEvents) /\ store \in Views
  BY DEF IpcTypes
<1>2. CASE Ipc!Accept(c) \/ Ipc!Refuse(c) \/ Ipc!Authenticate(c) \/ Ipc!Disconnect(c)
  <2>1. Ipc!Closed \in Opening /\ [pc |-> "auth"] \in Opening /\ [pc |-> "subscribe"] \in Opening
    BY DEF Opening, Ipc!Closed
  <2>2. \A q \in Opening : InRange(q)
    BY DEF InRange, Opening, Serving
  <2>. QED
    BY <1>2, <2>1, <2>2 DEF Ipc!Accept, Ipc!Refuse, Ipc!Authenticate, Ipc!Disconnect, Moves
<1>3. CASE Ipc!Subscribe(c)
  <2> DEFINE q == [pc |-> "serve", seen |-> Len(wsEvents), lagged |-> FALSE, view |-> <<>>]
  <2>1. q \in Serving /\ q.view = <<>> /\ InRange(q)
    BY <1>1 DEF Serving, InRange
  <2>. QED
    BY <1>3, <2>1 DEF Ipc!Subscribe, Moves
<1>4. CASE Ipc!Dispatch(c)
  <2> DEFINE q == [wsConn[c] EXCEPT !.pc = "send", !.view = store]
  <2>1. q \in Serving /\ q.view = store /\ (InRange(wsConn[c]) => InRange(q))
    BY <1>1, <1>4, ServingFields DEF Ipc!Dispatch, Serving, InRange
  <2>. QED
    BY <1>4, <2>1 DEF Ipc!Dispatch, Moves
<1>5. CASE Ipc!Respond(c)
  <2> DEFINE q == [wsConn[c] EXCEPT !.pc = "serve"]
  <2>1. /\ q \in Serving /\ wsConn[c].pc = "send"
        /\ q.seen = wsConn[c].seen /\ q.lagged = wsConn[c].lagged /\ q.view = wsConn[c].view
        /\ InRange(wsConn[c]) => InRange(q)
    BY <1>1, <1>5, ServingFields DEF Ipc!Respond, Serving, InRange
  <2>. QED
    BY <1>5, <2>1 DEF Ipc!Respond, Moves
<1>6. CASE Ipc!Forward(c)
  <2>1. /\ wsConn[c] \in Serving /\ wsConn[c].pc = "serve" /\ wsConn[c].seen \in Nat
        /\ wsConn[c].view \in {<<>>} \cup Views
    BY <1>6, ServingFields DEF Ipc!Forward
  <2>2. PICK i \in DOMAIN wsEvents : i = wsConn[c].seen + 1
    BY <1>1, <1>6, <2>1 DEF Ipc!Forward, Ipc!Behind
  <2>3. wsEvents[i] \in Change
    BY DEF IpcTypes
  <2> DEFINE v == Ipc!Applied(wsConn[c].view, wsEvents[i])
             q == [wsConn[c] EXCEPT !.seen = i, !.view = v]
  <2>4. v \in {<<>>} \cup Views
    BY <2>1, <2>3, ChangeIsChange DEF Ipc!Applied, Views
  <2>5. Ipc!Goto(c, q)
    BY <1>6, <2>2 DEF Ipc!Forward
  <2> HIDE DEF v
  <2>6. q \in Serving /\ q.seen = i /\ q.lagged = wsConn[c].lagged /\ q.view = v
    <3>1. i \in Nat /\ wsConn[c].lagged \in BOOLEAN
      BY <1>1, <1>6, ServingFields DEF Ipc!Forward
    <3>. QED
      BY <2>1, <2>4, <3>1 DEF Serving
  <2>7. \/ v = <<>>
        \/ /\ wsConn[c].view # <<>>
           /\ v = [wsConn[c].view EXCEPT ![wsEvents[i].session] = wsEvents[i].version]
    BY DEF v, Ipc!Applied
  <2> HIDE DEF q
  <2>8. InRange(q)
    BY <1>1, <2>6 DEF InRange
  <2>9. Moves(c, q)
    BY <2>1, <2>2, <2>6, <2>7, <2>8 DEF Moves, Applies
  <2>. QED
    BY <1>6, <2>5, <2>6, <2>9 DEF Ipc!Forward
<1>7. CASE Ipc!Lag(c)
  <2> DEFINE q == [wsConn[c] EXCEPT !.seen = Len(wsEvents) - Cap, !.lagged = TRUE]
  <2>1. wsConn[c] \in Serving /\ wsConn[c].seen \in Nat /\ Len(wsEvents) - Cap \in Nat
    BY <1>1, <1>7, ServingFields DEF Ipc!Lag, Ipc!Behind
  <2>2. q \in Serving /\ q.lagged /\ q.seen = Len(wsEvents) - Cap
    BY <2>1 DEF Serving
  <2>3. InRange(q)
    BY <1>1, <2>2 DEF InRange
  <2>. QED
    BY <1>7, <2>2, <2>3 DEF Ipc!Lag, Moves
<1>. QED
  BY <1>2, <1>3, <1>4, <1>5, <1>6, <1>7 DEF ConnStep

\* Every step keeps the types.
LEMMA IpcNextTypes == IpcTypeInv /\ [Ipc!Next]_(Ipc!vars) => IpcTypeInv'
<1> SUFFICES ASSUME IpcTypeInv, [Ipc!Next]_(Ipc!vars) PROVE IpcTypeInv'
  OBVIOUS
<1>0. IpcTypes
  BY DEF IpcTypeInv
<1>1. ASSUME NEW w \in Writers, NEW s \in Sessions, Ipc!Write(w, s) PROVE IpcTypeInv'
  <2>1. [session |-> s, version |-> store[s] + 1] \in Change
    BY <1>0 DEF IpcTypes, Views, Change
  <2>2. IpcTypes'
    BY <1>0, <1>1, <2>1 DEF Ipc!Write, IpcTypes, Views
  <2>3. Writing' = Writing \cup {w} /\ w \notin Writing
    BY <1>0, <1>1, <2>1, ChangeIsChange DEF Ipc!Write, IpcTypes, Writing
  <2>4. Ipc!Written' = Ipc!Written + 1 /\ Ipc!Written \in Nat
    <3>1. Cardinality(Writing') = Cardinality(Writing) + 1
      BY <1>0, <2>3, WrittenIs, FS_AddElement
    <3>2. Ipc!Written' = Len(wsEvents') + Cardinality(Writing')
      BY <2>2, SameCardinality DEF Ipc!Written, Writing
    <3>. QED
      BY <1>0, <1>1, <3>1, <3>2, WrittenIs DEF Ipc!Write
  <2>5. \A t \in Sessions : store[t] \in Nat /\ store'[t] \in {store[t], store[t] + 1}
    BY <1>0, <1>1 DEF Ipc!Write, IpcTypes, Views
  <2>. QED
    BY <1>1, <2>2, <2>4, <2>5, IpcAssumption DEF IpcTypeInv, WritesCounted, Ipc!Write
<1>2. ASSUME NEW w \in Writers, Ipc!Broadcast(w) PROVE IpcTypeInv'
  <2>1. writer[w] \in Change /\ w \in Writing
    BY <1>0, <1>2 DEF Ipc!Broadcast, IpcTypes, Writing
  <2>2. /\ wsEvents' = Append(wsEvents, writer[w]) /\ wsEvents \in Seq(Change)
        /\ UNCHANGED <<store, wsConn>>
    BY <1>0, <1>2 DEF Ipc!Broadcast, IpcTypes
  <2>3. wsEvents' \in Seq(Change) /\ Len(wsEvents') = Len(wsEvents) + 1 /\ Len(wsEvents) \in Nat
    BY ONLY <2>1, <2>2
  <2>4. IpcTypes'
    BY <1>0, <1>2, <2>2, <2>3 DEF Ipc!Broadcast, IpcTypes
  <2>5. Writing' = Writing \ {w}
    BY <1>0, <1>2 DEF Ipc!Broadcast, IpcTypes, Writing
  <2>6. Ipc!Written' = Ipc!Written /\ Ipc!Written \in Nat
    <3>1. Cardinality(Writing') = Cardinality(Writing) - 1
      BY <1>0, <2>1, <2>5, WrittenIs, FS_RemoveElement
    <3>2. Ipc!Written' = Len(wsEvents') + Cardinality(Writing')
      BY <2>4, SameCardinality DEF Ipc!Written, Writing
    <3>. QED
      BY <1>0, <2>3, <3>1, <3>2, WrittenIs
  <2>. QED
    BY <2>2, <2>4, <2>6 DEF IpcTypeInv, WritesCounted
<1>3. ASSUME NEW c \in Conns, ConnStep(c) PROVE IpcTypeInv'
  BY <1>0, <1>3, ConnMoves, ConnKeeps DEF IpcTypeInv, IpcTypes, WritesCounted, Ipc!Written
<1>4. CASE UNCHANGED Ipc!vars
  BY <1>4 DEF Ipc!vars, IpcTypeInv, IpcTypes, WritesCounted, Ipc!Written
<1>. QED
  BY <1>1, <1>2, <1>3, <1>4 DEF Ipc!Next, ConnStep

\* The types of the connections follow.
LEMMA IpcTypeInvGives == IpcTypeInv => Ipc!TypeOK
<1> SUFFICES ASSUME IpcTypeInv PROVE Ipc!TypeOK
  OBVIOUS
<1>1. IpcTypes /\ Ipc!Written \in Nat /\ Len(wsEvents) <= Ipc!Written /\ Len(wsEvents) \in Nat
  BY WrittenIs DEF IpcTypeInv
<1>2. store \in [Sessions -> Ipc!Versions]
  BY <1>1, IpcAssumption DEF IpcTypeInv, IpcTypes, WritesCounted, Views, Ipc!Versions
<1>3. Len(wsEvents) <= MaxWrites
  BY <1>1, IpcAssumption DEF IpcTypeInv, WritesCounted
<1>4. \A c \in Conns : wsConn[c].pc \in {"closed", "auth", "subscribe", "serve", "send"}
  BY <1>1 DEF IpcTypes, Opening, Serving
<1>. QED
  BY <1>1, <1>2, <1>3, <1>4 DEF IpcTypes, Ipc!TypeOK

\* A change of session s that is written and not yet broadcast, and one that is
\* broadcast after the first n events.
Pending(s) == \E w \in Writers : writer[w] # Ipc!NoChange /\ writer[w].session = s
Coming(s, n) == \E j \in DOMAIN wsEvents : j > n /\ wsEvents[j].session = s

\* A change under way, and the last event of a session that has none, are what the
\* store has.
LastIsCurrent ==
    /\ \A w \in Writers : writer[w] # Ipc!NoChange => writer[w].version = store[writer[w].session]
    /\ \A i \in DOMAIN wsEvents :
          LET s == wsEvents[i].session
          IN  Pending(s) \/ Coming(s, i) \/ wsEvents[i].version = store[s]

\* What a client that never lagged does not know of a session is still to come.
Knows(q) ==
    q \in Serving /\ q.view # <<>> /\ ~q.lagged =>
        \A s \in Sessions : Pending(s) \/ Coming(s, q.seen) \/ q.view[s] = store[s]

ViewsComplete == \A c \in Conns : InRange(wsConn[c]) /\ Knows(wsConn[c])

IpcInv == IpcTypeInv /\ LastIsCurrent /\ ViewsComplete

\* The initial state satisfies the invariant.
LEMMA IpcInit == Ipc!Init => IpcInv
<1> SUFFICES ASSUME Ipc!Init PROVE IpcInv
  OBVIOUS
<1>1. \A c \in Conns : wsConn[c] \notin Serving
  BY DEF Ipc!Init, Ipc!Closed, Serving
<1>. QED
  BY <1>1, IpcInitTypes DEF Ipc!Init, IpcInv, LastIsCurrent, ViewsComplete, Knows, InRange

\* Every step preserves it, if the changes come one at a time.
LEMMA IpcNext ==
    ASSUME \A v, w \in Writers : v = w
    PROVE  IpcInv /\ [Ipc!Next]_(Ipc!vars) => IpcInv'
<1> SUFFICES ASSUME IpcInv, [Ipc!Next]_(Ipc!vars) PROVE IpcInv'
  OBVIOUS
<1>0. IpcTypeInv /\ IpcTypeInv' /\ IpcTypes /\ IpcTypes' /\ LastIsCurrent /\ ViewsComplete
  BY IpcNextTypes DEF IpcInv, IpcTypeInv
<1>1. ASSUME NEW w \in Writers, NEW s \in Sessions, Ipc!Write(w, s) PROVE IpcInv'
  <2>1. /\ writer'[w] = [session |-> s, version |-> store[s] + 1] /\ writer'[w] # Ipc!NoChange
        /\ writer[w] = Ipc!NoChange /\ UNCHANGED <<wsEvents, wsConn>>
    <3>1. [session |-> s, version |-> store[s] + 1] \in Change
      BY <1>0 DEF IpcTypes, Views, Change
    <3>. QED
      BY <1>0, <1>1, <3>1, ChangeIsChange DEF Ipc!Write, IpcTypes
  <2>2. store'[s] = store[s] + 1 /\ \A t \in Sessions : t # s => store'[t] = store[t]
    BY <1>0, <1>1 DEF Ipc!Write, IpcTypes, Views
  <2>3. \A t : Pending(t)' <=> t = s
    BY <2>1 DEF Pending
  <2>4. \A t : ~ Pending(t)
    BY <2>1 DEF Pending
  <2>5. \A t, n : Coming(t, n)' <=> Coming(t, n)
    BY <2>1 DEF Coming
  <2>6. \A i \in DOMAIN wsEvents : wsEvents[i].session \in Sessions
    BY <1>0, ChangeIsChange DEF IpcTypes
  <2>7. LastIsCurrent'
    <3>1. \A v \in Writers : writer'[v] # Ipc!NoChange => writer'[v].version = store'[writer'[v].session]
      BY <2>1, <2>2
    <3>2. \A i \in DOMAIN wsEvents :
             \/ wsEvents[i].session = s \/ Coming(wsEvents[i].session, i)
             \/ wsEvents[i].version = store'[wsEvents[i].session]
      BY <1>0, <2>2, <2>4, <2>6 DEF LastIsCurrent
    <3>. QED
      BY <2>1, <2>3, <2>5, <3>1, <3>2 DEF LastIsCurrent
  <2>8. ViewsComplete'
    BY <1>0, <2>1, <2>2, <2>3, <2>4, <2>5 DEF ViewsComplete, Knows, InRange
  <2>. QED
    BY <1>0, <2>7, <2>8 DEF IpcInv
<1>2. ASSUME NEW w \in Writers, Ipc!Broadcast(w) PROVE IpcInv'
  <2>1. /\ writer[w] \in Change /\ writer[w] # Ipc!NoChange /\ writer'[w] = Ipc!NoChange
        /\ wsEvents \in Seq(Change) /\ wsEvents' = Append(wsEvents, writer[w])
        /\ UNCHANGED <<store, wsConn>>
    BY <1>0, <1>2 DEF Ipc!Broadcast, IpcTypes
  <2>2. /\ Len(wsEvents) \in Nat /\ DOMAIN wsEvents = 1 .. Len(wsEvents)
        /\ DOMAIN wsEvents' = 1 .. Len(wsEvents) + 1
        /\ wsEvents'[Len(wsEvents) + 1] = writer[w]
        /\ \A i \in DOMAIN wsEvents : wsEvents'[i] = wsEvents[i]
    BY ONLY <2>1
  <2>3. \A t : ~ Pending(t)'
    BY <2>1 DEF Pending
  <2>4. PICK s : s = writer[w].session
    OBVIOUS
  <2>a. \A t : Pending(t) => t = s
    BY <2>1, <2>4 DEF Pending
  <2>5. \A n \in 0 .. Len(wsEvents) : Coming(s, n)'
    BY <2>2, <2>4 DEF Coming
  <2>6. \A t, n : Coming(t, n) => Coming(t, n)'
    BY <2>2 DEF Coming
  <2>7. LastIsCurrent'
    <3>1. \A v \in Writers : writer'[v] = Ipc!NoChange
      BY <2>1
    <3>2. ASSUME NEW i \in DOMAIN wsEvents, NEW t, t = wsEvents[i].session
          PROVE  Coming(t, i)' \/ wsEvents[i].version = store[t]
      <4>1. i \in 0 .. Len(wsEvents)
        BY <2>2
      <4>2. Pending(t) \/ Coming(t, i) \/ wsEvents[i].version = store[t]
        BY <1>0, <3>2 DEF LastIsCurrent
      <4>. QED
        BY <2>5, <2>6, <2>a, <4>1, <4>2
    <3>3. writer[w].version = store[writer[w].session]
      BY <1>0, <2>1 DEF LastIsCurrent
    <3>4. ASSUME NEW i \in DOMAIN wsEvents', NEW t, t = wsEvents'[i].session
          PROVE  Coming(t, i)' \/ wsEvents'[i].version = store[t]
      <4>1. CASE i \in DOMAIN wsEvents
        BY <2>2, <3>2, <3>4, <4>1
      <4>2. CASE i \notin DOMAIN wsEvents
        <5>1. i = Len(wsEvents) + 1
          BY <2>2, <4>2
        <5>. QED
          BY <2>2, <3>3, <3>4, <5>1
      <4>. QED
        BY <4>1, <4>2
    <3>. QED
      BY <2>1, <3>1, <3>4 DEF LastIsCurrent
  <2>8. ViewsComplete'
    <3> SUFFICES ASSUME NEW c \in Conns, wsConn[c] \in Serving, wsConn[c].view # <<>>,
                        ~wsConn[c].lagged, NEW t \in Sessions
                 PROVE  Coming(t, wsConn[c].seen)' \/ wsConn[c].view[t] = store[t]
      <4>1. \A c \in Conns : InRange(wsConn[c])'
        BY <1>0, <2>1, <2>2 DEF ViewsComplete, InRange, IpcTypes, Serving
      <4>. QED
        BY <2>1, <4>1 DEF ViewsComplete, Knows
    <3>1. Pending(t) \/ Coming(t, wsConn[c].seen) \/ wsConn[c].view[t] = store[t]
      BY <1>0 DEF ViewsComplete, Knows
    <3>2. PICK n \in 0 .. Len(wsEvents) : n = wsConn[c].seen
      BY <1>0, <2>2 DEF ViewsComplete, InRange, Serving
    <3>. QED
      BY <2>1, <2>5, <2>6, <2>a, <3>1, <3>2
  <2>. QED
    BY <1>0, <2>7, <2>8 DEF IpcInv
<1>3. ASSUME NEW c \in Conns, ConnStep(c) PROVE IpcInv'
  <2>1. UNCHANGED <<store, writer, wsEvents>>
    BY <1>0, <1>3, ConnMoves
  <2>2. PICK q \in Opening \cup Serving : Ipc!Goto(c, q) /\ Moves(c, q)
    BY <1>0, <1>3, ConnMoves
  <2>3. \A d \in Conns : wsConn'[d] = IF d = c THEN q ELSE wsConn[d]
    BY <1>0, <2>2, ConnKeeps
  <2>4. /\ \A t : Pending(t)' <=> Pending(t)
        /\ \A t, n : Coming(t, n)' <=> Coming(t, n)
    BY <2>1 DEF Pending, Coming
  <2>5. LastIsCurrent'
    BY <1>0, <2>1, <2>4 DEF LastIsCurrent
  <2>6. Knows(q)
    <3>1. CASE q \in Opening
      BY <3>1 DEF Opening, Serving, Knows
    <3>2. CASE q \in Serving /\ (q.view \in {<<>>, store} \/ q.lagged)
      BY <3>2 DEF Knows
    <3>3. CASE /\ q \in Serving /\ wsConn[c].pc = "send"
               /\ q.seen = wsConn[c].seen /\ q.lagged = wsConn[c].lagged /\ q.view = wsConn[c].view
      BY <1>0, <3>3, ServingFields DEF Knows, ViewsComplete
    <3>4. CASE q \in Serving /\ Applies(c, q)
      <4>1. PICK i \in DOMAIN wsEvents :
              /\ wsConn[c].pc = "serve" /\ i = wsConn[c].seen + 1 /\ q.seen = i
              /\ q.lagged = wsConn[c].lagged /\ wsConn[c].view # <<>>
              /\ q.view = [wsConn[c].view EXCEPT ![wsEvents[i].session] = wsEvents[i].version]
        BY <3>4 DEF Applies
      <4>2. wsConn[c] \in Serving /\ wsConn[c].view \in Views /\ wsConn[c].seen \in Nat
        BY <1>0, <4>1, ServingFields
      <4>3. wsEvents[i].session \in Sessions
        BY <1>0, ChangeIsChange DEF IpcTypes
      <4>4. \A t \in Sessions : q.view[t] = IF t = wsEvents[i].session THEN wsEvents[i].version
                                                                 ELSE wsConn[c].view[t]
        BY <4>1, <4>2, <4>3 DEF Views
      <4> SUFFICES ASSUME ~q.lagged, NEW t \in Sessions
                   PROVE  Pending(t) \/ Coming(t, i) \/ q.view[t] = store[t]
        BY <4>1 DEF Knows
      <4>5. CASE t = wsEvents[i].session
        BY <1>0, <4>4, <4>5 DEF LastIsCurrent
      <4>6. CASE t # wsEvents[i].session
        <5>1. Pending(t) \/ Coming(t, wsConn[c].seen) \/ wsConn[c].view[t] = store[t]
          BY <1>0, <4>1, <4>2 DEF ViewsComplete, Knows
        <5>2. Coming(t, wsConn[c].seen) => Coming(t, i)
          <6>1. \A j \in DOMAIN wsEvents : j \in Nat
            BY <1>0 DEF IpcTypes
          <6>. QED
            BY <4>1, <4>2, <4>6, <6>1 DEF Coming
        <5>. QED
          BY <4>4, <4>6, <5>1, <5>2
      <4>. QED
        BY <4>5, <4>6
    <3>. QED
      BY <2>2, <3>1, <3>2, <3>3, <3>4 DEF Moves
  <2>7. \A x : Knows(x) <=> Knows(x)'
    BY <2>1, <2>4 DEF Knows
  <2>8. ViewsComplete'
    <3>1. \A d \in Conns : InRange(wsConn[d])'
      BY <1>0, <2>1, <2>2, <2>3 DEF ViewsComplete, Moves, InRange
    <3>. QED
      BY <1>0, <2>3, <2>6, <2>7, <3>1 DEF ViewsComplete
  <2>. QED
    BY <1>0, <2>5, <2>8 DEF IpcInv
<1>4. CASE UNCHANGED Ipc!vars
  BY <1>0, <1>4 DEF Ipc!vars, IpcInv, LastIsCurrent, ViewsComplete, Knows, InRange, Pending, Coming
<1>. QED
  BY <1>1, <1>2, <1>3, <1>4 DEF Ipc!Next, ConnStep

\* The invariant says that a client that has caught up is current.
LEMMA IpcInvGives == IpcInv => Ipc!CaughtUpIsCurrent
<1> SUFFICES ASSUME IpcInv, NEW c \in Conns, wsConn[c].pc = "serve", wsConn[c].view # <<>>,
                    Ipc!Behind(c) = 0, ~wsConn[c].lagged,
                    \A w \in Writers : writer[w] = Ipc!NoChange
             PROVE  wsConn[c].view = store
  BY DEF Ipc!CaughtUpIsCurrent
<1>0. IpcTypes
  BY DEF IpcInv, IpcTypeInv
<1>1. wsConn[c] \in Serving /\ wsConn[c].view \in Views /\ wsConn[c].seen \in Nat /\ store \in Views
  BY <1>0, ServingFields DEF IpcTypes
<1>2. Len(wsEvents) = wsConn[c].seen /\ DOMAIN wsEvents = 1 .. Len(wsEvents)
  BY <1>0, <1>1 DEF IpcTypes, Ipc!Behind
<1>3. \A s \in Sessions : ~ Coming(s, wsConn[c].seen) /\ ~ Pending(s)
  BY <1>1, <1>2 DEF Coming, Pending
<1>4. \A s \in Sessions : wsConn[c].view[s] = store[s]
  BY <1>1, <1>3 DEF IpcInv, ViewsComplete, Knows
<1>. QED
  BY <1>1, <1>4 DEF Views

-----------------------------------------------------------------------------
(***************************************************************************)
(* The rate limits of the WebSocket server                                 *)
(***************************************************************************)

RemoteTypes ==
    /\ minute \in Limits!Times
    /\ stamps \subseteq {c \in RemoteConns : remote[c].used}
    /\ remote \in [RemoteConns -> {Limits!Unused} \cup Limits!Used]

\* Nothing happened later than now.
RemotePast ==
    \A c \in RemoteConns : remote[c].used =>
        /\ remote[c].at <= minute /\ remote[c].start <= minute
        /\ \A i \in DOMAIN remote[c].calls : remote[c].calls[i] <= minute

\* The limiter holds the instant of every connection of the last minute.
StampsComplete ==
    \A c \in RemoteConns :
        remote[c].used /\ remote[c].at > minute - RpcWindow => c \in stamps

ConnsInLimit == \A t \in Limits!Times : Cardinality(Limits!Admitted(t)) <= ConnLimit

InWindow(calls, start) == {i \in DOMAIN calls : calls[i] >= start}
Before(calls, start) == {i \in DOMAIN calls : calls[i] \in start - RpcWindow + 1 .. start - 1}

\* The RPCs of the present window are counted, those of the minute before it were,
\* and none was dispatched after the window was over.
RpcsInLimit(q) ==
    /\ \A i \in DOMAIN q.calls : q.calls[i] < q.start + RpcWindow
    /\ Cardinality(InWindow(q.calls, q.start)) <= q.count
    /\ Cardinality(InWindow(q.calls, q.start)) <= RpcLimit
    /\ Cardinality(Before(q.calls, q.start)) <= RpcLimit
    /\ \A t \in Limits!Times : Cardinality(Limits!Dispatched(q.calls, t)) <= 2 * RpcLimit

RemoteInv ==
    /\ RemoteTypes /\ RemotePast /\ StampsComplete /\ ConnsInLimit
    /\ \A c \in RemoteConns : remote[c].used => RpcsInLimit(remote[c])

LEMMA UsedFields ==
    /\ Limits!Unused.used = FALSE
    /\ \A q \in Limits!Used :
         /\ q.used = TRUE /\ q.at \in Limits!Times /\ q.start \in Limits!Times
         /\ q.count \in Nat /\ q.calls \in Seq(Limits!Times)
BY DEF Limits!Used, Limits!Unused

LEMMA UsedCount ==
    ASSUME NEW q \in Limits!Used, NEW v \in Nat, NEW r, r = [q EXCEPT !.count = v]
    PROVE  r \in Limits!Used /\ r.count = v /\ r.at = q.at /\ r.start = q.start /\ r.calls = q.calls
<1> DEFINE S == Seq(Limits!Times)
           T == Limits!Times
<1>1. Limits!Used = [used : {TRUE}, at : T, count : Nat, start : T, calls : S]
  BY DEF Limits!Used
<1>2. v \in Nat
  OBVIOUS
<1> HIDE DEF S, T
<1>. QED
  BY <1>1, <1>2

LEMMA UsedStart ==
    ASSUME NEW q \in Limits!Used, NEW v \in Limits!Times, NEW r, r = [q EXCEPT !.start = v]
    PROVE  r \in Limits!Used /\ r.start = v /\ r.at = q.at /\ r.count = q.count /\ r.calls = q.calls
<1> DEFINE S == Seq(Limits!Times)
           T == Limits!Times
<1>1. Limits!Used = [used : {TRUE}, at : T, count : Nat, start : T, calls : S]
  BY DEF Limits!Used
<1>2. v \in T
  OBVIOUS
<1> HIDE DEF S, T
<1>. QED
  BY <1>1, <1>2

LEMMA UsedCalls ==
    ASSUME NEW q \in Limits!Used, NEW v \in Seq(Limits!Times), NEW r, r = [q EXCEPT !.calls = v]
    PROVE  r \in Limits!Used /\ r.calls = v /\ r.at = q.at /\ r.count = q.count /\ r.start = q.start
<1> DEFINE S == Seq(Limits!Times)
           T == Limits!Times
<1>1. Limits!Used = [used : {TRUE}, at : T, count : Nat, start : T, calls : S]
  BY DEF Limits!Used
<1>2. v \in S
  OBVIOUS
<1> HIDE DEF S, T
<1>. QED
  BY <1>1, <1>2

LEMMA RemoteInit == Limits!Init => RemoteInv
<1> SUFFICES ASSUME Limits!Init PROVE RemoteInv
  OBVIOUS
<1>1. \A c \in RemoteConns : remote[c] = Limits!Unused /\ remote[c].used = FALSE
  BY UsedFields DEF Limits!Init
<1>2. RemoteTypes
  BY <1>1, LimitsAssumption DEF Limits!Init, RemoteTypes, Limits!Times
<1>3. \A t \in Limits!Times : Limits!Admitted(t) = {}
  BY <1>1 DEF Limits!Admitted
<1>4. ConnsInLimit
  BY <1>3, FS_EmptySet, LimitsAssumption DEF ConnsInLimit
<1>. QED
  BY <1>1, <1>2, <1>4 DEF RemoteInv, RemotePast, StampsComplete

\* The clock moves on: what was in the last minute may leave it.
LEMMA RemoteTick == RemoteInv /\ Limits!Tick => RemoteInv'
<1> SUFFICES ASSUME RemoteInv, Limits!Tick PROVE RemoteInv'
  OBVIOUS
<1>1. /\ remote' = remote /\ stamps' = stamps /\ minute' = minute + 1
      /\ minute' \in Limits!Times /\ minute \in Nat /\ RpcWindow \in Nat
  BY LimitsAssumption DEF Limits!Tick, RemoteInv, RemoteTypes, Limits!Times
<1>2. \A c \in RemoteConns : remote[c].used =>
        /\ remote[c] \in Limits!Used /\ remote[c].at \in Nat /\ remote[c].start \in Nat
        /\ \A i \in DOMAIN remote[c].calls : remote[c].calls[i] \in Nat
  <2> SUFFICES ASSUME NEW c \in RemoteConns, remote[c].used
               PROVE  /\ remote[c] \in Limits!Used /\ remote[c].at \in Nat /\ remote[c].start \in Nat
                      /\ \A i \in DOMAIN remote[c].calls : remote[c].calls[i] \in Nat
    OBVIOUS
  <2>1. remote[c] \in Limits!Used
    BY UsedFields DEF RemoteInv, RemoteTypes
  <2>2. remote[c].calls \in Seq(Limits!Times) /\ remote[c].at \in Nat /\ remote[c].start \in Nat
    BY <2>1, UsedFields, LimitsAssumption DEF Limits!Times
  <2>3. \A i \in DOMAIN remote[c].calls : remote[c].calls[i] \in Nat
    BY <2>2, LimitsAssumption DEF Limits!Times
  <2>. QED
    BY <2>1, <2>2, <2>3
<1>3. RemoteTypes'
  BY <1>1 DEF RemoteInv, RemoteTypes
<1>4. RemotePast'
  BY <1>1, <1>2 DEF RemoteInv, RemotePast
<1>5. StampsComplete'
  BY <1>1, <1>2 DEF RemoteInv, StampsComplete
<1>6. ConnsInLimit'
  BY <1>1 DEF RemoteInv, ConnsInLimit, Limits!Admitted
<1>. QED
  BY <1>1, <1>3, <1>4, <1>5, <1>6 DEF RemoteInv

\* What is known of a connection in use.
LEMMA RemoteFacts ==
    ASSUME RemoteInv, NEW c \in RemoteConns, remote[c].used
    PROVE  /\ remote[c] \in Limits!Used
           /\ remote[c].at \in Nat /\ remote[c].start \in Nat /\ remote[c].count \in Nat
           /\ remote[c].calls \in Seq(Limits!Times)
           /\ DOMAIN remote[c].calls = 1 .. Len(remote[c].calls) /\ Len(remote[c].calls) \in Nat
           /\ \A i \in DOMAIN remote[c].calls : remote[c].calls[i] \in Nat
<1>1. remote[c] \in Limits!Used
  BY UsedFields DEF RemoteInv, RemoteTypes
<1>2. remote[c].calls \in Seq(Limits!Times) /\ remote[c].at \in Nat /\ remote[c].start \in Nat
      /\ remote[c].count \in Nat
  BY <1>1, UsedFields, LimitsAssumption DEF Limits!Times
<1>3. /\ DOMAIN remote[c].calls = 1 .. Len(remote[c].calls) /\ Len(remote[c].calls) \in Nat
      /\ \A i \in DOMAIN remote[c].calls : remote[c].calls[i] \in Nat
  BY <1>2, LimitsAssumption DEF Limits!Times
<1>. QED
  BY <1>1, <1>2, <1>3

\* A connection is admitted or dropped.
LEMMA RemoteConnect ==
    ASSUME RemoteInv, NEW c \in RemoteConns, Limits!Connect(c)
    PROVE  RemoteInv'
<1>0. /\ minute \in Nat /\ minute \in Limits!Times /\ RpcWindow \in Nat \ {0} /\ minute' = minute
      /\ ConnLimit \in Nat /\ RpcLimit \in Nat /\ ~ remote[c].used
  BY LimitsAssumption DEF Limits!Connect, RemoteInv, RemoteTypes, Limits!Times
<1>1. /\ IsFiniteSet(Limits!Retained)
      /\ Limits!Retained \subseteq RemoteConns /\ Limits!Retained \subseteq stamps
      /\ c \notin Limits!Retained
  <2>1. Limits!Retained \subseteq RemoteConns /\ Limits!Retained \subseteq stamps /\ c \notin Limits!Retained
    BY <1>0 DEF Limits!Retained, RemoteInv, RemoteTypes
  <2>. QED
    BY <2>1, FS_Subset, LimitsAssumption
<1>2. \A d \in RemoteConns :
        remote[d].used /\ remote[d].at > minute - RpcWindow => d \in Limits!Retained
  BY DEF RemoteInv, StampsComplete, Limits!Retained
<1>3. CASE Cardinality(Limits!Retained) >= ConnLimit
  <2>1. stamps' = Limits!Retained /\ remote' = remote
    BY <1>3, SameCardinality DEF Limits!Connect
  <2>2. RemoteTypes'
    BY <1>0, <1>1, <2>1 DEF RemoteInv, RemoteTypes
  <2>3. RemotePast'
    BY <1>0, <2>1 DEF RemoteInv, RemotePast
  <2>4. StampsComplete'
    BY <1>0, <1>2, <2>1 DEF StampsComplete
  <2>5. ConnsInLimit'
    BY <2>1 DEF RemoteInv, ConnsInLimit, Limits!Admitted
  <2>. QED
    BY <2>1, <2>2, <2>3, <2>4, <2>5 DEF RemoteInv
<1>4. CASE Cardinality(Limits!Retained) < ConnLimit
  <2> DEFINE q == [used |-> TRUE, at |-> minute, count |-> 0, start |-> minute, calls |-> <<>>]
  <2>1. stamps' = Limits!Retained \cup {c} /\ remote' = [remote EXCEPT ![c] = q]
    BY <1>0, <1>1, <1>4, SameCardinality, FS_CardinalityType DEF Limits!Connect
  <2>2. /\ q \in Limits!Used /\ q.used = TRUE /\ q.at = minute /\ q.count = 0
        /\ q.start = minute /\ q.calls = <<>>
    BY <1>0 DEF Limits!Used
  <2> HIDE DEF q
  <2>3. remote'[c] = q /\ \A d \in RemoteConns : d # c => remote'[d] = remote[d]
    BY <2>1 DEF RemoteInv, RemoteTypes
  <2>4. RemoteTypes'
    <3>1. remote' \in [RemoteConns -> {Limits!Unused} \cup Limits!Used]
      BY <2>1, <2>2 DEF RemoteInv, RemoteTypes
    <3>2. \A d \in Limits!Retained : remote'[d].used
      BY <1>1, <2>3 DEF RemoteInv, RemoteTypes
    <3>. QED
      BY <1>0, <1>1, <2>1, <2>2, <2>3, <3>1, <3>2 DEF RemoteTypes
  <2>5. RemotePast'
    BY <1>0, <2>2, <2>3 DEF RemoteInv, RemotePast
  <2>6. StampsComplete'
    BY <1>0, <1>2, <2>1, <2>3 DEF StampsComplete
  <2>7. ConnsInLimit'
    <3> SUFFICES ASSUME NEW t \in Limits!Times
                 PROVE  Cardinality(Limits!Admitted(t)') <= ConnLimit
      BY DEF ConnsInLimit
    <3>0. t \in Nat
      BY LimitsAssumption DEF Limits!Times
    <3>1. CASE t < minute
      <4>1. Limits!Admitted(t)' = Limits!Admitted(t)
        BY <1>0, <2>2, <2>3, <3>0, <3>1 DEF Limits!Admitted
      <4>. QED
        BY <4>1 DEF RemoteInv, ConnsInLimit
    <3>2. CASE t >= minute
      <4>1. Limits!Admitted(t)' \subseteq Limits!Retained \cup {c}
        <5> SUFFICES ASSUME NEW d \in RemoteConns, d # c, remote[d].used,
                            remote[d].at \in t - RpcWindow + 1 .. t
                     PROVE  d \in Limits!Retained
          BY <2>3 DEF Limits!Admitted
        <5>1. remote[d].at \in Nat
          BY RemoteFacts
        <5>. QED
          BY <1>0, <1>2, <3>0, <3>2, <5>1
      <4>2. IsFiniteSet(Limits!Retained \cup {c})
            /\ Cardinality(Limits!Retained \cup {c}) = Cardinality(Limits!Retained) + 1
        BY <1>1, FS_AddElement
      <4>3. Cardinality(Limits!Admitted(t)') <= Cardinality(Limits!Retained \cup {c})
            /\ IsFiniteSet(Limits!Admitted(t)')
        BY <4>1, <4>2, FS_Subset
      <4>. QED
        BY <1>0, <1>1, <1>4, <4>2, <4>3, FS_CardinalityType
    <3>. QED
      BY <1>0, <3>0, <3>1, <3>2
  <2>8. RpcsInLimit(q)
    <3>1. DOMAIN q.calls = {}
      BY <2>2
    <3>2. /\ InWindow(q.calls, q.start) = {} /\ Before(q.calls, q.start) = {}
          /\ \A t \in Limits!Times : Limits!Dispatched(q.calls, t) = {}
      BY <3>1 DEF InWindow, Before, Limits!Dispatched
    <3>3. Cardinality({}) = 0 /\ 0 <= RpcLimit /\ 0 <= 2 * RpcLimit
      BY <1>0, FS_EmptySet
    <3>4. q.count = 0
      BY <2>2
    <3>. QED
      BY <3>1, <3>2, <3>3, <3>4 DEF RpcsInLimit
  <2>9. \A d \in RemoteConns : remote'[d].used => RpcsInLimit(remote'[d])
    BY <2>3, <2>8 DEF RemoteInv
  <2>. QED
    BY <2>4, <2>5, <2>6, <2>7, <2>9 DEF RemoteInv
<1>. QED
  BY <1>0, <1>1, <1>3, <1>4, FS_CardinalityType

\* check counts an RPC: the window goes on or, when it is over, starts again now.
LEMMA RpcCounted ==
    ASSUME NEW q \in Limits!Used, NEW n \in Limits!Times, RpcsInLimit(q), q.start <= n,
           NEW r \in Limits!Used, r.calls = q.calls,
           \/ n - q.start < RpcWindow /\ r.start = q.start /\ r.count = q.count + 1
           \/ n - q.start >= RpcWindow /\ r.start = n /\ r.count = 1
    PROVE  /\ RpcsInLimit(r) /\ r.start <= n /\ n < r.start + RpcWindow
           /\ Cardinality(InWindow(r.calls, r.start)) < r.count
<1>0. /\ n \in Nat /\ RpcWindow \in Nat \ {0} /\ RpcLimit \in Nat
      /\ q.start \in Nat /\ q.count \in Nat /\ q.calls \in Seq(Limits!Times)
      /\ DOMAIN q.calls = 1 .. Len(q.calls) /\ Len(q.calls) \in Nat
      /\ \A i \in DOMAIN q.calls : q.calls[i] \in Nat
  <2>1. q.start \in Limits!Times /\ q.count \in Nat /\ q.calls \in Seq(Limits!Times)
    BY UsedFields
  <2>. QED
    BY <2>1, LimitsAssumption DEF Limits!Times
<1>1. \A S \in SUBSET DOMAIN q.calls : IsFiniteSet(S) /\ Cardinality(S) \in Nat
  <2>1. IsFiniteSet(1 .. Len(q.calls))
    BY <1>0, FS_Interval
  <2>. QED
    BY <1>0, <2>1, FS_Subset, FS_CardinalityType
<1>2. CASE n - q.start < RpcWindow /\ r.start = q.start /\ r.count = q.count + 1
  <2>1. Cardinality(InWindow(q.calls, q.start)) \in Nat
    BY <1>1 DEF InWindow
  <2>2. Cardinality(InWindow(r.calls, r.start)) < r.count
    BY <1>0, <1>2, <2>1 DEF RpcsInLimit
  <2>. QED
    BY <1>0, <1>2, <2>1, <2>2 DEF RpcsInLimit
<1>3. CASE n - q.start >= RpcWindow /\ r.start = n /\ r.count = 1
  <2>1. InWindow(r.calls, r.start) = {}
    BY <1>0, <1>3 DEF RpcsInLimit, InWindow
  <2>2. Cardinality(InWindow(r.calls, r.start)) = 0
    BY <2>1, FS_EmptySet
  <2>3. Before(r.calls, r.start) \subseteq InWindow(q.calls, q.start)
    BY <1>0, <1>3 DEF Before, InWindow
  <2>4. IsFiniteSet(InWindow(q.calls, q.start)) /\ Cardinality(InWindow(q.calls, q.start)) \in Nat
    BY <1>1 DEF InWindow
  <2>5. /\ Cardinality(Before(r.calls, r.start)) <= Cardinality(InWindow(q.calls, q.start))
        /\ Cardinality(Before(r.calls, r.start)) \in Nat
    BY <2>3, <2>4, FS_Subset, FS_CardinalityType
  <2>6. Cardinality(Before(r.calls, r.start)) <= RpcLimit
    BY <1>0, <2>4, <2>5 DEF RpcsInLimit
  <2>7. \A i \in DOMAIN r.calls : r.calls[i] < r.start + RpcWindow
    BY <1>0, <1>3 DEF RpcsInLimit
  <2>. QED
    BY <1>0, <1>3, <2>2, <2>6, <2>7 DEF RpcsInLimit
<1>. QED
  BY <1>2, <1>3

\* An RPC that is counted and in the limit is dispatched.
LEMMA RpcDispatched ==
    ASSUME NEW q \in Limits!Used, NEW n \in Limits!Times, RpcsInLimit(q),
           q.start <= n, n < q.start + RpcWindow,
           \A i \in DOMAIN q.calls : q.calls[i] <= n,
           Cardinality(InWindow(q.calls, q.start)) < q.count, q.count <= RpcLimit,
           NEW r \in Limits!Used, r.start = q.start, r.count = q.count, r.calls = Append(q.calls, n)
    PROVE  RpcsInLimit(r)
<1> DEFINE k == Len(q.calls) + 1
<1>0. /\ n \in Nat /\ RpcWindow \in Nat \ {0} /\ RpcLimit \in Nat
      /\ q.start \in Nat /\ q.count \in Nat /\ q.calls \in Seq(Limits!Times)
      /\ DOMAIN q.calls = 1 .. Len(q.calls) /\ Len(q.calls) \in Nat
      /\ \A i \in DOMAIN q.calls : q.calls[i] \in Nat
  <2>1. q.start \in Limits!Times /\ q.count \in Nat /\ q.calls \in Seq(Limits!Times)
    BY UsedFields
  <2>. QED
    BY <2>1, LimitsAssumption DEF Limits!Times
<1>1. \A S \in SUBSET DOMAIN q.calls : IsFiniteSet(S) /\ Cardinality(S) \in Nat
  <2>1. IsFiniteSet(1 .. Len(q.calls))
    BY <1>0, FS_Interval
  <2>. QED
    BY <1>0, <2>1, FS_Subset, FS_CardinalityType
<1>2. /\ DOMAIN r.calls = DOMAIN q.calls \cup {k} /\ k \notin DOMAIN q.calls /\ r.calls[k] = n
      /\ \A i \in DOMAIN q.calls : r.calls[i] = q.calls[i]
  BY <1>0
<1> HIDE DEF k
<1>3. InWindow(r.calls, r.start) = InWindow(q.calls, q.start) \cup {k}
  BY <1>0, <1>2 DEF InWindow
<1>4. /\ IsFiniteSet(InWindow(q.calls, q.start)) /\ Cardinality(InWindow(q.calls, q.start)) \in Nat
      /\ IsFiniteSet(Before(q.calls, q.start)) /\ Cardinality(Before(q.calls, q.start)) \in Nat
      /\ k \notin InWindow(q.calls, q.start)
  BY <1>1, <1>2 DEF InWindow, Before
<1>5. /\ Cardinality(InWindow(r.calls, r.start)) = Cardinality(InWindow(q.calls, q.start)) + 1
      /\ IsFiniteSet(InWindow(r.calls, r.start))
  BY <1>3, <1>4, FS_AddElement
<1>6. Cardinality(InWindow(r.calls, r.start)) <= r.count /\ Cardinality(InWindow(r.calls, r.start)) <= RpcLimit
  BY <1>0, <1>4, <1>5
<1>7. Before(r.calls, r.start) = Before(q.calls, q.start)
  BY <1>0, <1>2 DEF Before
<1>8. \A i \in DOMAIN r.calls : r.calls[i] < r.start + RpcWindow
  BY <1>0, <1>2 DEF RpcsInLimit
<1>9. ASSUME NEW t \in Limits!Times
      PROVE  Cardinality(Limits!Dispatched(r.calls, t)) <= 2 * RpcLimit
  <2>0. t \in Nat
    BY LimitsAssumption DEF Limits!Times
  <2>1. CASE t < n
    <3>1. Limits!Dispatched(r.calls, t) = Limits!Dispatched(q.calls, t)
      BY <1>0, <1>2, <2>0, <2>1 DEF Limits!Dispatched
    <3>. QED
      BY <3>1 DEF RpcsInLimit
  <2>2. CASE t >= n
    <3> DEFINE B == Before(q.calls, q.start)
               W == InWindow(r.calls, r.start)
    <3>1. Limits!Dispatched(r.calls, t) \subseteq B \cup W
      <4> SUFFICES ASSUME NEW i \in DOMAIN r.calls, r.calls[i] \in t - RpcWindow + 1 .. t, i \notin W
                   PROVE  i \in B
        BY DEF Limits!Dispatched
      <4>1. r.calls[i] \in Nat /\ r.calls[i] < q.start
        BY <1>0, <1>2, SMTT(60) DEF InWindow
      <4>2. i \in DOMAIN q.calls /\ q.calls[i] = r.calls[i]
        BY <1>0, <1>2, <4>1
      <4>3. q.calls[i] \in q.start - RpcWindow + 1 .. q.start - 1
        BY <1>0, <2>0, <2>2, <4>1, <4>2, SMTT(60)
      <4>. QED
        BY <4>2, <4>3 DEF Before
    <3>2. /\ Cardinality(B) <= RpcLimit /\ Cardinality(B) \in Nat /\ IsFiniteSet(B)
          /\ Cardinality(W) <= RpcLimit /\ Cardinality(W) \in Nat /\ IsFiniteSet(W)
      BY <1>4, <1>5, <1>6 DEF RpcsInLimit
    <3> HIDE DEF B, W
    <3>3. IsFiniteSet(B \cup W) /\ Cardinality(B \cup W) = Cardinality(B) + Cardinality(W) - Cardinality(B \cap W)
      BY <3>2, FS_Union
    <3>4. Cardinality(B \cap W) \in Nat
      BY <3>2, FS_Intersection, FS_CardinalityType
    <3>5. /\ Cardinality(Limits!Dispatched(r.calls, t)) <= Cardinality(B \cup W)
          /\ Cardinality(Limits!Dispatched(r.calls, t)) \in Nat
      BY <3>1, <3>3, FS_Subset, FS_CardinalityType
    <3>. QED
      BY <1>0, <3>2, <3>3, <3>4, <3>5
  <2>. QED
    BY <1>0, <2>0, <2>1, <2>2
<1>. QED
  BY <1>6, <1>7, <1>8, <1>9 DEF RpcsInLimit

\* An RPC arrives on a connection: it is counted, and dispatched or refused.
LEMMA RemoteRpc ==
    ASSUME RemoteInv, NEW c \in RemoteConns, Limits!Rpc(c)
    PROVE  RemoteInv'
<1> DEFINE q == remote[c]
           p == Limits!Counted(q)
           r == IF p.count <= RpcLimit THEN [p EXCEPT !.calls = Append(@, minute)] ELSE p
<1>0. /\ minute \in Nat /\ minute \in Limits!Times /\ RpcWindow \in Nat \ {0} /\ RpcLimit \in Nat
      /\ minute' = minute /\ stamps' = stamps /\ q.used
      /\ remote' = [remote EXCEPT ![c] = r]
  BY LimitsAssumption DEF Limits!Rpc, RemoteInv, RemoteTypes, Limits!Times
<1>1. /\ q \in Limits!Used /\ q.start \in Nat /\ q.count \in Nat /\ q.calls \in Seq(Limits!Times)
      /\ q.start <= minute /\ q.at <= minute /\ RpcsInLimit(q)
      /\ \A i \in DOMAIN q.calls : q.calls[i] <= minute
  BY <1>0, RemoteFacts DEF RemoteInv, RemotePast
<1>2. /\ p \in Limits!Used /\ p.calls = q.calls /\ p.at = q.at
      /\ \/ minute - q.start < RpcWindow /\ p.start = q.start /\ p.count = q.count + 1
         \/ minute - q.start >= RpcWindow /\ p.start = minute /\ p.count = 1
  <2> HIDE DEF q
  <2>1. CASE minute - q.start >= RpcWindow
    <3> DEFINE o == [q EXCEPT !.count = 1]
    <3>1. p = [o EXCEPT !.start = minute]
      BY <2>1 DEF Limits!Counted
    <3>0. PICK v \in Nat : v = 1 /\ o = [q EXCEPT !.count = v]
      OBVIOUS
    <3> HIDE DEF o, p
    <3>2. o \in Limits!Used /\ o.count = 1 /\ o.calls = q.calls /\ o.at = q.at
      <4>1. q \in Limits!Used
        BY <1>1
      <4>2. o \in Limits!Used /\ o.count = v /\ o.calls = q.calls /\ o.at = q.at
        BY ONLY <3>0, <4>1, UsedCount
      <4>. QED
        BY <3>0, <4>2
    <3>3. p \in Limits!Used /\ p.start = minute /\ p.at = o.at /\ p.count = o.count /\ p.calls = o.calls
      BY <1>0, <3>1, <3>2, UsedStart
    <3>. QED
      BY <2>1, <3>2, <3>3
  <2>2. CASE minute - q.start < RpcWindow
    <3>1. p = [q EXCEPT !.count = q.count + 1]
      BY <1>0, <1>1, <2>2 DEF Limits!Counted
    <3>. QED
      <4> HIDE DEF p
      <4>1. q.count + 1 \in Nat
        BY <1>1
      <4>2. p \in Limits!Used /\ p.count = q.count + 1 /\ p.at = q.at /\ p.start = q.start /\ p.calls = q.calls
        BY <1>1, <3>1, <4>1, UsedCount
      <4>. QED
        BY <2>2, <4>2
  <2>. QED
    BY <1>0, <1>1, <2>1, <2>2
<1> HIDE DEF p
<1>3. /\ RpcsInLimit(p) /\ p.start <= minute /\ minute < p.start + RpcWindow
      /\ Cardinality(InWindow(p.calls, p.start)) < p.count
  BY <1>0, <1>1, <1>2, RpcCounted
<1>4. /\ r \in Limits!Used /\ r.used = TRUE /\ r.at = q.at /\ r.start = p.start /\ r.count = p.count
      /\ IF p.count <= RpcLimit THEN r.calls = Append(q.calls, minute) ELSE r = p
  <2>1. CASE p.count <= RpcLimit
    <3>1. r = [p EXCEPT !.calls = Append(q.calls, minute)]
      BY <1>2, <2>1
    <3>2. Append(q.calls, minute) \in Seq(Limits!Times)
      BY <1>0, <1>1
    <3>. QED
      <4> HIDE DEF r
      <4>1. /\ r \in Limits!Used /\ r.calls = Append(q.calls, minute)
            /\ r.at = p.at /\ r.count = p.count /\ r.start = p.start
        <5>1. p \in Limits!Used
          BY <1>2
        <5>2. PICK v : v = Append(q.calls, minute)
          OBVIOUS
        <5>3. v \in Seq(Limits!Times) /\ r = [p EXCEPT !.calls = v]
          BY <3>1, <3>2, <5>2
        <5> HIDE DEF p
        <5>4. /\ r \in Limits!Used /\ r.calls = v
              /\ r.at = p.at /\ r.count = p.count /\ r.start = p.start
          BY ONLY <5>1, <5>3, UsedCalls
        <5> QED
          BY ONLY <5>2, <5>4
      <4>. QED
        BY <1>2, <2>1, <4>1, UsedFields
  <2>2. CASE ~ (p.count <= RpcLimit)
    BY <1>2, <2>2, UsedFields
  <2>. QED
    BY <2>1, <2>2
<1> HIDE DEF r
<1>5. RpcsInLimit(r)
  <2>1. CASE p.count <= RpcLimit
    BY <1>0, <1>1, <1>2, <1>3, <1>4, <2>1, RpcDispatched
  <2>2. CASE ~ (p.count <= RpcLimit)
    BY <1>3, <1>4, <2>2
  <2>. QED
    BY <2>1, <2>2
<1>6. \A i \in DOMAIN r.calls : r.calls[i] <= minute
  <2>1. CASE r.calls = Append(q.calls, minute)
    <3>1. ASSUME NEW i \in DOMAIN r.calls PROVE r.calls[i] = minute \/ (i \in DOMAIN q.calls /\ r.calls[i] = q.calls[i])
      BY <1>1, <2>1
    <3>. QED
      BY <1>0, <1>1, <3>1
  <2>2. CASE r.calls = q.calls
    BY <1>1, <2>2
  <2>. QED
    BY <1>2, <1>4, <2>1, <2>2
<1>7. remote'[c] = r /\ \A d \in RemoteConns : d # c => remote'[d] = remote[d]
  BY <1>0 DEF RemoteInv, RemoteTypes
<1>8. \A d \in RemoteConns : remote'[d].used = remote[d].used /\ (remote[d].used => remote'[d].at = remote[d].at)
  <2>1. q.used = TRUE
    BY <1>1, UsedFields
  <2>. QED
    BY <1>4, <1>7, <2>1
<1>9. RemoteTypes'
  <2>1. remote' \in [RemoteConns -> {Limits!Unused} \cup Limits!Used]
    BY <1>0, <1>4 DEF RemoteInv, RemoteTypes
  <2>. QED
    BY <1>0, <1>8, <2>1 DEF RemoteInv, RemoteTypes
<1>10. RemotePast'
  BY <1>0, <1>1, <1>3, <1>4, <1>6, <1>7 DEF RemoteInv, RemotePast
<1>11. StampsComplete'
  BY <1>0, <1>8 DEF RemoteInv, StampsComplete
<1>12. ConnsInLimit'
  <2>1. \A t \in Limits!Times : Limits!Admitted(t)' = Limits!Admitted(t)
    BY <1>8 DEF Limits!Admitted
  <2>. QED
    BY <2>1 DEF RemoteInv, ConnsInLimit
<1>13. \A d \in RemoteConns : remote'[d].used => RpcsInLimit(remote'[d])
  BY <1>5, <1>7 DEF RemoteInv
<1>. QED
  BY <1>9, <1>10, <1>11, <1>12, <1>13 DEF RemoteInv

\* Every step keeps the invariant, and the invariant says what the module promises.
LEMMA RemoteNext == RemoteInv /\ [Limits!Next]_(Limits!vars) => RemoteInv'
<1>1. ASSUME RemoteInv, UNCHANGED Limits!vars PROVE RemoteInv'
  BY <1>1 DEF Limits!vars, RemoteInv, RemoteTypes, RemotePast, StampsComplete, ConnsInLimit, Limits!Admitted
<1>. QED
  BY <1>1, RemoteTick, RemoteConnect, RemoteRpc DEF Limits!Next

LEMMA RemoteInvGives == RemoteInv => Limits!TypeOK /\ Limits!RatesHold
<1> SUFFICES ASSUME RemoteInv PROVE Limits!TypeOK /\ Limits!RatesHold
  OBVIOUS
<1>1. Limits!TypeOK
  BY DEF RemoteInv, RemoteTypes, Limits!TypeOK
<1>2. Limits!RatesHold
  BY SameCardinality DEF RemoteInv, ConnsInLimit, RpcsInLimit, Limits!RatesHold
<1>. QED
  BY <1>1, <1>2

-----------------------------------------------------------------------------
(***************************************************************************)
(* The gates of the public API                                             *)
(***************************************************************************)

GateTimes == Gates!Times
GateWs == Gates!Workspaces

GateReq ==
    [pc : {"idle", "lookup", "create"}]
        \cup [pc : {"quota", "trust", "clock"}, w : GateWs]
        \cup [pc : {"upsert"}, w : GateWs, day : GateTimes]
        \cup [pc : {"registry", "found"}, w : GateWs, asked : GateTimes]
        \cup [pc : {"rate"}, w : GateWs, at : GateTimes]

GateTypes ==
    /\ now \in GateTimes
    /\ ws \subseteq GateWs
    /\ quota \in [GateWs -> [count : Nat, start : GateTimes]]
    /\ removed \in [GateWs -> GateTimes \cup {Gates!Never}]
    /\ cache \in [GateWs -> [until : 0 .. MaxTime + TrustTTL, took : GateTimes]]
    /\ zset \in [GateWs -> SUBSET GateTimes]
    /\ req \in [Requests -> GateReq] /\ begun \in 0 .. MaxRequests
    /\ spent \in [GateWs -> [GateTimes -> Nat]]
    /\ judged \in [GateWs -> [GateTimes -> Nat]]

Creating == {r \in Requests : req[r].pc = "create"}

\* A request that is about to make a workspace still has a number for it.
RoomToCreate == Cardinality(ws) + Cardinality(Creating) <= Cardinality(Requests)

\* What a request asked of the registry, it asked in the past, and a workspace that
\* the registry had was removed no earlier.
Asked ==
    \A r \in Requests : req[r].pc \in {"registry", "found"} =>
        /\ req[r].asked <= now
        /\ req[r].pc = "found" =>
             removed[req[r].w] = Gates!Never \/ removed[req[r].w] >= req[r].asked

\* An entry of the trust cache ends a TTL after it was stored, and it was asked for
\* no later than the workspace was removed.
CacheTimed ==
    \A w \in GateWs :
        /\ cache[w].until <= now + TrustTTL
        /\ removed[w] = Gates!Never \/ removed[w] + TrustTTL + cache[w].took >= cache[w].until

GateTypeInv == GateTypes /\ RoomToCreate /\ Asked /\ CacheTimed

\* The row counts at least the requests that passed on its day, and none passed on a
\* later one.
QuotaCounted ==
    \A w \in GateWs :
        /\ spent[w][quota[w].start] <= quota[w].count
        /\ \A d \in GateTimes : spent[w][d] <= DailyLimit /\ (d > quota[w].start => spent[w][d] = 0)

GateInv == GateTypeInv /\ QuotaCounted

\* The tables of GateTypes, one by one.
LEMMA GateTables ==
    ASSUME GateTypeInv
    PROVE  /\ now \in GateTimes
           /\ quota \in [GateWs -> [count : Nat, start : GateTimes]]
           /\ removed \in [GateWs -> GateTimes \cup {Gates!Never}]
           /\ cache \in [GateWs -> [until : 0 .. MaxTime + TrustTTL, took : GateTimes]]
           /\ zset \in [GateWs -> SUBSET GateTimes]
           /\ judged \in [GateWs -> [GateTimes -> Nat]]
BY DEF GateTypeInv, GateTypes

\* The fields of a request, by the statement it is at.
LEMMA GateReqFields ==
    \A q \in GateReq :
        /\ q.pc \in {"quota", "trust", "clock", "upsert", "registry", "found", "rate"} => q.w \in GateWs
        /\ q.pc = "upsert" => q.day \in GateTimes
        /\ q.pc \in {"registry", "found"} => q.asked \in GateTimes
        /\ q.pc = "rate" => q.at \in GateTimes
BY DEF GateReq

LEMMA GateReqMakes ==
    /\ Gates!Idle \in GateReq /\ Gates!Idle.pc = "idle"
    /\ [pc |-> "lookup"] \in GateReq /\ [pc |-> "create"] \in GateReq
    /\ \A w \in GateWs :
         /\ [pc |-> "quota", w |-> w] \in GateReq
         /\ [pc |-> "trust", w |-> w] \in GateReq
         /\ [pc |-> "clock", w |-> w] \in GateReq
         /\ \A t \in GateTimes :
              /\ [pc |-> "upsert", w |-> w, day |-> t] \in GateReq
              /\ [pc |-> "registry", w |-> w, asked |-> t] \in GateReq
              /\ [pc |-> "rate", w |-> w, at |-> t] \in GateReq
    /\ \A q \in GateReq : q.pc = "registry" =>
         /\ [q EXCEPT !.pc = "found"] \in GateReq /\ [q EXCEPT !.pc = "found"].pc = "found"
         /\ [q EXCEPT !.pc = "found"].w = q.w /\ [q EXCEPT !.pc = "found"].asked = q.asked
BY DEF GateReq, Gates!Idle

LEMMA GateNumbers ==
    /\ GateTimes = 0 .. MaxTime /\ Gates!Never = MaxTime + 1
    /\ GateWs = 1 .. Cardinality(Requests) /\ Cardinality(Requests) \in Nat
    /\ IsFiniteSet(GateWs) /\ IsFiniteSet(GateTimes)
    /\ MaxTime \in Nat /\ TrustTTL \in Nat \ {0} /\ Window \in Nat \ {0}
    /\ DailyLimit \in Nat /\ RateLimit \in Nat /\ MaxRequests \in Nat
<1>1. Cardinality(Requests) \in Nat /\ GateWs = 1 .. Cardinality(Requests)
  BY GatesAssumption, FS_CardinalityType, SameCardinality DEF GateWs, Gates!Workspaces
<1>2. IsFiniteSet(1 .. Cardinality(Requests)) /\ IsFiniteSet(0 .. MaxTime)
  BY <1>1, GatesAssumption, FS_Interval
<1>. QED
  BY <1>1, <1>2, GatesAssumption DEF GateTimes, Gates!Times, Gates!Never

\* The times of a workspace's entries are numbers.
LEMMA GateEntries ==
    ASSUME GateTypeInv, NEW w \in GateWs
    PROVE  /\ cache[w].until \in Nat /\ cache[w].took \in Nat
           /\ removed[w] # Gates!Never => removed[w] \in Nat
<1>1. /\ cache[w] \in [until : 0 .. MaxTime + TrustTTL, took : GateTimes]
      /\ removed[w] \in GateTimes \cup {Gates!Never}
  BY GateTables
<1>2. /\ \A n \in GateTimes : n \in Nat
      /\ \A n \in 0 .. MaxTime + TrustTTL : n \in Nat
  BY GateNumbers
<1>. QED
  BY ONLY <1>1, <1>2

\* The day of an instant of the clock is one too.
LEMMA DayOfTime == \A t \in GateTimes : Gates!Day(t) \in GateTimes
<1> SUFFICES ASSUME NEW t \in GateTimes PROVE Gates!Day(t) \in GateTimes
  OBVIOUS
<1>1. t \in Nat /\ t <= MaxTime /\ MaxTime \in Nat /\ DayLength \in Nat /\ DayLength > 0
  BY GateNumbers, GatesAssumption
<1>2. t % DayLength \in 0 .. DayLength - 1 /\ t = DayLength * (t \div DayLength) + (t % DayLength)
  BY <1>1
<1>3. t \div DayLength \in Nat
  BY <1>1
<1>4. DayLength * (t \div DayLength) \in Nat
  BY <1>1, <1>3
<1>5. t - (t % DayLength) \in 0 .. MaxTime
  BY <1>1, <1>2, <1>4
<1>. QED
  BY <1>5, GateNumbers DEF Gates!Day

LEMMA GateInit == Gates!Init => GateInv
<1> SUFFICES ASSUME Gates!Init PROVE GateInv
  OBVIOUS
<1>0. \A r \in Requests : req[r] = Gates!Idle /\ req[r].pc = "idle"
  BY GateReqMakes DEF Gates!Init
<1>1. GateTypes
  BY GateNumbers, GateReqMakes DEF Gates!Init, GateTypes, GateWs, GateTimes
<1>2. RoomToCreate
  <2>1. Creating = {} /\ ws = {} /\ Cardinality({}) = 0
    BY <1>0, FS_EmptySet DEF Creating, Gates!Init
  <2>. QED
    BY <2>1, GateNumbers DEF RoomToCreate
<1>3. Asked /\ CacheTimed
  BY <1>0, GateNumbers DEF Gates!Init, Asked, CacheTimed, GateWs
<1>4. QuotaCounted
  BY GateNumbers DEF Gates!Init, QuotaCounted, GateWs, GateTimes
<1>. QED
  BY <1>1, <1>2, <1>3, <1>4 DEF GateInv, GateTypeInv

\* One request goes on to q; the others stay where they are.
LEMMA GateMove ==
    ASSUME GateTypeInv, NEW r \in Requests, NEW q \in GateReq, req' = [req EXCEPT ![r] = q]
    PROVE  /\ req' \in [Requests -> GateReq] /\ req'[r] = q
           /\ \A s \in Requests : s # r => req'[s] = req[s]
           /\ IsFiniteSet(Creating') /\ Cardinality(Creating') \in Nat
           /\ Cardinality(Creating') <= Cardinality(Requests)
           /\ IsFiniteSet(ws) /\ Cardinality(ws) \in Nat /\ Cardinality(Creating) \in Nat
           /\ q.pc # "create" =>
                /\ Cardinality(Creating') <= Cardinality(Creating)
                /\ req[r].pc = "create" => Cardinality(Creating') = Cardinality(Creating) - 1
<1>1. /\ req' \in [Requests -> GateReq] /\ req'[r] = q
      /\ \A s \in Requests : s # r => req'[s] = req[s]
  BY DEF GateTypeInv, GateTypes
<1>2. IsFiniteSet(Requests)
  BY GatesAssumption
<1>3. Creating \subseteq Requests /\ Creating' \subseteq Requests
  BY DEF Creating
<1>4. /\ IsFiniteSet(Creating) /\ IsFiniteSet(Creating') /\ Cardinality(Creating') <= Cardinality(Requests)
      /\ Cardinality(Creating) \in Nat /\ Cardinality(Creating') \in Nat
  BY <1>2, <1>3, FS_Subset, FS_CardinalityType
<1>5. IsFiniteSet(ws) /\ Cardinality(ws) \in Nat
  BY GateNumbers, FS_Subset, FS_CardinalityType DEF GateTypeInv, GateTypes
<1>6. ASSUME q.pc # "create"
      PROVE  /\ Cardinality(Creating') <= Cardinality(Creating)
             /\ req[r].pc = "create" => Cardinality(Creating') = Cardinality(Creating) - 1
  <2>1. Creating' = Creating \ {r}
    BY <1>1, <1>6 DEF Creating
  <2>2. Cardinality(Creating') <= Cardinality(Creating)
    BY <1>4, <2>1, FS_Subset
  <2>3. ASSUME req[r].pc = "create" PROVE Cardinality(Creating') = Cardinality(Creating) - 1
    <3>1. r \in Creating
      BY <2>3 DEF Creating
    <3>. QED
      BY <1>4, <2>1, <3>1, FS_RemoveElement
  <2>. QED
    BY <2>2, <2>3
<1>. QED
  BY <1>1, <1>4, <1>5, <1>6

\* A step of a request that leaves the clock, the workspaces, the registry and the
\* cache alone.
LEMMA GateQuiet ==
    ASSUME GateTypeInv, NEW r \in Requests, NEW q \in GateReq, req' = [req EXCEPT ![r] = q],
           q.pc \notin {"create", "registry", "found"},
           UNCHANGED <<now, ws, removed, cache>>
    PROVE  req' \in [Requests -> GateReq] /\ RoomToCreate' /\ Asked' /\ CacheTimed'
<1>1. /\ req' \in [Requests -> GateReq] /\ req'[r] = q
      /\ \A s \in Requests : s # r => req'[s] = req[s]
      /\ Cardinality(Creating') \in Nat /\ Cardinality(ws) \in Nat /\ Cardinality(Creating) \in Nat
      /\ Cardinality(Creating') <= Cardinality(Creating)
  BY GateMove
<1>2. RoomToCreate'
  BY <1>1, GateNumbers DEF GateTypeInv, RoomToCreate
<1>3. Asked'
  BY <1>1 DEF GateTypeInv, Asked
<1>4. CacheTimed'
  BY DEF GateTypeInv, CacheTimed
<1>. QED
  BY <1>1, <1>2, <1>3, <1>4

LEMMA GateTickTypes == GateTypeInv /\ Gates!Tick => GateTypeInv'
<1> SUFFICES ASSUME GateTypeInv, Gates!Tick PROVE GateTypeInv'
  OBVIOUS
<1>1. /\ now' = now + 1 /\ now' \in GateTimes /\ now \in Nat
      /\ UNCHANGED <<removed, ws, quota, cache, zset, req, begun, spent, judged>>
  BY GateNumbers DEF Gates!Tick, Gates!stores, GateTypeInv, GateTypes
<1>2. GateTypes'
  BY <1>1 DEF GateTypeInv, GateTypes
<1>3. RoomToCreate'
  BY <1>1 DEF GateTypeInv, RoomToCreate, Creating
<1>4. Asked'
  <2>1. \A r \in Requests : req[r].pc \in {"registry", "found"} => req[r].asked \in Nat
    BY GateReqFields, GateNumbers DEF GateTypeInv, GateTypes
  <2>. QED
    BY <1>1, <2>1 DEF GateTypeInv, Asked
<1>5. CacheTimed'
  <2>1. \A w \in GateWs : cache[w].until \in Nat
    BY GateNumbers DEF GateTypeInv, GateTypes
  <2>. QED
    BY <1>1, <2>1, GateNumbers DEF GateTypeInv, CacheTimed
<1>. QED
  BY <1>2, <1>3, <1>4, <1>5 DEF GateTypeInv

LEMMA GateDistrustTypes ==
    ASSUME GateTypeInv, NEW w \in GateWs, Gates!Distrust(w)
    PROVE  GateTypeInv'
<1>1. /\ removed' = [removed EXCEPT ![w] = now] /\ removed[w] = Gates!Never
      /\ UNCHANGED <<now, ws, quota, cache, zset, req, begun, spent, judged>>
  BY DEF Gates!Distrust, Gates!stores
<1>2. /\ now \in Nat /\ now \in GateTimes
      /\ \A v \in GateWs : cache[v].until \in Nat /\ cache[v].took \in Nat
      /\ removed'[w] = now /\ \A v \in GateWs : v # w => removed'[v] = removed[v]
  <2>1. now \in Nat /\ now \in GateTimes
    BY GateNumbers DEF GateTypeInv, GateTypes
  <2>2. \A v \in GateWs : cache[v].until \in Nat /\ cache[v].took \in Nat
    BY GateEntries
  <2>3. removed'[w] = now /\ \A v \in GateWs : v # w => removed'[v] = removed[v]
    BY <1>1 DEF GateTypeInv, GateTypes
  <2>. QED
    BY <2>1, <2>2, <2>3
<1>3. GateTypes'
  BY <1>1, <1>2 DEF GateTypeInv, GateTypes
<1>4. RoomToCreate'
  BY <1>1 DEF GateTypeInv, RoomToCreate, Creating
<1>5. Asked'
  <2> SUFFICES ASSUME NEW r \in Requests, req[r].pc \in {"registry", "found"}
               PROVE  /\ req[r].asked <= now
                      /\ req[r].pc = "found" =>
                           removed'[req[r].w] = Gates!Never \/ removed'[req[r].w] >= req[r].asked
    BY <1>1 DEF Asked
  <2>1. req[r].w \in GateWs
    BY GateReqFields DEF GateTypeInv, GateTypes
  <2>. QED
    BY <1>2, <2>1 DEF GateTypeInv, Asked
<1>6. CacheTimed'
  BY <1>1, <1>2, GateNumbers DEF GateTypeInv, CacheTimed
<1>. QED
  BY <1>3, <1>4, <1>5, <1>6 DEF GateTypeInv

\* A request looks its workspace up, and makes one when there is none.
LEMMA GateLookupTypes ==
    ASSUME GateTypeInv, NEW r \in Requests, Gates!Lookup(r)
    PROVE  GateTypeInv'
<1>0. UNCHANGED <<now, removed, ws, quota, cache, zset, begun, spent, judged>>
  BY DEF Gates!Lookup, Gates!world, Gates!stores
<1>1. CASE ws = {} /\ req' = [req EXCEPT ![r] = [pc |-> "create"]]
  <2> DEFINE q == [pc |-> "create"]
  <2>0. q \in GateReq /\ q.pc = "create"
    BY GateReqMakes
  <2> HIDE DEF q
  <2>1. /\ req' \in [Requests -> GateReq] /\ req'[r] = q
        /\ \A s \in Requests : s # r => req'[s] = req[s]
        /\ Cardinality(Creating') \in Nat /\ Cardinality(Creating') <= Cardinality(Requests)
    BY <1>1, <2>0, GateMove DEF q
  <2>2. Cardinality(ws') = 0
    BY <1>0, <1>1, FS_EmptySet
  <2>3. RoomToCreate'
    BY <2>1, <2>2, GateNumbers DEF RoomToCreate
  <2>4. Asked'
    BY <1>0, <2>0, <2>1 DEF GateTypeInv, Asked
  <2>5. CacheTimed'
    BY <1>0 DEF GateTypeInv, CacheTimed
  <2>6. GateTypes'
    BY <1>0, <2>1 DEF GateTypeInv, GateTypes
  <2>. QED
    BY <2>3, <2>4, <2>5, <2>6 DEF GateTypeInv
<1>2. ASSUME NEW w \in ws, req' = [req EXCEPT ![r] = [pc |-> "quota", w |-> w]]
      PROVE  GateTypeInv'
  <2> DEFINE q == [pc |-> "quota", w |-> w]
  <2>0. q \in GateReq /\ q.pc = "quota" /\ req' = [req EXCEPT ![r] = q]
    BY <1>2, GateReqMakes DEF GateTypeInv, GateTypes
  <2> HIDE DEF q
  <2>1. req' \in [Requests -> GateReq] /\ RoomToCreate' /\ Asked' /\ CacheTimed'
    BY <1>0, <2>0, GateQuiet
  <2>2. GateTypes'
    BY <1>0, <2>1 DEF GateTypeInv, GateTypes
  <2>. QED
    BY <2>1, <2>2 DEF GateTypeInv
<1>. QED
  BY <1>1, <1>2 DEF Gates!Lookup, Gates!Goto

LEMMA GateCreateTypes ==
    ASSUME GateTypeInv, NEW r \in Requests, Gates!CreateWorkspace(r)
    PROVE  GateTypeInv'
<1> DEFINE w == Cardinality(ws) + 1
           q == [pc |-> "quota", w |-> w]
<1>0. /\ req[r].pc = "create" /\ ws' = ws \cup {w} /\ req' = [req EXCEPT ![r] = q]
      /\ UNCHANGED <<now, removed, quota, cache, zset, begun, spent, judged>>
  BY SameCardinality DEF Gates!CreateWorkspace, Gates!Goto, Gates!world
<1>1. w \in GateWs
  <2>1. r \in Creating /\ Creating \subseteq Requests
    BY <1>0 DEF Creating
  <2>2. IsFiniteSet(Creating) /\ IsFiniteSet(ws)
    BY <2>1, GateNumbers, GatesAssumption, FS_Subset DEF GateTypeInv, GateTypes
  <2>3. Cardinality(Creating) \in Nat /\ Cardinality(ws) \in Nat /\ Cardinality(Creating) # 0
    BY <2>1, <2>2, FS_CardinalityType, FS_EmptySet
  <2>. QED
    BY <2>3, GateNumbers DEF GateTypeInv, RoomToCreate
<1>2. q \in GateReq /\ q.pc = "quota"
  BY <1>1, GateReqMakes
<1> HIDE DEF q
<1>3. /\ req' \in [Requests -> GateReq] /\ req'[r] = q
      /\ \A s \in Requests : s # r => req'[s] = req[s]
      /\ IsFiniteSet(ws) /\ Cardinality(ws) \in Nat /\ Cardinality(Creating) \in Nat
      /\ Cardinality(Creating') = Cardinality(Creating) - 1
  BY <1>0, <1>2, GateMove
<1>4. Cardinality(ws') <= Cardinality(ws) + 1 /\ Cardinality(ws') \in Nat
  <2>1. IsFiniteSet(ws \cup {w})
        /\ (Cardinality(ws \cup {w}) = Cardinality(ws) \/ Cardinality(ws \cup {w}) = Cardinality(ws) + 1)
    BY <1>3, FS_AddElement
  <2>. QED
    BY <1>0, <1>3, <2>1
<1>5. RoomToCreate'
  BY <1>3, <1>4, GateNumbers DEF GateTypeInv, RoomToCreate
<1>6. Asked'
  BY <1>0, <1>2, <1>3 DEF GateTypeInv, Asked
<1>7. CacheTimed'
  BY <1>0 DEF GateTypeInv, CacheTimed
<1>8. GateTypes'
  BY <1>0, <1>1, <1>3 DEF GateTypeInv, GateTypes
<1>. QED
  BY <1>5, <1>6, <1>7, <1>8 DEF GateTypeInv

\* A request that finds no entry in the cache asks the registry.
LEMMA GateTrustTypes ==
    ASSUME GateTypeInv, NEW r \in Requests, Gates!TrustCached(r)
    PROVE  GateTypeInv'
<1>0. PICK w \in GateWs : w = req[r].w
  BY GateReqFields DEF Gates!TrustCached, GateTypeInv, GateTypes
<1>1. UNCHANGED <<now, removed, ws, quota, zset, begun, spent, judged>>
  BY DEF Gates!TrustCached, Gates!world
<1>2. CASE now < cache[w].until
  <2> DEFINE q == [pc |-> "clock", w |-> w]
  <2>0. q \in GateReq /\ q.pc = "clock" /\ req' = [req EXCEPT ![r] = q] /\ UNCHANGED cache
    BY <1>0, <1>2, GateReqMakes DEF Gates!TrustCached, Gates!Goto
  <2> HIDE DEF q
  <2>1. req' \in [Requests -> GateReq] /\ RoomToCreate' /\ Asked' /\ CacheTimed'
    BY <1>1, <2>0, GateQuiet
  <2>2. GateTypes'
    BY <1>1, <2>0, <2>1 DEF GateTypeInv, GateTypes
  <2>. QED
    BY <2>1, <2>2 DEF GateTypeInv
<1>3. CASE ~ (now < cache[w].until)
  <2> DEFINE q == [pc |-> "registry", w |-> w, asked |-> now]
             e == [until |-> 0, took |-> 0]
  <2>0. /\ q \in GateReq /\ q.pc = "registry" /\ q.asked = now /\ req' = [req EXCEPT ![r] = q]
        /\ cache' = [cache EXCEPT ![w] = e]
    BY <1>0, <1>3, GateReqMakes DEF Gates!TrustCached, Gates!Goto, GateTypeInv, GateTypes
  <2>1. e \in [until : 0 .. MaxTime + TrustTTL, took : GateTimes] /\ e.until = 0 /\ e.took = 0
    BY GateNumbers
  <2> HIDE DEF q, e
  <2>2. /\ req' \in [Requests -> GateReq] /\ req'[r] = q
        /\ \A s \in Requests : s # r => req'[s] = req[s]
        /\ Cardinality(Creating') \in Nat /\ Cardinality(ws) \in Nat /\ Cardinality(Creating) \in Nat
        /\ Cardinality(Creating') <= Cardinality(Creating)
    BY <2>0, GateMove
  <2>3. RoomToCreate'
    BY <1>1, <2>2, GateNumbers DEF GateTypeInv, RoomToCreate
  <2>4. Asked'
    <3>1. now <= now /\ "registry" # "found"
      BY GateNumbers DEF GateTypeInv, GateTypes
    <3>. QED
      BY <1>1, <2>0, <2>2, <3>1 DEF GateTypeInv, Asked
  <2>5. GateTypes'
    BY <1>1, <2>0, <2>1, <2>2 DEF GateTypeInv, GateTypes
  <2>6. CacheTimed'
    <3>1. /\ cache'[w] = e /\ \A v \in GateWs : v # w => cache'[v] = cache[v]
          /\ now \in Nat /\ (removed[w] # Gates!Never => removed[w] \in Nat)
      BY <2>0, GateNumbers DEF GateTypeInv, GateTypes
    <3>. QED
      BY <1>1, <2>1, <3>1, GateNumbers DEF GateTypeInv, CacheTimed
  <2>. QED
    BY <2>3, <2>4, <2>5, <2>6 DEF GateTypeInv
<1>. QED
  BY <1>2, <1>3

\* The registry knows the workspace, and the answer is stored when it is back.
LEMMA GateQueryTypes ==
    ASSUME GateTypeInv, NEW r \in Requests, Gates!TrustQuery(r)
    PROVE  GateTypeInv'
<1>0. /\ UNCHANGED <<now, removed, ws, quota, cache, zset, begun, spent, judged>>
      /\ req[r] \in GateReq /\ req[r].pc = "registry"
  BY DEF Gates!TrustQuery, Gates!world, Gates!stores, GateTypeInv, GateTypes
<1>1. CASE removed[req[r].w] = Gates!Never
  <2> DEFINE q == [req[r] EXCEPT !.pc = "found"]
  <2>0. /\ q \in GateReq /\ q.pc = "found" /\ q.w = req[r].w /\ q.asked = req[r].asked
        /\ req' = [req EXCEPT ![r] = q]
    BY <1>0, <1>1, GateReqMakes DEF Gates!TrustQuery, Gates!Goto
  <2> HIDE DEF q
  <2>1. /\ req' \in [Requests -> GateReq] /\ req'[r] = q
        /\ \A s \in Requests : s # r => req'[s] = req[s]
        /\ Cardinality(Creating') \in Nat /\ Cardinality(ws) \in Nat /\ Cardinality(Creating) \in Nat
        /\ Cardinality(Creating') <= Cardinality(Creating)
    BY <2>0, GateMove
  <2>2. RoomToCreate'
    BY <1>0, <2>1, GateNumbers DEF GateTypeInv, RoomToCreate
  <2>3. Asked'
    BY <1>0, <1>1, <2>0, <2>1 DEF GateTypeInv, Asked
  <2>4. CacheTimed'
    BY <1>0 DEF GateTypeInv, CacheTimed
  <2>5. GateTypes'
    BY <1>0, <2>1 DEF GateTypeInv, GateTypes
  <2>. QED
    BY <2>2, <2>3, <2>4, <2>5 DEF GateTypeInv
<1>2. CASE removed[req[r].w] # Gates!Never
  <2>1. Gates!Idle \in GateReq /\ Gates!Idle.pc = "idle" /\ req' = [req EXCEPT ![r] = Gates!Idle]
    BY <1>2, GateReqMakes DEF Gates!TrustQuery, Gates!Goto, Gates!Answer
  <2>2. req' \in [Requests -> GateReq] /\ RoomToCreate' /\ Asked' /\ CacheTimed'
    BY <1>0, <2>1, GateQuiet
  <2>3. GateTypes'
    BY <1>0, <2>2 DEF GateTypeInv, GateTypes
  <2>. QED
    BY <2>2, <2>3 DEF GateTypeInv
<1>. QED
  BY <1>1, <1>2

LEMMA GateStoreTypes ==
    ASSUME GateTypeInv, NEW r \in Requests, Gates!TrustStore(r)
    PROVE  GateTypeInv'
<1>0. PICK w \in GateWs, a \in GateTimes : w = req[r].w /\ a = req[r].asked
  BY GateReqFields DEF Gates!TrustStore, GateTypeInv, GateTypes
<1> DEFINE q == [pc |-> "clock", w |-> w]
           e == [until |-> now + TrustTTL, took |-> now - a]
<1>1. /\ UNCHANGED <<now, removed, ws, quota, zset, begun, spent, judged>>
      /\ req[r].pc = "found" /\ req' = [req EXCEPT ![r] = q] /\ cache' = [cache EXCEPT ![w] = e]
  BY <1>0 DEF Gates!TrustStore, Gates!world, Gates!Goto
<1>2. /\ now \in Nat /\ now <= MaxTime /\ a \in Nat /\ a <= now
      /\ removed[w] = Gates!Never \/ removed[w] >= a
      /\ removed[w] # Gates!Never => removed[w] \in Nat
  <2>1. now \in Nat /\ now <= MaxTime /\ a \in Nat
    BY GateNumbers DEF GateTypeInv, GateTypes
  <2>2. a <= now /\ (removed[w] = Gates!Never \/ removed[w] >= a)
    BY <1>0, <1>1 DEF GateTypeInv, Asked
  <2>3. removed[w] # Gates!Never => removed[w] \in Nat
    BY GateEntries
  <2>. QED
    BY <2>1, <2>2, <2>3
<1>3. q \in GateReq /\ q.pc = "clock"
  BY GateReqMakes
<1>4. /\ e \in [until : 0 .. MaxTime + TrustTTL, took : GateTimes]
      /\ e.until = now + TrustTTL /\ e.took = now - a
  BY <1>2, GateNumbers
<1> HIDE DEF q, e
<1>5. /\ req' \in [Requests -> GateReq] /\ req'[r] = q
      /\ \A s \in Requests : s # r => req'[s] = req[s]
      /\ Cardinality(Creating') \in Nat /\ Cardinality(ws) \in Nat /\ Cardinality(Creating) \in Nat
      /\ Cardinality(Creating') <= Cardinality(Creating)
  BY <1>1, <1>3, GateMove
<1>6. RoomToCreate'
  BY <1>1, <1>5, GateNumbers DEF GateTypeInv, RoomToCreate
<1>7. Asked'
  BY <1>1, <1>3, <1>5 DEF GateTypeInv, Asked
<1>8. GateTypes'
  BY <1>1, <1>4, <1>5 DEF GateTypeInv, GateTypes
<1>9. CacheTimed'
  <2>1. cache'[w] = e /\ \A v \in GateWs : v # w => cache'[v] = cache[v]
    BY <1>1 DEF GateTypeInv, GateTypes
  <2>. QED
    BY <1>1, <1>2, <1>4, <2>1, GateNumbers, SMTT(60) DEF GateTypeInv, CacheTimed
<1>. QED
  BY <1>6, <1>7, <1>8, <1>9 DEF GateTypeInv

\* The quota is counted.
LEMMA GateUpsertTypes ==
    ASSUME GateTypeInv, NEW r \in Requests, Gates!Upsert(r)
    PROVE  GateTypeInv'
<1>0. PICK w \in GateWs, d \in GateTimes : w = req[r].w /\ d = req[r].day
  BY GateReqFields DEF Gates!Upsert, GateTypeInv, GateTypes
<1> DEFINE n == IF quota[w].start < d THEN [count |-> 1, start |-> d]
                                      ELSE [quota[w] EXCEPT !.count = @ + 1]
           q == IF n.count > DailyLimit THEN Gates!Idle ELSE [pc |-> "trust", w |-> w]
<1>1. /\ UNCHANGED <<now, removed, ws, cache, zset, begun, judged>>
      /\ quota' = [quota EXCEPT ![w] = n] /\ req' = [req EXCEPT ![r] = q]
      /\ spent' = IF n.count > DailyLimit THEN spent ELSE [spent EXCEPT ![w][n.start] = @ + 1]
  BY <1>0 DEF Gates!Upsert, Gates!Restarts, Gates!world, Gates!Goto, Gates!Answer
<1>2. n \in [count : Nat, start : GateTimes]
  <2>1. quota[w] \in [count : Nat, start : GateTimes]
    BY GateTables
  <2>2. [quota[w] EXCEPT !.count = @ + 1] \in [count : Nat, start : GateTimes]
    BY <2>1
  <2>. QED
    BY <1>0, <2>2
<1> HIDE DEF n
<1>3. q \in GateReq /\ q.pc \in {"idle", "trust"}
  BY GateReqMakes
<1> HIDE DEF q
<1>4. req' \in [Requests -> GateReq] /\ RoomToCreate' /\ Asked' /\ CacheTimed'
  BY <1>1, <1>3, GateQuiet
<1>5. spent' \in [GateWs -> [GateTimes -> Nat]]
  <2>1. n.start \in GateTimes
    BY <1>2
  <2>2. [spent EXCEPT ![w][n.start] = @ + 1] \in [GateWs -> [GateTimes -> Nat]]
    BY <2>1 DEF GateTypeInv, GateTypes
  <2>. QED
    BY <1>1, <2>2 DEF GateTypeInv, GateTypes
<1>6. GateTypes'
  BY <1>1, <1>2, <1>4, <1>5 DEF GateTypeInv, GateTypes
<1>. QED
  BY <1>4, <1>6 DEF GateTypeInv

\* The steps that only move a request on, and the count of requests and the sorted set.
LEMMA GateOtherTypes ==
    ASSUME GateTypeInv, NEW r \in Requests,
           \/ Gates!Begin(r) \/ Gates!QuotaDay(r) \/ Gates!Refuse(r)
           \/ Gates!RateClock(r) \/ Gates!RatePipeline(r) \/ Gates!RateFails(r)
    PROVE  GateTypeInv'
<1> DEFINE w == req[r].w
<1>0. Gates!Idle \in GateReq /\ Gates!Idle.pc = "idle" /\ now \in GateTimes
  BY GateReqMakes DEF GateTypeInv, GateTypes
<1>1. CASE Gates!Begin(r)
  <2> DEFINE q == [pc |-> "lookup"]
  <2>0. q \in GateReq /\ q.pc = "lookup"
    BY GateReqMakes
  <2>1. /\ req' = [req EXCEPT ![r] = q] /\ begun' \in 0 .. MaxRequests
        /\ UNCHANGED <<now, removed, ws, quota, cache, zset, spent, judged>>
    BY <1>1, GateNumbers DEF Gates!Begin, Gates!Goto, Gates!world, Gates!stores, GateTypeInv, GateTypes
  <2> HIDE DEF q
  <2>2. req' \in [Requests -> GateReq] /\ RoomToCreate' /\ Asked' /\ CacheTimed'
    BY <2>0, <2>1, GateQuiet
  <2>3. GateTypes'
    BY <2>1, <2>2 DEF GateTypeInv, GateTypes
  <2>. QED
    BY <2>2, <2>3 DEF GateTypeInv
<1>2. CASE Gates!QuotaDay(r)
  <2> DEFINE q == [pc |-> "upsert", w |-> w, day |-> Gates!Day(now)]
  <2>0. w \in GateWs
    BY <1>2, GateReqFields DEF Gates!QuotaDay, GateTypeInv, GateTypes
  <2>1. q \in GateReq /\ q.pc = "upsert"
    BY <1>0, <2>0, DayOfTime, GateReqMakes
  <2>2. /\ req' = [req EXCEPT ![r] = q]
        /\ UNCHANGED <<now, removed, ws, quota, cache, zset, begun, spent, judged>>
    BY <1>2 DEF Gates!QuotaDay, Gates!Goto, Gates!world, Gates!stores
  <2> HIDE DEF q
  <2>3. req' \in [Requests -> GateReq] /\ RoomToCreate' /\ Asked' /\ CacheTimed'
    BY <2>1, <2>2, GateQuiet
  <2>4. GateTypes'
    BY <2>2, <2>3 DEF GateTypeInv, GateTypes
  <2>. QED
    BY <2>3, <2>4 DEF GateTypeInv
<1>3. CASE Gates!Refuse(r) \/ Gates!RateFails(r)
  <2>1. /\ req' = [req EXCEPT ![r] = Gates!Idle]
        /\ UNCHANGED <<now, removed, ws, quota, cache, zset, begun, spent, judged>>
    BY <1>3 DEF Gates!Refuse, Gates!RateFails, Gates!Answer, Gates!Goto, Gates!world, Gates!stores
  <2>2. req' \in [Requests -> GateReq] /\ RoomToCreate' /\ Asked' /\ CacheTimed'
    BY <1>0, <2>1, GateQuiet
  <2>3. GateTypes'
    BY <2>1, <2>2 DEF GateTypeInv, GateTypes
  <2>. QED
    BY <2>2, <2>3 DEF GateTypeInv
<1>4. CASE Gates!RateClock(r)
  <2> DEFINE q == [pc |-> "rate", w |-> w, at |-> now]
  <2>0. w \in GateWs
    BY <1>4, GateReqFields DEF Gates!RateClock, GateTypeInv, GateTypes
  <2>1. q \in GateReq /\ q.pc = "rate"
    BY <1>0, <2>0, GateReqMakes
  <2>2. /\ req' = [req EXCEPT ![r] = q]
        /\ UNCHANGED <<now, removed, ws, quota, cache, zset, begun, spent, judged>>
    BY <1>4 DEF Gates!RateClock, Gates!Goto, Gates!world, Gates!stores
  <2> HIDE DEF q
  <2>3. req' \in [Requests -> GateReq] /\ RoomToCreate' /\ Asked' /\ CacheTimed'
    BY <2>1, <2>2, GateQuiet
  <2>4. GateTypes'
    BY <2>2, <2>3 DEF GateTypeInv, GateTypes
  <2>. QED
    BY <2>3, <2>4 DEF GateTypeInv
<1>5. CASE Gates!RatePipeline(r)
  <2> HIDE DEF w
  <2>0. w \in GateWs /\ req[r].at \in GateTimes
    BY <1>5, GateReqFields DEF Gates!RatePipeline, GateTypeInv, GateTypes, w
  <2>1. PICK t \in GateTimes : t = req[r].at
    BY <2>0
  <2> DEFINE kept == {m \in zset[w] : m + Window > t}
  <2>2. /\ req' = [req EXCEPT ![r] = Gates!Idle]
        /\ zset' = [zset EXCEPT ![w] = kept \cup {t}]
        /\ judged' = judged \/ judged' = [judged EXCEPT ![w][t] = @ + 1]
        /\ UNCHANGED <<now, removed, ws, quota, cache, begun, spent>>
    BY <1>5, <2>1 DEF Gates!RatePipeline, Gates!Answer, Gates!Goto, Gates!world, w
  <2>3. req' \in [Requests -> GateReq] /\ RoomToCreate' /\ Asked' /\ CacheTimed'
    BY <1>0, <2>2, GateQuiet
  <2>4. zset' \in [GateWs -> SUBSET GateTimes] /\ judged' \in [GateWs -> [GateTimes -> Nat]]
    <3>1. kept \cup {t} \in SUBSET GateTimes /\ judged[w][t] + 1 \in Nat
      BY <2>0 DEF GateTypeInv, GateTypes
    <3> HIDE DEF kept
    <3>2. zset' \in [GateWs -> SUBSET GateTimes]
      BY <2>0, <2>2, <3>1 DEF GateTypeInv, GateTypes
    <3>3. judged' \in [GateWs -> [GateTimes -> Nat]]
      <4>1. judged[w] \in [GateTimes -> Nat]
        BY <2>0, GateTables
      <4>2. [judged[w] EXCEPT ![t] = @ + 1] \in [GateTimes -> Nat]
        BY <3>1, <4>1
      <4>3. judged' = judged
              \/ judged' = [judged EXCEPT ![w] = [judged[w] EXCEPT ![t] = @ + 1]]
        BY <2>2
      <4>. QED
        BY <4>2, <4>3, GateTables
    <3>. QED
      BY <3>2, <3>3
  <2>5. GateTypes'
    BY <2>2, <2>3, <2>4 DEF GateTypeInv, GateTypes
  <2>. QED
    BY <2>3, <2>5 DEF GateTypeInv
<1>. QED
  BY <1>1, <1>2, <1>3, <1>4, <1>5

LEMMA GateNextTypes == GateTypeInv /\ [Gates!Next]_(Gates!vars) => GateTypeInv'
<1>1. ASSUME GateTypeInv, UNCHANGED Gates!vars PROVE GateTypeInv'
  BY <1>1 DEF Gates!vars, Gates!world, Gates!stores, GateTypeInv, GateTypes, RoomToCreate, Creating,
              Asked, CacheTimed
<1>2. ASSUME GateTypeInv, NEW w \in Gates!Workspaces, Gates!Distrust(w) PROVE GateTypeInv'
  BY <1>2, GateDistrustTypes DEF GateWs
<1>3. ASSUME GateTypeInv, NEW r \in Requests, Gates!Gates(r) PROVE GateTypeInv'
  BY <1>3, GateLookupTypes, GateCreateTypes, GateUpsertTypes, GateTrustTypes, GateQueryTypes,
     GateStoreTypes, GateOtherTypes DEF Gates!Gates
<1>. QED
  BY <1>1, <1>2, <1>3, GateTickTypes DEF Gates!Next

\* Only the upsert counts.
LEMMA GateOthers ==
    ASSUME [Gates!Next]_(Gates!vars)
    PROVE  (\E r \in Requests : Gates!Upsert(r)) \/ UNCHANGED <<quota, spent>>
BY DEF Gates!Next, Gates!vars, Gates!world, Gates!stores, Gates!Tick, Gates!Distrust, Gates!Gates,
       Gates!Begin, Gates!Lookup, Gates!CreateWorkspace, Gates!QuotaDay, Gates!Upsert, Gates!Refuse,
       Gates!TrustCached, Gates!TrustQuery, Gates!TrustStore, Gates!RateClock, Gates!RatePipeline,
       Gates!RateFails

\* A request that counts for an earlier day counts against the later one.
LEMMA QuotaNext ==
    ASSUME GateTypeInv, QuotaCounted, NEW r \in Requests, Gates!Upsert(r)
    PROVE  QuotaCounted'
<1>0. PICK w \in GateWs, d \in GateTimes : w = req[r].w /\ d = req[r].day
  BY GateReqFields DEF Gates!Upsert, GateTypeInv, GateTypes
<1> DEFINE n == IF quota[w].start < d THEN [count |-> 1, start |-> d]
                                      ELSE [quota[w] EXCEPT !.count = @ + 1]
<1>1. /\ quota' = [quota EXCEPT ![w] = n]
      /\ spent' = IF n.count > DailyLimit THEN spent ELSE [spent EXCEPT ![w][n.start] = @ + 1]
  BY <1>0 DEF Gates!Upsert, Gates!Restarts
<1>2. /\ quota[w].start \in GateTimes /\ quota[w].count \in Nat /\ d \in Nat
      /\ \A t \in GateTimes : t \in Nat /\ spent[w][t] \in Nat
      /\ DailyLimit \in Nat /\ quota[w].start \in Nat
  <2>1. quota[w].start \in GateTimes /\ quota[w].count \in Nat
    BY DEF GateTypeInv, GateTypes
  <2>2. \A t \in GateTimes : t \in Nat /\ spent[w][t] \in Nat
    <3>1. spent[w] \in [GateTimes -> Nat]
      BY DEF GateTypeInv, GateTypes
    <3>. QED
      BY <3>1, GateNumbers
  <2>. QED
    BY <2>1, <2>2, GateNumbers
<1>3. /\ n.start \in GateTimes /\ n.start \in Nat /\ n.count \in Nat
      /\ \/ quota[w].start < n.start /\ n.count = 1
         \/ quota[w].start = n.start /\ n.count = quota[w].count + 1
  <2>1. CASE quota[w].start < d
    <3>1. n = [count |-> 1, start |-> d]
      BY <2>1
    <3> HIDE DEF n
    <3>. QED
      BY <1>2, <2>1, <3>1
  <2>2. CASE ~ (quota[w].start < d)
    <3>1. n = [quota[w] EXCEPT !.count = @ + 1] /\ quota[w] \in [count : Nat, start : GateTimes]
      BY <2>2 DEF GateTypeInv, GateTypes
    <3> HIDE DEF n
    <3>2. n.start = quota[w].start /\ n.count = quota[w].count + 1
      BY <3>1
    <3>. QED
      BY <1>2, <3>2
  <2>. QED
    BY <2>1, <2>2
<1> HIDE DEF n
<1>4. quota'[w] = n /\ \A v \in GateWs : v # w => quota'[v] = quota[v] /\ spent'[v] = spent[v]
  BY <1>1 DEF GateTypeInv, GateTypes
<1>5. \A t \in GateTimes : spent'[w][t] =
        IF n.count > DailyLimit \/ t # n.start THEN spent[w][t] ELSE spent[w][t] + 1
  BY <1>1 DEF GateTypeInv, GateTypes
<1>6. spent[w][n.start] < n.count
  BY <1>2, <1>3 DEF QuotaCounted
<1>7. spent'[w][n.start] <= n.count
  BY <1>2, <1>3, <1>5, <1>6
<1>8. \A t \in GateTimes : spent'[w][t] <= DailyLimit
  BY <1>2, <1>3, <1>5, <1>6 DEF QuotaCounted
<1>9. \A t \in GateTimes : t > n.start => spent'[w][t] = 0
  <2> SUFFICES ASSUME NEW t \in GateTimes, t > n.start PROVE spent'[w][t] = 0
    OBVIOUS
  <2>1. t \in Nat /\ t > quota[w].start /\ t # n.start
    BY <1>2, <1>3
  <2>2. spent[w][t] = 0
    BY <2>1 DEF QuotaCounted
  <2>. QED
    BY <1>5, <2>1, <2>2
<1>. QED
  BY <1>4, <1>7, <1>8, <1>9 DEF QuotaCounted

LEMMA GateNext == GateInv /\ [Gates!Next]_(Gates!vars) => GateInv'
<1> SUFFICES ASSUME GateInv, [Gates!Next]_(Gates!vars) PROVE GateInv'
  OBVIOUS
<1>1. GateTypeInv'
  BY GateNextTypes DEF GateInv
<1>2. QuotaCounted'
  <2>1. CASE UNCHANGED <<quota, spent>>
    BY <2>1 DEF GateInv, QuotaCounted
  <2>. QED
    BY <2>1, GateOthers, QuotaNext DEF GateInv
<1>. QED
  BY <1>1, <1>2 DEF GateInv

\* The invariant gives the types and the quota.
LEMMA GateInvGives == GateInv => Gates!TypeOK /\ Gates!QuotaPerDay
<1> SUFFICES ASSUME GateInv PROVE Gates!TypeOK /\ Gates!QuotaPerDay
  OBVIOUS
<1>1. Gates!TypeOK
  BY DEF GateInv, GateTypeInv, GateTypes, Gates!TypeOK, GateWs, GateTimes
<1>2. Gates!QuotaPerDay
  BY DEF GateInv, QuotaCounted, Gates!QuotaPerDay, GateWs, GateTimes
<1>. QED
  BY <1>1, <1>2

\* No request passes the trust gate on an answer older than the TTL allows.
LEMMA TrustExpires ==
    ASSUME GateTypeInv, [Gates!Next]_(Gates!vars), NEW r \in Requests,
           req[r].pc \in {"trust", "found"}, req'[r].pc = "clock", NEW w, w = req[r].w
    PROVE  removed[w] = Gates!Never \/ now - removed[w] < TrustTTL + cache'[w].took
<1>0. w \in GateWs /\ req[r] \in GateReq /\ req \in [Requests -> GateReq]
  BY GateReqFields DEF GateTypeInv, GateTypes
<1>1. /\ now \in Nat /\ TrustTTL \in Nat \ {0} /\ cache[w].until \in Nat /\ cache[w].took \in Nat
      /\ removed[w] # Gates!Never => removed[w] \in Nat
  <2>1. now \in Nat /\ TrustTTL \in Nat \ {0}
    BY GateNumbers DEF GateTypeInv, GateTypes
  <2>. QED
    BY <1>0, <2>1, GateEntries
<1>2. Gates!TrustCached(r) \/ Gates!TrustStore(r)
  <2>1. req' # req
    OBVIOUS
  <2>2. PICK s \in Requests : Gates!Gates(s)
    BY <2>1 DEF Gates!Next, Gates!vars, Gates!Tick, Gates!Distrust
  <2>3. ASSUME s # r PROVE FALSE
    <3>1. \E q : req' = [req EXCEPT ![s] = q]
      BY <2>2 DEF Gates!Gates, Gates!Goto, Gates!Answer, Gates!Begin, Gates!Lookup, Gates!CreateWorkspace,
           Gates!QuotaDay, Gates!Upsert, Gates!Refuse, Gates!TrustCached, Gates!TrustQuery,
           Gates!TrustStore, Gates!RateClock, Gates!RatePipeline, Gates!RateFails
    <3>. QED
      BY <1>0, <2>3, <3>1
  <2>4. Gates!Gates(r)
    BY <2>2, <2>3
  <2>5. ASSUME Gates!Refuse(r) PROVE FALSE
    BY <1>0, <2>5, GateReqMakes DEF Gates!Refuse, Gates!Answer, Gates!Goto
  <2>6. ~ Gates!Begin(r)
    BY GateReqMakes DEF Gates!Begin
  <2>7. ~ (Gates!Lookup(r) \/ Gates!CreateWorkspace(r) \/ Gates!QuotaDay(r) \/ Gates!TrustQuery(r)
           \/ Gates!RateClock(r) \/ Gates!RatePipeline(r) \/ Gates!RateFails(r))
    BY DEF Gates!Lookup, Gates!CreateWorkspace, Gates!QuotaDay, Gates!TrustQuery,
           Gates!RateClock, Gates!RatePipeline, Gates!RateFails
  <2>8. ~ Gates!Upsert(r)
    BY DEF Gates!Upsert
  <2>. QED
    BY ONLY <2>4, <2>5, <2>6, <2>7, <2>8 DEF Gates!Gates
<1>3. CASE Gates!TrustCached(r) /\ now < cache[w].until
  <2>1. cache' = cache
    BY <1>3 DEF Gates!TrustCached
  <2>. QED
    BY <1>0, <1>1, <1>3, <2>1 DEF GateTypeInv, CacheTimed
<1>4. CASE Gates!TrustCached(r) /\ ~ (now < cache[w].until)
  <2>1. req'[r] = [pc |-> "registry", w |-> w, asked |-> now]
    BY <1>0, <1>4 DEF Gates!TrustCached, Gates!Goto
  <2>. QED
    BY <2>1
<1>5. CASE Gates!TrustStore(r)
  <2>1. req[r].pc = "found" /\ req[r].asked \in Nat /\ req[r].asked <= now
        /\ (removed[w] = Gates!Never \/ removed[w] >= req[r].asked)
    BY <1>0, <1>5, GateReqFields, GateNumbers DEF Gates!TrustStore, GateTypeInv, Asked
  <2>2. cache'[w] = [until |-> now + TrustTTL, took |-> now - req[r].asked]
    BY <1>0, <1>5 DEF Gates!TrustStore, GateTypeInv, GateTypes
  <2>3. cache'[w].took = now - req[r].asked
    BY <2>2
  <2>. QED
    BY <1>1, <2>1, <2>3
<1>. QED
  BY <1>2, <1>3, <1>4, <1>5

-----------------------------------------------------------------------------
(***************************************************************************)
(* The key cache                                                           *)
(***************************************************************************)

KeyTimes == Keys!Times
KeyGens == Keys!Keys

KeyReq ==
    [pc : {"idle"}]
        \cup [pc : {"keys", "lock", "valid"}, gen : KeyGens]
        \cup [pc : {"fetch"}, gen : KeyGens, asked : KeyTimes]
        \cup [pc : {"store"}, gen : KeyGens, asked : KeyTimes, got : KeyGens]

KeyTypes ==
    /\ clock \in KeyTimes
    /\ key \in KeyGens /\ retired \in [KeyGens -> KeyTimes]
    /\ keySet \in [gen : KeyGens \cup {0}, at : KeyTimes, took : KeyTimes]
    /\ mu \subseteq Validators
    /\ val \in [Validators -> KeyReq]

\* Who fetches holds the lock, and asked in the past.
FetcherLocks ==
    /\ mu = {} \/ \E r \in Validators : mu = {r}
    /\ \A r \in Validators : val[r].pc \in {"fetch", "store"} => mu = {r} /\ val[r].asked <= clock

\* The keys fetched, and those of the cache, were not replaced before they were asked
\* for.
FetchedCurrent ==
    /\ \A r \in Validators : val[r].pc = "store" =>
         val[r].got = key \/ retired[val[r].got] >= val[r].asked
    /\ keySet.at <= clock
    /\ keySet.gen # 0 => keySet.gen = key \/ retired[keySet.gen] + keySet.took >= keySet.at

KeyInv == KeyTypes /\ FetcherLocks /\ FetchedCurrent /\ Keys!FetchOnlyWhenStale

LEMMA KeyReqFields ==
    \A q \in KeyReq :
        /\ q.pc # "idle" => q.gen \in KeyGens
        /\ q.pc \in {"fetch", "store"} => q.asked \in KeyTimes
        /\ q.pc = "store" => q.got \in KeyGens
BY DEF KeyReq

LEMMA KeyReqMakes ==
    /\ Keys!Idle \in KeyReq /\ Keys!Idle.pc = "idle"
    /\ \A g \in KeyGens :
         /\ [pc |-> "keys", gen |-> g] \in KeyReq
         /\ [pc |-> "valid", gen |-> g] \in KeyReq
         /\ \A t \in KeyTimes :
              /\ [pc |-> "fetch", gen |-> g, asked |-> t] \in KeyReq
              /\ \A k \in KeyGens : [pc |-> "store", gen |-> g, asked |-> t, got |-> k] \in KeyReq
    /\ \A q \in KeyReq : q.pc = "keys" =>
         [q EXCEPT !.pc = "lock"] \in KeyReq /\ [q EXCEPT !.pc = "lock"].pc = "lock"
BY DEF KeyReq, Keys!Idle

LEMMA KeyNumbers ==
    /\ KeyTimes = 0 .. MaxKeyTime /\ KeyGens = 1 .. MaxKeys
    /\ KeyTTL \in Nat \ {0} /\ MaxKeyTime \in Nat /\ MaxKeys \in Nat \ {0}
BY KeysAssumption DEF KeyTimes, KeyGens, Keys!Times, Keys!Keys

LEMMA KeyInit == Keys!Init => KeyInv
<1> SUFFICES ASSUME Keys!Init PROVE KeyInv
  OBVIOUS
<1>0. \A r \in Validators : val[r] = Keys!Idle /\ val[r].pc = "idle"
  BY KeyReqMakes DEF Keys!Init
<1>1. KeyTypes
  BY KeyNumbers, KeyReqMakes DEF Keys!Init, KeyTypes, KeyGens
<1>2. FetcherLocks /\ FetchedCurrent
  BY <1>0, KeyNumbers DEF Keys!Init, FetcherLocks, FetchedCurrent
<1>3. Keys!FetchOnlyWhenStale
  BY <1>0 DEF Keys!FetchOnlyWhenStale
<1>. QED
  BY <1>1, <1>2, <1>3 DEF KeyInv

\* The numbers of the cache.
LEMMA KeyFacts ==
    ASSUME KeyInv
    PROVE  /\ clock \in Nat /\ key \in KeyGens /\ keySet.at \in Nat /\ keySet.took \in Nat
           /\ keySet.gen \in KeyGens \cup {0}
           /\ \A g \in KeyGens : retired[g] \in Nat
           /\ \A r \in Validators : val[r] \in KeyReq
           /\ \A r \in Validators : val[r].pc \in {"fetch", "store"} => val[r].asked \in Nat
<1>1. clock \in Nat /\ key \in KeyGens
  BY KeyNumbers DEF KeyInv, KeyTypes
<1>2. keySet.at \in Nat /\ keySet.took \in Nat /\ keySet.gen \in KeyGens \cup {0}
  BY KeyNumbers DEF KeyInv, KeyTypes
<1>3. \A g \in KeyGens : retired[g] \in Nat
  BY KeyNumbers DEF KeyInv, KeyTypes
<1>4. \A r \in Validators : val[r] \in KeyReq
  BY DEF KeyInv, KeyTypes
<1>5. \A r \in Validators : val[r].pc \in {"fetch", "store"} => val[r].asked \in Nat
  BY <1>4, KeyReqFields, KeyNumbers
<1>. QED
  BY <1>1, <1>2, <1>3, <1>4, <1>5

LEMMA KeyTick == KeyInv /\ Keys!Tick => KeyInv'
<1> SUFFICES ASSUME KeyInv, Keys!Tick PROVE KeyInv'
  OBVIOUS
<1>1. clock' = clock + 1 /\ clock' \in KeyTimes /\ UNCHANGED <<key, retired, keySet, mu, val>>
  BY KeyNumbers DEF Keys!Tick, KeyInv, KeyTypes
<1>2. KeyTypes'
  BY <1>1 DEF KeyInv, KeyTypes
<1>3. FetcherLocks' /\ FetchedCurrent'
  BY <1>1, KeyFacts DEF KeyInv, FetcherLocks, FetchedCurrent
<1>4. Keys!FetchOnlyWhenStale'
  BY <1>1, KeyFacts, KeyNumbers DEF KeyInv, Keys!FetchOnlyWhenStale, Keys!Fresh
<1>. QED
  BY <1>2, <1>3, <1>4 DEF KeyInv

LEMMA KeyRotate == KeyInv /\ Keys!Rotate => KeyInv'
<1> SUFFICES ASSUME KeyInv, Keys!Rotate PROVE KeyInv'
  OBVIOUS
<1>1. /\ key' = key + 1 /\ key' \in KeyGens /\ retired' = [retired EXCEPT ![key] = clock]
      /\ UNCHANGED <<clock, keySet, mu, val>>
  BY KeyNumbers DEF Keys!Rotate, KeyInv, KeyTypes
<1>2. KeyTypes'
  BY <1>1 DEF KeyInv, KeyTypes
<1>3. \A g \in KeyGens : retired'[g] = IF g = key THEN clock ELSE retired[g]
  BY <1>1 DEF KeyInv, KeyTypes
<1>4. FetcherLocks'
  BY <1>1 DEF KeyInv, FetcherLocks
<1>5. FetchedCurrent'
  <2>1. ASSUME NEW r \in Validators, val[r].pc = "store" PROVE retired'[val[r].got] >= val[r].asked
                                                              \/ val[r].got = key'
    <3>1. val[r].got \in KeyGens /\ val[r].asked <= clock
      BY <2>1, KeyFacts, KeyReqFields DEF KeyInv, FetcherLocks
    <3>. QED
      BY <1>3, <2>1, <3>1, KeyFacts DEF KeyInv, FetchedCurrent
  <2>2. ASSUME keySet.gen # 0 PROVE retired'[keySet.gen] + keySet.took >= keySet.at
    BY <1>3, <2>2, KeyFacts DEF KeyInv, FetchedCurrent
  <2>. QED
    BY <1>1, <2>1, <2>2 DEF KeyInv, FetchedCurrent
<1>6. Keys!FetchOnlyWhenStale'
  BY <1>1 DEF KeyInv, Keys!FetchOnlyWhenStale, Keys!Fresh
<1>. QED
  BY <1>2, <1>4, <1>5, <1>6 DEF KeyInv

\* A step of a request that leaves the cache, the lock and the issuer alone.
LEMMA KeyQuiet ==
    ASSUME KeyInv, NEW r \in Validators, NEW q \in KeyReq, val' = [val EXCEPT ![r] = q],
           q.pc \notin {"fetch", "store"}, UNCHANGED <<clock, key, retired, keySet>>,
           mu' = mu \/ (val[r].pc \in {"fetch", "store"} /\ mu' = {})
    PROVE  KeyInv'
<1>1. /\ val' \in [Validators -> KeyReq] /\ val'[r] = q
      /\ \A s \in Validators : s # r => val'[s] = val[s]
  BY DEF KeyInv, KeyTypes
<1>2. KeyTypes'
  BY <1>1 DEF KeyInv, KeyTypes
<1>3. FetcherLocks'
  <2>1. ASSUME NEW s \in Validators, val'[s].pc \in {"fetch", "store"}
        PROVE  mu' = {s} /\ val'[s].asked <= clock
    <3>1. s # r /\ val'[s] = val[s] /\ mu = {s}
      BY <1>1, <2>1 DEF KeyInv, FetcherLocks
    <3>2. ~ val[r].pc \in {"fetch", "store"}
      BY <3>1 DEF KeyInv, FetcherLocks
    <3>. QED
      BY <2>1, <3>1, <3>2 DEF KeyInv, FetcherLocks
  <2>. QED
    BY <2>1 DEF KeyInv, FetcherLocks
<1>4. FetchedCurrent'
  BY <1>1 DEF KeyInv, FetchedCurrent
<1>5. Keys!FetchOnlyWhenStale'
  BY <1>1 DEF KeyInv, Keys!FetchOnlyWhenStale, Keys!Fresh
<1>. QED
  BY <1>2, <1>3, <1>4, <1>5 DEF KeyInv

\* The verdict on a token.
LEMMA KeyVerdict ==
    ASSUME KeyInv, NEW r \in Validators, val[r].pc # "idle", NEW g, Keys!Verify(r, g)
    PROVE  \E q \in KeyReq : /\ val' = [val EXCEPT ![r] = q] /\ q.pc \in {"valid", "idle"}
                             /\ q.pc = "valid" => g = val[r].gen
<1>1. val[r].gen \in KeyGens
  BY KeyFacts, KeyReqFields
<1>2. CASE val[r].gen = g
  <2> DEFINE q == [pc |-> "valid", gen |-> g]
  <2>1. q \in KeyReq /\ q.pc = "valid" /\ val' = [val EXCEPT ![r] = q]
    BY <1>1, <1>2, KeyReqMakes DEF Keys!Verify, Keys!Goto
  <2>. QED
    BY <1>2, <2>1
<1>3. CASE val[r].gen # g
  BY <1>3, KeyReqMakes DEF Keys!Verify, Keys!Goto
<1>. QED
  BY <1>2, <1>3

\* A request takes the write lock of a cache that is not fresh and fetches.
LEMMA KeyFetches ==
    ASSUME KeyInv, NEW r \in Validators, val[r].pc = "lock", mu = {}, ~ Keys!Fresh, mu' = {r},
           val' = [val EXCEPT ![r] = [pc |-> "fetch", gen |-> val[r].gen, asked |-> clock]],
           UNCHANGED <<clock, key, retired, keySet>>
    PROVE  KeyInv'
<1> DEFINE q == [pc |-> "fetch", gen |-> val[r].gen, asked |-> clock]
<1>0. q \in KeyReq /\ q.pc = "fetch" /\ q.asked = clock /\ val' = [val EXCEPT ![r] = q]
  BY KeyFacts, KeyReqFields, KeyReqMakes DEF KeyInv, KeyTypes
<1> HIDE DEF q
<1>1. /\ val' \in [Validators -> KeyReq] /\ val'[r] = q
      /\ \A s \in Validators : s # r => val'[s] = val[s]
  BY <1>0 DEF KeyInv, KeyTypes
<1>2. KeyTypes'
  BY <1>1 DEF KeyInv, KeyTypes
<1>3. FetcherLocks'
  <2>1. \A s \in Validators : val[s].pc \notin {"fetch", "store"}
    BY DEF KeyInv, FetcherLocks
  <2>2. clock <= clock
    BY KeyFacts
  <2>. QED
    BY <1>0, <1>1, <2>1, <2>2 DEF FetcherLocks
<1>4. FetchedCurrent'
  BY <1>0, <1>1 DEF KeyInv, FetchedCurrent
<1>5. Keys!FetchOnlyWhenStale'
  BY <1>1 DEF KeyInv, Keys!FetchOnlyWhenStale, Keys!Fresh
<1>. QED
  BY <1>2, <1>3, <1>4, <1>5 DEF KeyInv

\* The endpoint answers with the key it has.
LEMMA KeyAnswered ==
    ASSUME KeyInv, NEW r \in Validators, Keys!FetchAnswer(r)
    PROVE  KeyInv'
<1> DEFINE q == [pc |-> "store", gen |-> val[r].gen, asked |-> val[r].asked, got |-> key]
<1>0. /\ q \in KeyReq /\ q.pc = "store" /\ q.asked = val[r].asked /\ q.got = key
      /\ val[r].pc = "fetch" /\ val' = [val EXCEPT ![r] = q]
      /\ UNCHANGED <<clock, key, retired, keySet, mu>>
  BY KeyFacts, KeyReqFields, KeyReqMakes DEF Keys!FetchAnswer, Keys!Goto
<1> HIDE DEF q
<1>1. /\ val' \in [Validators -> KeyReq] /\ val'[r] = q
      /\ \A s \in Validators : s # r => val'[s] = val[s]
  BY <1>0 DEF KeyInv, KeyTypes
<1>2. KeyTypes'
  BY <1>0, <1>1 DEF KeyInv, KeyTypes
<1>3. FetcherLocks'
  BY <1>0, <1>1 DEF KeyInv, FetcherLocks
<1>4. FetchedCurrent'
  BY <1>0, <1>1 DEF KeyInv, FetchedCurrent
<1>5. Keys!FetchOnlyWhenStale'
  BY <1>0, <1>1 DEF KeyInv, Keys!FetchOnlyWhenStale, Keys!Fresh
<1>. QED
  BY <1>2, <1>3, <1>4, <1>5 DEF KeyInv

\* The answer is stored and the lock given up.
LEMMA KeyStored ==
    ASSUME KeyInv, NEW r \in Validators, Keys!FetchStore(r)
    PROVE  KeyInv'
<1>0. /\ val[r].pc = "store" /\ mu' = {} /\ UNCHANGED <<clock, key, retired>>
      /\ keySet' = [gen |-> val[r].got, at |-> clock, took |-> clock - val[r].asked]
      /\ Keys!Verify(r, val[r].got)
  BY DEF Keys!FetchStore
<1>1. /\ val[r].got \in KeyGens /\ val[r].asked \in Nat /\ clock \in KeyTimes /\ clock \in Nat
      /\ val[r].asked <= clock /\ mu = {r}
      /\ val[r].got = key \/ retired[val[r].got] >= val[r].asked
      /\ retired[val[r].got] \in Nat
  <2>1. val[r].got \in KeyGens /\ val[r].asked \in Nat /\ clock \in KeyTimes /\ clock \in Nat
    BY <1>0, KeyFacts, KeyReqFields DEF KeyInv, KeyTypes
  <2>2. val[r].asked <= clock /\ mu = {r}
    BY <1>0 DEF KeyInv, FetcherLocks
  <2>3. val[r].got = key \/ retired[val[r].got] >= val[r].asked
    BY <1>0 DEF KeyInv, FetchedCurrent
  <2>. QED
    BY <2>1, <2>2, <2>3, KeyFacts
<1>2. PICK q \in KeyReq : val' = [val EXCEPT ![r] = q] /\ q.pc \in {"valid", "idle"}
  BY <1>0, KeyVerdict
<1>3. /\ val' \in [Validators -> KeyReq] /\ val'[r] = q
      /\ \A s \in Validators : s # r => val'[s] = val[s]
  BY <1>2 DEF KeyInv, KeyTypes
<1>4. \A s \in Validators : val'[s].pc \notin {"fetch", "store"}
  <2>1. \A s \in Validators : s # r => val[s].pc \notin {"fetch", "store"}
    BY <1>1 DEF KeyInv, FetcherLocks
  <2>. QED
    BY <1>2, <1>3, <2>1
<1>5. keySet'.gen = val[r].got /\ keySet'.at = clock /\ keySet'.took = clock - val[r].asked
  BY <1>0
<1>6. keySet' \in [gen : KeyGens \cup {0}, at : KeyTimes, took : KeyTimes]
  <2>1. clock - val[r].asked \in KeyTimes
    BY <1>1, KeyNumbers
  <2>. QED
    BY <1>0, <1>1, <2>1
<1>7. KeyTypes'
  BY <1>0, <1>3, <1>6 DEF KeyInv, KeyTypes
<1>8. FetcherLocks'
  BY <1>0, <1>4 DEF FetcherLocks
<1>9. FetchedCurrent'
  BY <1>0, <1>1, <1>4, <1>5 DEF FetchedCurrent
<1>10. Keys!FetchOnlyWhenStale'
  BY <1>4 DEF Keys!FetchOnlyWhenStale
<1>. QED
  BY <1>7, <1>8, <1>9, <1>10 DEF KeyInv

LEMMA KeyNext == KeyInv /\ [Keys!Next]_(Keys!vars) => KeyInv'
<1> SUFFICES ASSUME KeyInv, [Keys!Next]_(Keys!vars) PROVE KeyInv'
  OBVIOUS
<1>1. CASE UNCHANGED Keys!vars
  BY <1>1 DEF Keys!vars, KeyInv, KeyTypes, FetcherLocks, FetchedCurrent, Keys!FetchOnlyWhenStale, Keys!Fresh
<1>2. ASSUME NEW r \in Validators, Keys!Begin(r) PROVE KeyInv'
  <2>1. PICK g \in 1 .. key : val' = [val EXCEPT ![r] = [pc |-> "keys", gen |-> g]]
    BY <1>2 DEF Keys!Begin, Keys!Goto
  <2> DEFINE q == [pc |-> "keys", gen |-> g]
  <2>2. g \in KeyGens
    BY KeyFacts, KeyNumbers
  <2>3. q \in KeyReq /\ q.pc = "keys" /\ val' = [val EXCEPT ![r] = q]
    BY <2>1, <2>2, KeyReqMakes
  <2> HIDE DEF q
  <2>. QED
    BY <1>2, <2>3, KeyQuiet DEF Keys!Begin
<1>3. ASSUME NEW r \in Validators, Keys!KeysCached(r) PROVE KeyInv'
  <2>1. CASE Keys!Fresh
    <3>1. PICK q \in KeyReq : val' = [val EXCEPT ![r] = q] /\ q.pc \in {"valid", "idle"}
      BY <1>3, <2>1, KeyVerdict DEF Keys!KeysCached
    <3>. QED
      BY <1>3, <3>1, KeyQuiet DEF Keys!KeysCached
  <2>2. CASE ~ Keys!Fresh
    <3> DEFINE q == [val[r] EXCEPT !.pc = "lock"]
    <3>1. q \in KeyReq /\ q.pc = "lock" /\ val' = [val EXCEPT ![r] = q]
      BY <1>3, <2>2, KeyFacts, KeyReqMakes DEF Keys!KeysCached, Keys!Goto
    <3> HIDE DEF q
    <3>. QED
      BY <1>3, <3>1, KeyQuiet DEF Keys!KeysCached
  <2>. QED
    BY <2>1, <2>2
<1>4. ASSUME NEW r \in Validators, Keys!KeysLocked(r) PROVE KeyInv'
  <2>1. CASE Keys!Fresh
    <3>1. PICK q \in KeyReq : val' = [val EXCEPT ![r] = q] /\ q.pc \in {"valid", "idle"}
      BY <1>4, <2>1, KeyVerdict DEF Keys!KeysLocked
    <3>. QED
      BY <1>4, <2>1, <3>1, KeyQuiet DEF Keys!KeysLocked
  <2>2. CASE ~ Keys!Fresh
    BY <1>4, <2>2, KeyFetches DEF Keys!KeysLocked, Keys!Goto
  <2>. QED
    BY <2>1, <2>2
<1>5. ASSUME NEW r \in Validators, Keys!FetchFail(r) \/ Keys!Return(r) PROVE KeyInv'
  <2>1. Keys!Idle \in KeyReq /\ Keys!Idle.pc = "idle" /\ val' = [val EXCEPT ![r] = Keys!Idle]
    BY <1>5, KeyReqMakes DEF Keys!FetchFail, Keys!Return, Keys!Goto
  <2>. QED
    BY <1>5, <2>1, KeyQuiet DEF Keys!FetchFail, Keys!Return
<1>. QED
  BY <1>1, <1>2, <1>3, <1>4, <1>5, KeyTick, KeyRotate, KeyAnswered, KeyStored DEF Keys!Next, Keys!Validate

LEMMA KeyInvGives == KeyInv => Keys!TypeOK
<1> SUFFICES ASSUME KeyInv PROVE Keys!TypeOK
  OBVIOUS
<1>1. Cardinality(mu) <= 1
  <2>1. CASE mu = {}
    BY <2>1, FS_EmptySet
  <2>2. ASSUME NEW r \in Validators, mu = {r} PROVE Cardinality(mu) <= 1
    <3>1. Cardinality(mu) = 1
      BY <2>2, FS_Singleton
    <3>. QED
      BY <3>1
  <2>. QED
    BY <2>1, <2>2 DEF KeyInv, FetcherLocks
<1>. QED
  BY <1>1, SameCardinality DEF KeyInv, KeyTypes, Keys!TypeOK, KeyGens, KeyTimes

\* A request is valid with a key of the cache that is fresh, or of its own fetch.
LEMMA KeyExpires == KeyInv /\ [Keys!Next]_(Keys!vars) => Keys!ReplacedKeyExpires
<1> SUFFICES ASSUME KeyInv, [Keys!Next]_(Keys!vars), NEW r \in Validators,
                    val[r].pc # "valid", val'[r].pc = "valid"
             PROVE  LET g == val[r].gen
                    IN  g = key \/ clock - retired[g] < KeyTTL + keySet'.took
  BY DEF Keys!ReplacedKeyExpires
<1>0. val \in [Validators -> KeyReq] /\ KeyTTL \in Nat \ {0}
  BY KeyNumbers DEF KeyInv, KeyTypes
<1>1. Keys!KeysCached(r) \/ Keys!KeysLocked(r) \/ Keys!FetchStore(r)
  <2>1. val' # val
    OBVIOUS
  <2>2. PICK s \in Validators : Keys!Validate(s)
    BY <2>1 DEF Keys!Next, Keys!vars, Keys!Tick, Keys!Rotate
  <2>3. ASSUME s # r PROVE FALSE
    <3>1. \E q : val' = [val EXCEPT ![s] = q]
      BY <2>2 DEF Keys!Validate, Keys!Goto, Keys!Verify, Keys!Begin, Keys!KeysCached, Keys!KeysLocked,
           Keys!FetchAnswer, Keys!FetchStore, Keys!FetchFail, Keys!Return
    <3>. QED
      BY <1>0, <2>3, <3>1
  <2>. QED
    BY <1>0, <2>2, <2>3, KeyReqMakes DEF Keys!Validate, Keys!Goto, Keys!Begin, Keys!FetchAnswer, Keys!FetchFail, Keys!Return
<1>2. CASE Keys!FetchStore(r)
  <2>1. val[r].pc = "store" /\ keySet' = [gen |-> val[r].got, at |-> clock, took |-> clock - val[r].asked]
        /\ Keys!Verify(r, val[r].got)
    BY <1>2 DEF Keys!FetchStore
  <2>2. keySet'.took = clock - val[r].asked
    BY <2>1
  <2>3. val[r].gen = val[r].got
    BY <1>0, <2>1, KeyVerdict
  <2>4. val[r].got \in KeyGens /\ (val[r].got = key \/ retired[val[r].got] >= val[r].asked)
    BY <2>1, KeyFacts, KeyReqFields DEF KeyInv, FetchedCurrent
  <2>5. val[r].asked \in Nat /\ retired[val[r].got] \in Nat /\ clock \in Nat
    BY <2>1, <2>4, KeyFacts
  <2>. QED
    BY <1>0, <2>2, <2>3, <2>4, <2>5
<1>3. CASE Keys!KeysCached(r) \/ Keys!KeysLocked(r)
  <2>1. Keys!Fresh /\ Keys!Verify(r, keySet.gen) /\ keySet' = keySet /\ val[r].pc # "idle"
    <3>1. ASSUME ~ Keys!Fresh PROVE FALSE
      <4>1. \/ val[r].pc = "keys" /\ val'[r] = [val[r] EXCEPT !.pc = "lock"]
            \/ val'[r] = [pc |-> "fetch", gen |-> val[r].gen, asked |-> clock]
        BY <1>0, <1>3, <3>1 DEF Keys!KeysCached, Keys!KeysLocked, Keys!Goto
      <4>2. val[r].pc = "keys" => [val[r] EXCEPT !.pc = "lock"].pc = "lock"
        BY <1>0, KeyReqMakes
      <4>3. [pc |-> "fetch", gen |-> val[r].gen, asked |-> clock].pc = "fetch"
        OBVIOUS
      <4>4. val'[r].pc = "lock" \/ val'[r].pc = "fetch"
        BY <4>1, <4>2, <4>3
      <4>. QED
        BY <4>4
    <3>. QED
      BY <1>3, <3>1 DEF Keys!KeysCached, Keys!KeysLocked
  <2>2. val[r].gen = keySet.gen
    BY <1>0, <2>1, KeyVerdict
  <2>3. keySet.gen # 0 /\ clock - keySet.at < KeyTTL
    BY <2>1 DEF Keys!Fresh
  <2>4. keySet.gen \in KeyGens /\ retired[keySet.gen] \in Nat /\ keySet.at \in Nat /\ keySet.took \in Nat /\ clock \in Nat
    BY <2>3, KeyFacts
  <2>5. keySet.gen = key \/ retired[keySet.gen] + keySet.took >= keySet.at
    BY <2>3 DEF KeyInv, FetchedCurrent
  <2>. QED
    BY <1>0, <2>1, <2>2, <2>3, <2>4, <2>5
<1>. QED
  BY <1>1, <1>2, <1>3

-----------------------------------------------------------------------------
(***************************************************************************)
(* The license                                                             *)
(***************************************************************************)

LicCall == [pc : {"idle", "verify", "write", "read", "set"}, since : 0 .. MaxLicenseTime, got : Lic!Tiers]

\* A call in progress began now or in the unit of the clock before.
CallsShort ==
    \A c \in Lic!Callers : licenseCall[c].pc # "idle" =>
        daemon # "down" /\ licenseCall[c].since <= day /\ day <= licenseCall[c].since + 1

\* A call that has got a paid license began before the backend last confirmed it, or
\* at most a grace period after.
PaidConfirmed ==
    \A c \in Lic!Callers : licenseCall[c].got = "paid" =>
        /\ licenseCall[c].pc = "write" => licenseCall[c].since <= paidAt
        /\ licenseCall[c].pc = "set" => licenseCall[c].since <= paidAt + Grace

\* A paid row ends a grace period after it was confirmed.
RowConfirmed == row.tier = "paid" => row.until <= paidAt + Grace + 1

\* A daemon that is up refreshes within a grace period.
RefreshDue == daemon = "up" => day <= next /\ next <= day + Grace

\* A paid license in memory is about to be replaced, by the next refresh or by the one
\* in progress.
MemoryDue ==
    license = "paid" =>
        /\ daemon = "up"
        /\ \/ next <= paidAt + 2 * Grace + 1
           \/ /\ licenseCall[Daemon].pc # "idle"
              /\ licenseCall[Daemon].since <= paidAt + 2 * Grace + 1

LicInv == Lic!TypeOK /\ CallsShort /\ PaidConfirmed /\ RowConfirmed /\ RefreshDue /\ MemoryDue

\* The numbers of the license.
LEMMA LicFacts ==
    ASSUME LicInv
    PROVE  /\ day \in Nat /\ paidAt \in Nat /\ paidAt <= day /\ next \in Nat /\ Grace \in Nat
           /\ day \in 1 .. MaxLicenseTime /\ MaxLicenseTime \in Nat \ {0}
           /\ row \in [tier : Lic!Tiers, until : 0 .. MaxLicenseTime + Grace]
           /\ row.until \in Nat /\ row.tier \in Lic!Tiers
           /\ licenseCall \in [Lic!Callers -> LicCall]
           /\ \A c \in Lic!Callers :
                licenseCall[c] \in LicCall /\ licenseCall[c].since \in Nat /\ licenseCall[c].got \in Lic!Tiers
           /\ Daemon \in Lic!Callers
<1>1. /\ day \in Nat /\ paidAt \in Nat /\ paidAt <= day /\ next \in Nat /\ Grace \in Nat
      /\ day \in 1 .. MaxLicenseTime /\ MaxLicenseTime \in Nat \ {0}
  BY LicenseAssumption DEF LicInv, Lic!TypeOK
<1>2. row \in [tier : Lic!Tiers, until : 0 .. MaxLicenseTime + Grace]
  BY DEF LicInv, Lic!TypeOK
<1>3. row.until \in Nat /\ row.tier \in Lic!Tiers
  BY <1>1, <1>2
<1>4. licenseCall \in [Lic!Callers -> LicCall]
  BY DEF LicInv, Lic!TypeOK, LicCall
<1>5. ASSUME NEW c \in Lic!Callers
      PROVE  licenseCall[c] \in LicCall /\ licenseCall[c].since \in Nat /\ licenseCall[c].got \in Lic!Tiers
  <2>1. licenseCall[c] \in LicCall
    BY <1>4
  <2>. QED
    BY <1>1, <2>1 DEF LicCall
<1>. QED
  BY <1>1, <1>2, <1>3, <1>4, <1>5 DEF Lic!Callers

LEMMA LicCalls ==
    ASSUME LicInv
    PROVE  /\ Lic!Idle \in LicCall /\ Lic!Idle.pc = "idle" /\ Lic!Idle.got = "free"
           /\ Lic!Asking \in LicCall /\ Lic!Asking.pc = "verify" /\ Lic!Asking.got = "free"
           /\ Lic!Asking.since = day
<1>1. day \in 0 .. MaxLicenseTime /\ 0 \in 0 .. MaxLicenseTime
  BY LicFacts
<1>. QED
  BY <1>1 DEF Lic!Idle, Lic!Asking, LicCall, Lic!Tiers

LEMMA LicInit == Lic!Init => LicInv
<1> SUFFICES ASSUME Lic!Init PROVE LicInv
  OBVIOUS
<1>0. /\ Grace \in Nat /\ MaxLicenseTime \in Nat \ {0} /\ MaxCrashes \in Nat
      /\ day = 1 /\ paidAt = 0 /\ Daemon \in Lic!Callers
  BY LicenseAssumption DEF Lic!Init, Lic!Callers
<1>1. /\ Lic!Idle \in LicCall /\ Lic!Idle.pc = "idle" /\ Lic!Idle.got = "free"
      /\ Lic!Asking \in LicCall /\ Lic!Asking.pc = "verify" /\ Lic!Asking.got = "free"
      /\ Lic!Asking.since = 1
  BY <1>0 DEF Lic!Idle, Lic!Asking, LicCall, Lic!Tiers
<1>2. \A c \in Lic!Callers : licenseCall[c] = Lic!Idle \/ licenseCall[c] = Lic!Asking
  BY DEF Lic!Init
<1>3. licenseCall \in [Lic!Callers -> LicCall]
  BY <1>1 DEF Lic!Init
<1>4. Lic!TypeOK
  BY <1>0, <1>3 DEF Lic!Init, Lic!TypeOK, Lic!Tiers, LicCall
<1>5. CallsShort /\ PaidConfirmed
  BY <1>0, <1>1, <1>2 DEF CallsShort, PaidConfirmed, Lic!Init
<1>6. RowConfirmed /\ RefreshDue /\ MemoryDue
  BY <1>0 DEF RowConfirmed, RefreshDue, MemoryDue, Lic!Init
<1>. QED
  BY <1>4, <1>5, <1>6 DEF LicInv

LEMMA LicTick == LicInv /\ Lic!Tick => LicInv'
<1> SUFFICES ASSUME LicInv, Lic!Tick PROVE LicInv'
  OBVIOUS
<1>0. /\ day' = day + 1 /\ day < MaxLicenseTime
      /\ \A c \in Lic!Callers : licenseCall[c].pc # "idle" => licenseCall[c].since = day
      /\ daemon = "up" => day < next
      /\ UNCHANGED <<backend, paidAt, row, license, daemon, next, licenseCall, crashes>>
  BY DEF Lic!Tick
<1>1. Lic!TypeOK'
  BY <1>0, LicFacts DEF LicInv, Lic!TypeOK
<1>2. CallsShort'
  BY <1>0, LicFacts DEF LicInv, CallsShort
<1>3. PaidConfirmed' /\ RowConfirmed' /\ MemoryDue'
  BY <1>0 DEF LicInv, PaidConfirmed, RowConfirmed, MemoryDue
<1>4. RefreshDue'
  BY <1>0, LicFacts DEF LicInv, RefreshDue
<1>. QED
  BY <1>1, <1>2, <1>3, <1>4 DEF LicInv

LEMMA LicWorld == LicInv /\ (Lic!Change \/ Lic!Crash \/ UNCHANGED Lic!vars) => LicInv'
<1>1. ASSUME LicInv, UNCHANGED Lic!vars PROVE LicInv'
  BY <1>1 DEF Lic!vars, LicInv, Lic!TypeOK, CallsShort, PaidConfirmed, RowConfirmed, RefreshDue, MemoryDue
<1>2. ASSUME LicInv, Lic!Change PROVE LicInv'
  <2>1. backend' \in Lic!Tiers /\ UNCHANGED <<day, paidAt, row, license, daemon, next, licenseCall, crashes>>
    BY <1>2 DEF Lic!Change
  <2>. QED
    BY <1>2, <2>1 DEF LicInv, Lic!TypeOK, CallsShort, PaidConfirmed, RowConfirmed, RefreshDue, MemoryDue
<1>3. ASSUME LicInv, Lic!Crash PROVE LicInv'
  <2>1. /\ daemon' = "down" /\ license' = "free" /\ licenseCall' = [c \in Lic!Callers |-> Lic!Idle]
        /\ crashes' \in 0 .. MaxCrashes /\ UNCHANGED <<day, backend, paidAt, row, next>>
    BY <1>3, LicenseAssumption DEF Lic!Crash, LicInv, Lic!TypeOK
  <2>2. \A c \in Lic!Callers : licenseCall'[c].pc = "idle" /\ licenseCall'[c].got = "free"
    BY <1>3, <2>1, LicCalls
  <2>3. licenseCall' \in [Lic!Callers -> LicCall]
    BY <1>3, <2>1, LicCalls
  <2>4. Lic!TypeOK'
    BY <1>3, <2>1, <2>3 DEF LicInv, Lic!TypeOK, LicCall, Lic!Tiers
  <2>5. CallsShort' /\ PaidConfirmed'
    BY <2>2 DEF CallsShort, PaidConfirmed
  <2>6. RowConfirmed' /\ RefreshDue' /\ MemoryDue'
    BY <1>3, <2>1 DEF LicInv, RowConfirmed, RefreshDue, MemoryDue
  <2>. QED
    BY <2>4, <2>5, <2>6 DEF LicInv
<1>. QED
  BY <1>1, <1>2, <1>3

\* A call begins: at the start of the daemon, at its refresh, or by license.check.
LEMMA LicAsks ==
    ASSUME LicInv, NEW c \in Lic!Callers, licenseCall' = [licenseCall EXCEPT ![c] = Lic!Asking],
           UNCHANGED <<day, backend, paidAt, row, license, crashes>>,
           \/ Lic!Start /\ c = Daemon
           \/ Lic!Refresh /\ c = Daemon
           \/ Lic!Check(c)
    PROVE  LicInv'
<1>0. /\ licenseCall' \in [Lic!Callers -> LicCall] /\ licenseCall'[c] = Lic!Asking
      /\ \A d \in Lic!Callers : d # c => licenseCall'[d] = licenseCall[d]
  BY LicFacts, LicCalls
<1>1. /\ day \in Nat /\ paidAt \in Nat /\ next \in Nat /\ Grace \in Nat /\ day <= day
      /\ day \in 1 .. MaxLicenseTime /\ MaxLicenseTime \in Nat \ {0}
      /\ Lic!Asking.pc = "verify" /\ Lic!Asking.got = "free" /\ Lic!Asking.since = day
      /\ Daemon \in Lic!Callers
  BY LicFacts, LicCalls
<1>2. /\ daemon' # "down" /\ daemon' \in {"down", "starting", "up"}
      /\ next' \in 1 .. MaxLicenseTime + Grace
      /\ daemon' = "up" => daemon = "up" /\ (next' = next \/ (day = next /\ next' = next + Grace))
      /\ license = "paid" => daemon' = "up"
  <2>1. CASE Lic!Start
    BY <1>1, <2>1 DEF Lic!Start, LicInv, Lic!TypeOK, MemoryDue
  <2>2. CASE Lic!Refresh
    BY <1>1, <2>2 DEF Lic!Refresh, LicInv, Lic!TypeOK, MemoryDue
  <2>3. CASE Lic!Check(c)
    BY <1>1, <2>3 DEF Lic!Check, LicInv, Lic!TypeOK, MemoryDue
  <2>. QED
    BY <2>1, <2>2, <2>3
<1>3. Lic!TypeOK'
  BY <1>0, <1>2 DEF LicInv, Lic!TypeOK, LicCall
<1>4. CallsShort'
  BY <1>0, <1>1, <1>2 DEF LicInv, CallsShort
<1>5. PaidConfirmed'
  BY <1>0, <1>1 DEF LicInv, PaidConfirmed
<1>6. RowConfirmed'
  BY DEF LicInv, RowConfirmed
<1>7. RefreshDue'
  BY <1>1, <1>2 DEF LicInv, RefreshDue
<1>8. MemoryDue'
  <2> SUFFICES ASSUME license = "paid"
               PROVE  /\ daemon' = "up"
                      /\ \/ next' <= paidAt + 2 * Grace + 1
                         \/ /\ licenseCall'[Daemon].pc # "idle"
                            /\ licenseCall'[Daemon].since <= paidAt + 2 * Grace + 1
    BY DEF MemoryDue
  <2>0. daemon' = "up" /\ daemon = "up" /\ day <= next
    BY <1>2 DEF LicInv, RefreshDue
  <2>1. CASE Lic!Refresh /\ c = Daemon
    <3>1. licenseCall[Daemon].pc = "idle" /\ day = next /\ c = Daemon
      BY <2>1 DEF Lic!Refresh
    <3>2. next <= paidAt + 2 * Grace + 1
      BY <3>1 DEF LicInv, MemoryDue
    <3>. QED
      BY <1>0, <1>1, <2>0, <3>1, <3>2
  <2>2. CASE Lic!Check(c) \/ Lic!Start
    <3>1. c # Daemon /\ next' = next
      BY <2>0, <2>2 DEF Lic!Start, Lic!Check
    <3>. QED
      BY <1>0, <1>1, <2>0, <3>1 DEF LicInv, MemoryDue
  <2>. QED
    BY <2>1, <2>2
<1>. QED
  BY <1>3, <1>4, <1>5, <1>6, <1>7, <1>8 DEF LicInv

LEMMA LaterBound ==
    ASSUME NEW s \in Nat, NEW a \in Nat, NEW b \in Nat, NEW g \in Nat, a <= b, s <= a + 2 * g + 1
    PROVE  s <= b + 2 * g + 1
OBVIOUS

\* A call goes on, to q: what it has got is confirmed, and so is what it writes.
LEMMA LicGoesOn ==
    ASSUME LicInv, NEW c \in Lic!Callers, NEW q \in LicCall, licenseCall[c].pc # "idle",
           licenseCall' = [licenseCall EXCEPT ![c] = q], q.pc # "idle", q.since = licenseCall[c].since,
           UNCHANGED <<day, backend, license, daemon, next, crashes>>,
           paidAt' = paidAt \/ paidAt' = day,
           q.got = "paid" => /\ q.pc = "write" => q.since <= paidAt'
                             /\ q.pc = "set" => q.since <= paidAt' + Grace,
           row' \in [tier : Lic!Tiers, until : 0 .. MaxLicenseTime + Grace],
           row' # row /\ row'.tier = "paid" => row'.until <= paidAt' + Grace + 1
    PROVE  LicInv'
<1>0. /\ licenseCall' \in [Lic!Callers -> LicCall] /\ licenseCall'[c] = q
      /\ \A d \in Lic!Callers : d # c => licenseCall'[d] = licenseCall[d]
  BY LicFacts
<1>1. /\ day \in Nat /\ paidAt \in Nat /\ next \in Nat /\ Grace \in Nat /\ paidAt <= day
      /\ paidAt' \in Nat /\ paidAt <= paidAt' /\ paidAt' <= day
      /\ row.until \in Nat /\ Daemon \in Lic!Callers
      /\ \A d \in Lic!Callers : licenseCall[d].since \in Nat /\ licenseCall'[d].since = licenseCall[d].since
      /\ \A d \in Lic!Callers : licenseCall[d].pc # "idle" <=> licenseCall'[d].pc # "idle"
  BY <1>0, LicFacts
<1>2. Lic!TypeOK'
  BY <1>0, <1>1 DEF LicInv, Lic!TypeOK, LicCall
<1>3. CallsShort'
  BY <1>1 DEF LicInv, CallsShort
<1>4. PaidConfirmed'
  <2> SUFFICES ASSUME NEW d \in Lic!Callers, licenseCall'[d].got = "paid"
               PROVE  /\ licenseCall'[d].pc = "write" => licenseCall'[d].since <= paidAt'
                      /\ licenseCall'[d].pc = "set" => licenseCall'[d].since <= paidAt' + Grace
    BY DEF PaidConfirmed
  <2>1. CASE d = c
    BY <1>0, <2>1
  <2>2. CASE d # c
    BY <1>0, <1>1, <2>2 DEF LicInv, PaidConfirmed
  <2>. QED
    BY <2>1, <2>2
<1>5. RowConfirmed'
  BY <1>1 DEF LicInv, RowConfirmed
<1>6. RefreshDue'
  BY DEF LicInv, RefreshDue
<1>7. MemoryDue'
  <2> SUFFICES ASSUME license = "paid"
               PROVE  /\ daemon' = "up"
                      /\ \/ next' <= paidAt' + 2 * Grace + 1
                         \/ /\ licenseCall'[Daemon].pc # "idle"
                            /\ licenseCall'[Daemon].since <= paidAt' + 2 * Grace + 1
    BY DEF MemoryDue
  <2>1. /\ daemon' = "up"
        /\ \/ next <= paidAt + 2 * Grace + 1
           \/ licenseCall[Daemon].pc # "idle" /\ licenseCall[Daemon].since <= paidAt + 2 * Grace + 1
    BY DEF LicInv, MemoryDue
  <2>2. /\ paidAt \in Nat /\ paidAt' \in Nat /\ paidAt <= paidAt' /\ Grace \in Nat /\ next \in Nat
        /\ next' = next /\ licenseCall[Daemon].since \in Nat
        /\ licenseCall'[Daemon].since = licenseCall[Daemon].since
        /\ licenseCall[Daemon].pc # "idle" => licenseCall'[Daemon].pc # "idle"
    BY <1>1
  <2>3. CASE next <= paidAt + 2 * Grace + 1
    <3>1. PICK s \in Nat : s = next' /\ s <= paidAt + 2 * Grace + 1
      BY <2>2, <2>3
    <3>2. s <= paidAt' + 2 * Grace + 1
      <4>1. paidAt \in Nat /\ paidAt' \in Nat /\ paidAt <= paidAt' /\ Grace \in Nat
        BY <2>2
      <4>2. s \in Nat /\ s <= paidAt + 2 * Grace + 1
        BY <3>1
      <4>. QED
        BY <4>1, <4>2, LaterBound
    <3>. QED
      BY <2>1, <3>1, <3>2
  <2>4. CASE licenseCall[Daemon].pc # "idle" /\ licenseCall[Daemon].since <= paidAt + 2 * Grace + 1
    <3>1. PICK s \in Nat : s = licenseCall[Daemon].since /\ s <= paidAt + 2 * Grace + 1
      BY <2>2, <2>4
    <3>2. s <= paidAt' + 2 * Grace + 1
      <4>1. paidAt \in Nat /\ paidAt' \in Nat /\ paidAt <= paidAt' /\ Grace \in Nat
        BY <2>2
      <4>2. s \in Nat /\ s <= paidAt + 2 * Grace + 1
        BY <3>1
      <4>. QED
        BY <4>1, <4>2, LaterBound
    <3>. QED
      BY <2>1, <2>2, <2>4, <3>1, <3>2
  <2>. QED
    BY <2>1, <2>3, <2>4
<1>. QED
  BY <1>2, <1>3, <1>4, <1>5, <1>6, <1>7 DEF LicInv

\* The backend answers, or does not.
LEMMA LicVerifies ==
    ASSUME LicInv, NEW c \in Lic!Callers, Lic!Verified(c) \/ Lic!VerifyFails(c)
    PROVE  LicInv'
<1>0. /\ licenseCall[c].pc = "verify" /\ licenseCall[c] \in LicCall /\ licenseCall[c].since \in Nat
      /\ licenseCall[c].since <= day /\ day \in Nat /\ Grace \in Nat /\ licenseCall[c].got \in Lic!Tiers
      /\ row \in [tier : Lic!Tiers, until : 0 .. MaxLicenseTime + Grace] /\ backend \in Lic!Tiers
      /\ licenseCall \in [Lic!Callers -> LicCall]
  BY LicFacts DEF Lic!Verified, Lic!VerifyFails, LicInv, CallsShort, Lic!TypeOK
<1>1. CASE Lic!Verified(c)
  <2>1. PICK q : q = [[licenseCall[c] EXCEPT !.pc = "write"] EXCEPT !.got = backend]
    OBVIOUS
  <2>2. q \in LicCall /\ q.pc = "write" /\ q.got = backend /\ q.since = licenseCall[c].since
    <3>1. licenseCall[c] \in LicCall /\ backend \in Lic!Tiers
      BY <1>0
    <3>. QED
      BY ONLY <2>1, <3>1 DEF LicCall
  <2>3. licenseCall' = [licenseCall EXCEPT ![c] = q]
    BY <1>0, <1>1, <2>1 DEF Lic!Verified
  <2>4. /\ paidAt' = IF backend = "paid" THEN day ELSE paidAt
        /\ UNCHANGED <<day, backend, row, license, daemon, next, crashes>>
    BY <1>1 DEF Lic!Verified
  <2>. QED
    BY <1>0, <2>2, <2>3, <2>4, LicGoesOn
<1>2. CASE Lic!VerifyFails(c)
  <2>1. PICK q : q = [licenseCall[c] EXCEPT !.pc = "read"]
    OBVIOUS
  <2>2. q \in LicCall /\ q.pc = "read" /\ q.since = licenseCall[c].since
    BY <1>0, <2>1 DEF LicCall
  <2>3. /\ licenseCall' = [licenseCall EXCEPT ![c] = q]
        /\ UNCHANGED <<day, backend, paidAt, row, license, daemon, next, crashes>>
    BY <1>0, <1>2, <2>1 DEF Lic!VerifyFails, Lic!Goto
  <2>. QED
    BY <1>0, <2>2, <2>3, LicGoesOn
<1>. QED
  BY <1>1, <1>2

\* The answer is cached, or the cache is used for an answer.
LEMMA LicCaches ==
    ASSUME LicInv, NEW c \in Lic!Callers, Lic!WriteCache(c) \/ Lic!ReadCacheGrace(c)
    PROVE  LicInv'
<1>0. /\ licenseCall[c].pc \in {"write", "read"} /\ licenseCall[c] \in LicCall /\ licenseCall[c].since \in Nat
      /\ licenseCall[c].since <= day /\ day <= licenseCall[c].since + 1
      /\ day \in Nat /\ Grace \in Nat /\ paidAt \in Nat /\ licenseCall[c].got \in Lic!Tiers
      /\ day \in 1 .. MaxLicenseTime /\ MaxLicenseTime \in Nat
      /\ row \in [tier : Lic!Tiers, until : 0 .. MaxLicenseTime + Grace] /\ row.until \in Nat
      /\ row.tier \in Lic!Tiers /\ licenseCall \in [Lic!Callers -> LicCall]
  BY LicFacts DEF Lic!WriteCache, Lic!ReadCacheGrace, LicInv, CallsShort
<1>1. CASE Lic!WriteCache(c)
  <2>1. PICK q : q = [licenseCall[c] EXCEPT !.pc = "set"]
    OBVIOUS
  <2>2. q \in LicCall /\ q.pc = "set" /\ q.since = licenseCall[c].since /\ q.got = licenseCall[c].got
    BY <1>0, <2>1 DEF LicCall
  <2>3. /\ licenseCall' = [licenseCall EXCEPT ![c] = q] /\ licenseCall[c].pc = "write"
        /\ UNCHANGED <<day, backend, paidAt, license, daemon, next, crashes>>
        /\ row' = row \/ row' = [tier |-> licenseCall[c].got, until |-> day + Grace]
    BY <1>0, <1>1, <2>1 DEF Lic!WriteCache, Lic!Goto
  <2>4. licenseCall[c].got = "paid" => licenseCall[c].since <= paidAt
    BY <2>3 DEF LicInv, PaidConfirmed
  <2>5. /\ row' \in [tier : Lic!Tiers, until : 0 .. MaxLicenseTime + Grace]
        /\ row' # row /\ row'.tier = "paid" => row'.until <= paidAt' + Grace + 1
    <3>1. CASE row' = row
      BY <1>0, <3>1
    <3>2. CASE row' = [tier |-> licenseCall[c].got, until |-> day + Grace]
      <4>1. day + Grace \in 0 .. MaxLicenseTime + Grace
        BY <1>0
      <4>2. row'.tier = licenseCall[c].got /\ row'.until = day + Grace
        BY <3>2
      <4>. QED
        BY <1>0, <2>3, <2>4, <3>2, <4>1, <4>2
    <3>. QED
      BY <2>3, <3>1, <3>2
  <2>. QED
    <3>1. q.got = "paid" => q.since <= paidAt' + Grace
      BY <1>0, <2>2, <2>3, <2>4
    <3>2. q.pc # "idle" /\ q.pc # "write" /\ licenseCall[c].pc # "idle"
      BY <2>2, <2>3
    <3>. QED
      BY <2>2, <2>3, <2>5, <3>1, <3>2, LicGoesOn
<1>2. CASE Lic!ReadCacheGrace(c)
  <2>0. PICK tier \in {"free", IF day < row.until THEN row.tier ELSE "free"} :
            licenseCall' = [licenseCall EXCEPT ![c].pc = "set", ![c].got = tier]
    BY <1>2 DEF Lic!ReadCacheGrace
  <2>1. PICK q : q = [[licenseCall[c] EXCEPT !.pc = "set"] EXCEPT !.got = tier]
    OBVIOUS
  <2>2. tier \in Lic!Tiers /\ (tier = "paid" => row.tier = "paid" /\ day < row.until)
    BY <1>0, <2>0 DEF Lic!Tiers
  <2>3. q \in LicCall /\ q.pc = "set" /\ q.got = tier /\ q.since = licenseCall[c].since
    <3>1. licenseCall[c] \in LicCall /\ tier \in Lic!Tiers
      BY <1>0, <2>2
    <3>. QED
      BY ONLY <2>1, <3>1 DEF LicCall
  <2>4. licenseCall' = [licenseCall EXCEPT ![c] = q]
    BY <1>0, <2>0, <2>1
  <2>5. UNCHANGED <<day, backend, paidAt, row, license, daemon, next, crashes>>
    BY <1>2 DEF Lic!ReadCacheGrace
  <2>6. tier = "paid" => licenseCall[c].since <= paidAt + Grace
    BY <1>0, <2>2 DEF LicInv, RowConfirmed
  <2>. QED
    BY <1>0, <2>3, <2>4, <2>5, <2>6, LicGoesOn
<1>. QED
  BY <1>1, <1>2

\* The license in memory is replaced.
LEMMA LicSets ==
    ASSUME LicInv, NEW c \in Lic!Callers, Lic!SetLicense(c)
    PROVE  LicInv'
<1>0. /\ licenseCall[c].pc = "set" /\ licenseCall[c].since \in Nat /\ licenseCall[c].got \in Lic!Tiers
      /\ licenseCall[c].since <= day /\ day <= licenseCall[c].since + 1 /\ daemon # "down"
      /\ day \in Nat /\ Grace \in Nat /\ paidAt \in Nat /\ next \in Nat
      /\ day \in 1 .. MaxLicenseTime /\ MaxLicenseTime \in Nat
      /\ licenseCall[c].got = "paid" => licenseCall[c].since <= paidAt + Grace
  BY LicFacts DEF Lic!SetLicense, LicInv, CallsShort, PaidConfirmed
<1>1. /\ license' = licenseCall[c].got /\ licenseCall' = [licenseCall EXCEPT ![c] = Lic!Idle]
      /\ daemon' = "up" /\ next' = IF daemon = "starting" THEN day + Grace ELSE next
      /\ UNCHANGED <<day, backend, paidAt, row, crashes>>
  BY DEF Lic!SetLicense
<1>2. /\ licenseCall' \in [Lic!Callers -> LicCall] /\ licenseCall'[c] = Lic!Idle
      /\ \A d \in Lic!Callers : d # c => licenseCall'[d] = licenseCall[d]
      /\ Lic!Idle.pc = "idle" /\ Lic!Idle.got = "free"
  BY <1>1, LicFacts, LicCalls
<1>3. day <= next' /\ next' <= day + Grace
  BY <1>0, <1>1 DEF LicInv, RefreshDue, Lic!TypeOK
<1>4. Lic!TypeOK'
  BY <1>0, <1>1, <1>2, <1>3 DEF LicInv, Lic!TypeOK, LicCall
<1>5. CallsShort' /\ PaidConfirmed'
  BY <1>1, <1>2 DEF LicInv, CallsShort, PaidConfirmed
<1>6. RowConfirmed' /\ RefreshDue'
  BY <1>1, <1>3 DEF LicInv, RowConfirmed, RefreshDue
<1>7. MemoryDue'
  BY <1>0, <1>1, <1>3 DEF MemoryDue
<1>. QED
  BY <1>4, <1>5, <1>6, <1>7 DEF LicInv

LEMMA LicNext == LicInv /\ [Lic!Next]_(Lic!vars) => LicInv'
<1> SUFFICES ASSUME LicInv, [Lic!Next]_(Lic!vars) PROVE LicInv'
  OBVIOUS
<1>1. CASE Lic!Start \/ Lic!Refresh
  BY <1>1, LicAsks, LicFacts DEF Lic!Start, Lic!Refresh
<1>2. ASSUME NEW c \in Lic!Callers, Lic!Check(c) PROVE LicInv'
  BY <1>2, LicAsks DEF Lic!Check
<1>. QED
  BY <1>1, <1>2, LicTick, LicWorld, LicVerifies, LicCaches, LicSets DEF Lic!Next

LEMMA LicInvGives == LicInv => Lic!LicenseLapses
BY LicFacts DEF LicInv, MemoryDue, RefreshDue, CallsShort, Lic!LicenseLapses

-----------------------------------------------------------------------------
(***************************************************************************)
(* The relay                                                               *)
(***************************************************************************)

Clients == 1 .. MaxClients

\* What the daemon has encrypted for a client, and its answer to a hello.
CallOut == [type : {"e2e"}, key : Nat \ {0}, n : Clients, counter : Nat, response : BOOLEAN]
HelloOut == [type : {"e2e_hello"}, n : Clients, key : Nat \ {0}]

UpFrame ==
    [type : {"client_connected"}]
        \cup [type : {"e2e_hello"}, n : Clients]
        \cup [type : {"e2e"}, key : Nat \ {0}, counter : 0 .. MaxCalls - 1]

InbState ==
    [pc : {"read", "dispatch", "respond"}]
        \cup [pc : {"hello", "activate"}, n : Clients, key : Nat \ {0}]
        \cup [pc : {"send"}, frame : CallOut]

FwdState == {Rel!Read} \cup [pc : {"send"}, frame : CallOut]

RelaySession == [key : Nat \ {0}, n : Clients, send : Nat, recv : 0 .. MaxCalls]

RemoteClient ==
    [n : 0 .. MaxClients, key : Nat, send : 0 .. MaxCalls, recv : Nat,
     waiting : BOOLEAN, ok : BOOLEAN]

RelayTypes ==
    /\ up \in Seq(UpFrame)
    /\ out \in Seq(CallOut \cup HelloOut) /\ Len(out) <= ChannelCap
    /\ e2e \in {Rel!NoSession} \cup RelaySession
    /\ est \in BOOLEAN
    /\ inb \in InbState
    /\ fwd \in FwdState
    /\ events \in Nat /\ nEvents \in 0 .. MaxEvents /\ events <= nEvents
    /\ backoff \in Rel!Backoffs
    /\ conn \in {"up", "down"}
    /\ client \in RemoteClient
    /\ hellos \in Nat
    /\ drops \in 0 .. MaxDrops

\* The frames the daemon has made and the client has not got.
Frames ==
    {out[i] : i \in DOMAIN out}
        \cup {f \in CallOut : fwd.pc = "send" /\ f = fwd.frame}
        \cup {f \in CallOut : inb.pc = "send" /\ f = inb.frame}

\* handle_inbound is between a hello and the session it makes.
Shaking == inb.pc \in {"hello", "activate"}

\* The client the daemon serves, from its hello on: who it is, its key, and how
\* many of its requests have been read.
InService == est \/ Shaking
Served == IF est THEN e2e.n ELSE inb.n
ServedKey == IF est THEN e2e.key ELSE inb.key
ServedCalls == IF est THEN e2e.recv ELSE 0

\* There is a session or a handshake, never both, and no key but of a handshake.
OneSession ==
    /\ est <=> e2e.key # 0
    /\ Shaking => ~est /\ inb.key <= hellos
    /\ inb.pc \in {"dispatch", "respond"} => est
    /\ e2e.key <= hellos /\ client.key <= hellos
    /\ \A f \in Frames : f.key <= hellos
    /\ client.key = 0 => client.send = 0

\* Each client is given one key.
Keyed ==
    \E k \in [Clients -> Nat] :
        /\ \A f \in Frames : f.key = k[f.n]
        /\ InService => ServedKey = k[Served]
        /\ client.key # 0 => client.n \in Clients /\ client.key = k[client.n]

\* The client that is served is the newest of those that were answered.
Newest ==
    /\ \A f \in Frames : f.n <= client.n /\ (InService => f.n <= Served)
    /\ InService => Served <= client.n
    /\ InService /\ client.key # 0 => client.n <= Served

\* A hello under way is of a client newer than every answer.
HelloNew(i) ==
    /\ up[i].n <= client.n /\ client.key = 0
    /\ \A f \in Frames : f.n < up[i].n
    /\ InService => Served < up[i].n
    /\ \A j \in DOMAIN up : i < j /\ up[j].type = "e2e_hello" => up[i].n < up[j].n

\* The relay's notice comes just before a hello, and ends the session before it.
HelloNoticed(i) ==
    IF i = 1 THEN ~est /\ inb = Rel!Read ELSE up[i - 1].type = "client_connected"

Unanswered ==
    /\ \A i \in DOMAIN up : up[i].type = "e2e_hello" => HelloNew(i) /\ HelloNoticed(i)
    /\ \A i \in DOMAIN up : up[i].type = "client_connected" =>
         i + 1 \in DOMAIN up /\ up[i + 1].type = "e2e_hello"
    /\ \A i, j \in DOMAIN up : i < j /\ up[j].type = "e2e" => up[i].type = "e2e"

\* The requests under way are those of the client that is served, in order, and
\* that client has counted them all.
CallsCounted ==
    /\ InService => \A i \in DOMAIN up : up[i].type = "e2e" =>
         up[i].key = ServedKey /\ up[i].counter = ServedCalls + i - 1
    /\ InService /\ Served = client.n => client.send = ServedCalls + Len(up)

HelloAt(i) == out[i].type = "e2e_hello" /\ out[i].n = client.n

\* Something is encrypted for the client that has just connected, or will be.
ForClient ==
    \/ est /\ e2e.n = client.n
    \/ fwd.pc = "send" /\ fwd.frame.n = client.n
    \/ inb.pc = "send" /\ inb.frame.n = client.n
    \/ inb.pc = "activate" /\ inb.n = client.n

\* While the client has no key, the hello is ahead of everything made for it.
HelloAhead ==
    client.key = 0 =>
        /\ \A i \in DOMAIN out : out[i].type = "e2e" /\ out[i].n = client.n =>
             \E j \in DOMAIN out : j < i /\ HelloAt(j)
        /\ ForClient => \E j \in DOMAIN out : HelloAt(j)

Linked == Keyed /\ Newest /\ Unanswered /\ CallsCounted

RelayInv == RelayTypes /\ OneSession /\ Linked /\ HelloAhead

LEMMA FrameTypes ==
    ASSUME RelayTypes
    PROVE  \A f \in Frames : f.n \in Clients /\ f.key \in Nat \ {0}
BY DEF RelayTypes, Frames, CallOut, HelloOut, FwdState, InbState, Rel!Read

LEMMA RelayInit == Rel!Init => RelayInv
<1> SUFFICES ASSUME Rel!Init PROVE RelayInv
  OBVIOUS
<1> USE RelayAssumption
<1>1. RelayTypes
  <2>1. Rel!NoClient \in RemoteClient
    BY DEF Rel!NoClient, RemoteClient
  <2>2. Rel!Read \in InbState
    BY DEF Rel!Read, InbState
  <2>3. up \in Seq(UpFrame) /\ out \in Seq(CallOut \cup HelloOut) /\ Len(out) <= ChannelCap
    BY DEF Rel!Init
  <2>4. inb \in InbState /\ client \in RemoteClient /\ fwd \in FwdState
    BY <2>1, <2>2 DEF Rel!Init, FwdState
  <2>5. backoff \in Rel!Backoffs /\ e2e \in {Rel!NoSession} \cup RelaySession
    BY DEF Rel!Init, Rel!Backoffs
  <2>6. /\ events \in Nat /\ nEvents \in 0 .. MaxEvents /\ events <= nEvents
        /\ hellos \in Nat /\ drops \in 0 .. MaxDrops /\ conn \in {"up", "down"}
    BY DEF Rel!Init
  <2>7. est \in BOOLEAN
    BY DEF Rel!Init
  <2> QED BY <2>3, <2>4, <2>5, <2>6, <2>7 DEF RelayTypes
<1>2. Frames = {} /\ ~InService
  BY DEF Rel!Init, Frames, InService, Shaking, Rel!Read
<1>3. OneSession
  BY <1>2 DEF Rel!Init, OneSession, Rel!NoSession, Rel!NoClient, Shaking, Rel!Read
<1>4. Keyed
  <2>1. [c \in Clients |-> 0] \in [Clients -> Nat]
    OBVIOUS
  <2> QED BY <2>1, <1>2 DEF Keyed, Rel!Init, Rel!NoClient
<1>5. Newest /\ Unanswered /\ CallsCounted
  BY <1>2 DEF Rel!Init, Newest, Unanswered, CallsCounted
<1>6. HelloAhead
  BY DEF Rel!Init, HelloAhead, ForClient, Rel!Read
<1> QED BY <1>1, <1>3, <1>4, <1>5, <1>6 DEF RelayInv, Linked

\* A step of the daemon that reads no frame and serves the client it served keeps
\* what links the two ends.
LEMMA LinkedKept ==
    ASSUME RelayTypes, Linked, UNCHANGED <<up, client>>,
           InService' <=> InService,
           InService => Served' = Served /\ ServedKey' = ServedKey /\ ServedCalls' = ServedCalls,
           ~est /\ inb = Rel!Read => ~est' /\ inb' = Rel!Read,
           \A f \in Frames' : f \in Frames \/ (InService /\ f.n = Served /\ f.key = ServedKey)
    PROVE  Linked'
<1>1. Keyed'
  <2>1. PICK k \in [Clients -> Nat] :
           /\ \A f \in Frames : f.key = k[f.n]
           /\ InService => ServedKey = k[Served]
           /\ client.key # 0 => client.n \in Clients /\ client.key = k[client.n]
    BY DEF Linked, Keyed
  <2> QED BY <2>1 DEF Keyed
<1>2. Newest'
  <2>1. InService => Served \in Nat
    BY DEF RelayTypes, InService, Served, Shaking, InbState, RelaySession, Clients, Rel!NoSession
  <2> QED BY <2>1 DEF Linked, Newest
<1>3. ASSUME NEW i \in DOMAIN up, up[i].type = "e2e_hello"
      PROVE  HelloNew(i)' /\ HelloNoticed(i)'
  <2>1. HelloNew(i) /\ HelloNoticed(i)
    BY <1>3 DEF Linked, Unanswered
  <2>2. HelloNew(i)'
    BY <2>1 DEF HelloNew
  <2>3. HelloNoticed(i)'
    BY <2>1 DEF HelloNoticed
  <2> QED BY <2>2, <2>3
<1>4. Unanswered'
  <2>1. /\ \A i \in DOMAIN up : up[i].type = "client_connected" =>
             i + 1 \in DOMAIN up /\ up[i + 1].type = "e2e_hello"
        /\ \A i, j \in DOMAIN up : i < j /\ up[j].type = "e2e" => up[i].type = "e2e"
    BY DEF Linked, Unanswered
  <2> QED BY <2>1, <1>3 DEF Unanswered
<1>5. CallsCounted'
  BY DEF Linked, CallsCounted
<1> QED BY <1>1, <1>2, <1>4, <1>5 DEF Linked

\* A step that sends nothing, and begins nothing for the client.
LEMMA AheadKept ==
    ASSUME HelloAhead, UNCHANGED <<out, client>>, ForClient' => ForClient
    PROVE  HelloAhead'
BY DEF HelloAhead, HelloAt

\* A step that puts a frame into the channel.
LEMMA AheadAppended ==
    ASSUME HelloAhead, out \in Seq(CallOut \cup HelloOut), NEW f,
           out' = Append(out, f), client' = client,
           f.type = "e2e" /\ f.n = client.n => ForClient,
           ForClient' => ForClient
    PROVE  HelloAhead'
<1> SUFFICES ASSUME client.key = 0
             PROVE  HelloAhead'
  BY DEF HelloAhead
<1>1. /\ DOMAIN out' = 1 .. Len(out) + 1 /\ DOMAIN out = 1 .. Len(out) /\ Len(out) \in Nat
      /\ \A i \in DOMAIN out : out'[i] = out[i]
      /\ out'[Len(out) + 1] = f
  OBVIOUS
<1>2. ForClient => \E j \in DOMAIN out : HelloAt(j)
  BY DEF HelloAhead
<1>3. \A j \in DOMAIN out : HelloAt(j)' <=> HelloAt(j)
  BY <1>1 DEF HelloAt
<1>4. \A j \in DOMAIN out : j \in DOMAIN out' /\ j < Len(out) + 1
  BY <1>1
<1>5. ASSUME NEW i \in DOMAIN out', out'[i].type = "e2e", out'[i].n = client.n
      PROVE  \E j \in DOMAIN out' : j < i /\ HelloAt(j)'
  <2>1. CASE i \in DOMAIN out
    BY <2>1, <1>1, <1>3, <1>4, <1>5 DEF HelloAhead
  <2>2. CASE i = Len(out) + 1
    BY <2>2, <1>1, <1>2, <1>3, <1>4, <1>5
  <2> QED BY <2>1, <2>2, <1>1
<1> QED BY <1>2, <1>3, <1>4, <1>5 DEF HelloAhead

\* A frame that enters the channel was the daemon's already.
LEMMA AppendedType ==
    ASSUME RelayTypes, NEW f \in CallOut \cup HelloOut, Len(out) < ChannelCap,
           out' = Append(out, f)
    PROVE  /\ out' \in Seq(CallOut \cup HelloOut) /\ Len(out') <= ChannelCap
           /\ {out'[i] : i \in DOMAIN out'} = {out[i] : i \in DOMAIN out} \cup {f}
<1>1. out \in Seq(CallOut \cup HelloOut) /\ Len(out) \in Nat
  BY DEF RelayTypes
<1>2. out' \in Seq(CallOut \cup HelloOut) /\ Len(out') = Len(out) + 1
  BY <1>1
<1>3. /\ DOMAIN out' = 1 .. Len(out) + 1 /\ DOMAIN out = 1 .. Len(out)
      /\ \A i \in DOMAIN out : out'[i] = out[i]
      /\ out'[Len(out) + 1] = f
  BY <1>1
<1>4. {out'[i] : i \in DOMAIN out'} = {out[i] : i \in DOMAIN out} \cup {f}
  BY <1>1, <1>3
<1> QED BY <1>1, <1>2, <1>4, RelayAssumption

LEMMA RelayInHello ==
    ASSUME RelayInv, Rel!InHello
    PROVE  RelayInv'
<1> USE DEF RelayInv
<1> DEFINE f == [type |-> "e2e_hello", n |-> inb.n, key |-> inb.key]
<1>1. /\ inb.n \in Clients /\ inb.key \in Nat \ {0} /\ inb.pc = "hello"
      /\ inb' = [pc |-> "activate", n |-> inb.n, key |-> inb.key]
  BY DEF Rel!InHello, RelayTypes, InbState
<1>2. f \in HelloOut
  BY <1>1 DEF HelloOut
<1>3. out' = Append(out, f) /\ Len(out) < ChannelCap
  BY DEF Rel!InHello
<1>4. /\ out' \in Seq(CallOut \cup HelloOut) /\ Len(out') <= ChannelCap
      /\ {out'[i] : i \in DOMAIN out'} = {out[i] : i \in DOMAIN out} \cup {f}
  BY <1>2, <1>3, AppendedType
<1>5. inb' \in InbState
  BY <1>1 DEF InbState
<1>6. RelayTypes'
  BY <1>4, <1>5 DEF Rel!InHello, RelayTypes
<1>7. f.type = "e2e_hello" /\ f.n = inb.n /\ f.key = inb.key
  OBVIOUS
<1> HIDE DEF f
<1>8. Frames' \subseteq Frames \cup {f}
  BY <1>1, <1>4 DEF Frames, Rel!InHello
<1>9. Shaking /\ Shaking' /\ ~est /\ ~est'
  BY <1>1 DEF OneSession, Shaking, Rel!InHello
<1>10. OneSession'
  BY <1>1, <1>7, <1>8, <1>9 DEF OneSession, Rel!InHello
<1>11. Linked'
  <2>1. InService /\ InService' /\ Served' = Served /\ ServedKey' = ServedKey /\ ServedCalls' = ServedCalls
    BY <1>1, <1>9 DEF InService, Served, ServedKey, ServedCalls
  <2>2. \A g \in Frames' : g \in Frames \/ (InService /\ g.n = Served /\ g.key = ServedKey)
    BY <1>7, <1>8, <1>9, <2>1 DEF Served, ServedKey
  <2>3. ~(inb = Rel!Read) /\ UNCHANGED <<up, client>>
    BY <1>1 DEF Rel!Read, Rel!InHello
  <2> QED BY <2>1, <2>2, <2>3, LinkedKept
<1>12. HelloAhead'
  <2>1. CASE inb.n # client.n
    <3>1. ForClient' => ForClient
      BY <1>1, <1>9, <2>1 DEF ForClient, Rel!InHello
    <3> QED BY <3>1, <1>3, <1>7, AheadAppended DEF Rel!InHello, RelayTypes
  <2>2. CASE inb.n = client.n
    <3>1. /\ DOMAIN out' = 1 .. Len(out) + 1 /\ DOMAIN out = 1 .. Len(out) /\ Len(out) \in Nat
          /\ \A i \in DOMAIN out : out'[i] = out[i]
          /\ out'[Len(out) + 1] = f /\ client' = client
      BY <1>3 DEF RelayTypes, Rel!InHello
    <3>2. PICK m \in DOMAIN out' : m = Len(out) + 1
      BY <3>1
    <3>5. HelloAt(m)'
      BY <3>1, <3>2, <1>7, <2>2 DEF HelloAt
    <3>3. \A j \in DOMAIN out : HelloAt(j)' <=> HelloAt(j)
      BY <3>1 DEF HelloAt
    <3>4. ASSUME client.key = 0, NEW i \in DOMAIN out', out'[i].type = "e2e", out'[i].n = client.n
          PROVE  \E j \in DOMAIN out' : j < i /\ HelloAt(j)'
      <4>1. i \in DOMAIN out /\ out'[i] = out[i]
        BY <3>1, <3>4, <1>7
      <4>2. PICK j \in DOMAIN out : j < i /\ HelloAt(j)
        BY <4>1, <3>4 DEF HelloAhead
      <4> QED BY <4>2, <3>1, <3>3
    <3> QED BY <3>1, <3>4, <3>5 DEF HelloAhead
  <2> QED BY <2>1, <2>2
<1> QED BY <1>6, <1>10, <1>11, <1>12

LEMMA RelayInActivate ==
    ASSUME RelayInv, Rel!InActivate
    PROVE  RelayInv'
<1> USE DEF RelayInv
<1>1. /\ inb.n \in Clients /\ inb.key \in Nat \ {0} /\ inb.pc = "activate"
      /\ inb' = Rel!Read /\ est' = TRUE
      /\ e2e' = [key |-> inb.key, n |-> inb.n, send |-> 0, recv |-> 0]
  BY DEF Rel!InActivate, RelayTypes, InbState
<1>2. e2e' \in RelaySession /\ inb' \in InbState
  BY <1>1, RelayAssumption DEF RelaySession, InbState, Rel!Read
<1>3. RelayTypes'
  BY <1>1, <1>2 DEF Rel!InActivate, RelayTypes
<1>4. Frames' \subseteq Frames
  BY <1>1 DEF Frames, Rel!InActivate, Rel!Read
<1>5. Shaking /\ ~Shaking' /\ ~est /\ est' /\ inb'.pc = "read"
  BY <1>1 DEF OneSession, Shaking, Rel!Read
<1>6. OneSession'
  BY <1>1, <1>4, <1>5 DEF OneSession, Rel!InActivate
<1>7. Linked'
  <2>1. InService /\ InService' /\ Served' = Served /\ ServedKey' = ServedKey /\ ServedCalls' = ServedCalls
    BY <1>1, <1>5 DEF InService, Served, ServedKey, ServedCalls
  <2>2. ~(inb = Rel!Read) /\ UNCHANGED <<up, client>>
    BY <1>1 DEF Rel!Read, Rel!InActivate
  <2> QED BY <2>1, <2>2, <1>4, LinkedKept
<1>8. HelloAhead'
  <2>1. ForClient' => ForClient
    BY <1>1, <1>5 DEF ForClient, Rel!InActivate
  <2> QED BY <2>1, AheadKept DEF Rel!InActivate
<1> QED BY <1>3, <1>6, <1>7, <1>8

LEMMA RelayInDispatch ==
    ASSUME RelayInv, Rel!InDispatch
    PROVE  RelayInv'
<1> USE DEF RelayInv
<1>1. inb.pc = "dispatch" /\ inb' = [pc |-> "respond"] /\ inb'.pc = "respond"
  BY DEF Rel!InDispatch
<1>2. inb' \in InbState
  BY <1>1 DEF InbState
<1>3. RelayTypes'
  BY <1>2 DEF Rel!InDispatch, RelayTypes
<1>4. Frames' \subseteq Frames
  BY <1>1 DEF Frames, Rel!InDispatch
<1>5. ~Shaking /\ ~Shaking' /\ est /\ est'
  BY <1>1 DEF OneSession, Shaking, Rel!InDispatch
<1>6. OneSession'
  BY <1>1, <1>4, <1>5 DEF OneSession, Rel!InDispatch
<1>7. Linked'
  <2>1. InService /\ InService' /\ Served' = Served /\ ServedKey' = ServedKey /\ ServedCalls' = ServedCalls
    BY <1>5 DEF InService, Served, ServedKey, ServedCalls, Rel!InDispatch
  <2> QED BY <2>1, <1>4, <1>5, LinkedKept DEF Rel!InDispatch
<1>8. HelloAhead'
  <2>1. ForClient' => ForClient
    BY <1>1, <1>5 DEF ForClient, Rel!InDispatch
  <2> QED BY <2>1, AheadKept DEF Rel!InDispatch
<1> QED BY <1>3, <1>6, <1>7, <1>8

\* The frame that a session encrypts is for the client that is served.
LEMMA SessionFrame ==
    ASSUME RelayInv, est, NEW r \in BOOLEAN, e2e' = [e2e EXCEPT !.send = @ + 1]
    PROVE  /\ Rel!Frame(r) \in CallOut
           /\ Rel!Frame(r).n = e2e.n /\ Rel!Frame(r).key = e2e.key
           /\ e2e' \in RelaySession
           /\ e2e'.key = e2e.key /\ e2e'.n = e2e.n /\ e2e'.recv = e2e.recv
<1>1. e2e \in RelaySession
  BY DEF RelayInv, RelayTypes, OneSession, Rel!NoSession
<1> QED BY <1>1 DEF Rel!Frame, CallOut, RelaySession

LEMMA RelayInRespond ==
    ASSUME RelayInv, Rel!InRespond
    PROVE  RelayInv'
<1> USE DEF RelayInv
<1>1. inb.pc = "respond" /\ est /\ est' = est /\ e2e' = [e2e EXCEPT !.send = @ + 1]
  BY DEF Rel!InRespond, OneSession
<1>2. PICK f \in CallOut : f = Rel!Frame(TRUE) /\ f.n = e2e.n /\ f.key = e2e.key
  BY <1>1, SessionFrame
<1>3. /\ e2e' \in RelaySession
      /\ e2e'.key = e2e.key /\ e2e'.n = e2e.n /\ e2e'.recv = e2e.recv
  BY <1>1, SessionFrame
<1>4. inb' = [pc |-> "send", frame |-> f] /\ inb'.pc = "send" /\ inb'.frame = f
  BY <1>2 DEF Rel!InRespond
<1>5. inb' \in InbState
  BY <1>4 DEF InbState
<1>6. RelayTypes'
  BY <1>3, <1>5 DEF Rel!InRespond, RelayTypes
<1>7. Frames' \subseteq Frames \cup {f}
  BY <1>4 DEF Frames, Rel!InRespond
<1>8. ~Shaking /\ ~Shaking'
  BY <1>1, <1>4 DEF Shaking
<1>9. OneSession'
  <2>1. \A g \in Frames' : g.key <= hellos'
    BY <1>1, <1>2, <1>3, <1>4, <1>7, <1>8 DEF OneSession, Rel!InRespond
  <2>2. (est' <=> e2e'.key # 0) /\ e2e'.key <= hellos' /\ client'.key <= hellos'
    BY <1>1, <1>2, <1>3, <1>4, <1>7, <1>8 DEF OneSession, Rel!InRespond
  <2> QED BY <2>1, <2>2, <1>1, <1>2, <1>3, <1>4, <1>7, <1>8 DEF OneSession, Rel!InRespond
<1>10. Linked'
  <2>1. InService /\ InService' /\ Served' = Served /\ ServedKey' = ServedKey /\ ServedCalls' = ServedCalls
    BY <1>1, <1>3 DEF InService, Served, ServedKey, ServedCalls
  <2>2. \A g \in Frames' : g \in Frames \/ (InService /\ g.n = Served /\ g.key = ServedKey)
    BY <1>1, <1>2, <1>7, <2>1 DEF Served, ServedKey
  <2> QED BY <2>1, <2>2, <1>1, LinkedKept DEF Rel!InRespond
<1>11. HelloAhead'
  <2>1. ForClient' => ForClient
    BY <1>1, <1>2, <1>3, <1>4 DEF ForClient, Rel!InRespond
  <2> QED BY <2>1, AheadKept DEF Rel!InRespond
<1> QED BY <1>6, <1>9, <1>10, <1>11

LEMMA RelayInSend ==
    ASSUME RelayInv, Rel!InSend
    PROVE  RelayInv'
<1> USE DEF RelayInv
<1>1. inb.pc = "send" /\ inb.frame \in CallOut /\ inb' = Rel!Read /\ inb'.pc = "read"
  BY DEF Rel!InSend, RelayTypes, InbState, Rel!Read
<1>2. PICK f \in CallOut : f = inb.frame
  BY <1>1
<1>3. out' = Append(out, f) /\ Len(out) < ChannelCap
  BY <1>2 DEF Rel!InSend
<1>4. /\ out' \in Seq(CallOut \cup HelloOut) /\ Len(out') <= ChannelCap
      /\ {out'[i] : i \in DOMAIN out'} = {out[i] : i \in DOMAIN out} \cup {f}
  BY <1>3, AppendedType
<1>5. inb' \in InbState
  BY <1>1 DEF InbState, Rel!Read
<1>6. RelayTypes'
  BY <1>4, <1>5 DEF Rel!InSend, RelayTypes
<1>7. Frames' \subseteq Frames
  BY <1>1, <1>2, <1>4 DEF Frames, Rel!InSend
<1>8. ~Shaking /\ ~Shaking' /\ ~(inb = Rel!Read)
  BY <1>1 DEF Shaking, Rel!Read
<1>9. OneSession'
  BY <1>1, <1>7, <1>8 DEF OneSession, Rel!InSend
<1>10. Linked'
  <2>1. /\ InService' <=> InService
        /\ InService => Served' = Served /\ ServedKey' = ServedKey /\ ServedCalls' = ServedCalls
    BY <1>8 DEF InService, Served, ServedKey, ServedCalls, Rel!InSend
  <2> QED BY <2>1, <1>7, <1>8, LinkedKept DEF Rel!InSend
<1>11. HelloAhead'
  <2>1. ForClient' => ForClient
    BY <1>1 DEF ForClient, Rel!InSend
  <2>2. f.n = client.n => ForClient
    BY <1>1, <1>2 DEF ForClient
  <2> QED BY <2>1, <2>2, <1>3, AheadAppended DEF Rel!InSend, RelayTypes
<1> QED BY <1>6, <1>9, <1>10, <1>11

LEMMA RelayFwdSend ==
    ASSUME RelayInv, Rel!FwdSend
    PROVE  RelayInv'
<1> USE DEF RelayInv
<1>1. fwd.pc = "send" /\ fwd.frame \in CallOut /\ fwd' = Rel!Read /\ fwd'.pc = "read"
  BY DEF Rel!FwdSend, RelayTypes, FwdState, Rel!Read
<1>2. PICK f \in CallOut : f = fwd.frame
  BY <1>1
<1>3. out' = Append(out, f) /\ Len(out) < ChannelCap
  BY <1>2 DEF Rel!FwdSend
<1>4. /\ out' \in Seq(CallOut \cup HelloOut) /\ Len(out') <= ChannelCap
      /\ {out'[i] : i \in DOMAIN out'} = {out[i] : i \in DOMAIN out} \cup {f}
  BY <1>3, AppendedType
<1>5. RelayTypes'
  BY <1>1, <1>4 DEF Rel!FwdSend, RelayTypes, FwdState
<1>6. Frames' \subseteq Frames
  BY <1>1, <1>2, <1>4 DEF Frames, Rel!FwdSend
<1>7. Shaking' <=> Shaking
  BY DEF Shaking, Rel!FwdSend
<1>8. OneSession'
  BY <1>6, <1>7 DEF OneSession, Rel!FwdSend
<1>9. Linked'
  <2>1. /\ InService' <=> InService
        /\ InService => Served' = Served /\ ServedKey' = ServedKey /\ ServedCalls' = ServedCalls
    BY <1>7 DEF InService, Served, ServedKey, ServedCalls, Rel!FwdSend
  <2> QED BY <2>1, <1>6, LinkedKept DEF Rel!FwdSend
<1>10. HelloAhead'
  <2>1. ForClient' => ForClient
    BY <1>1 DEF ForClient, Rel!FwdSend
  <2>2. f.n = client.n => ForClient
    BY <1>1, <1>2 DEF ForClient
  <2> QED BY <2>1, <2>2, <1>3, AheadAppended DEF Rel!FwdSend, RelayTypes
<1> QED BY <1>5, <1>8, <1>9, <1>10

\* The steps that leave the frames, the session and the client alone.
LEMMA RelayIdle ==
    ASSUME RelayInv,
           UNCHANGED <<up, out, e2e, est, inb, fwd, hellos, client>>,
           RelayTypes'
    PROVE  RelayInv'
<1> USE DEF RelayInv
<1>1. OneSession' /\ Keyed' /\ Newest' /\ CallsCounted' /\ HelloAhead'
  BY DEF OneSession, Keyed, Newest, CallsCounted, HelloAhead, Linked, Frames, Shaking, InService,
         Served, ServedKey, ServedCalls, HelloAt, ForClient
<1>2. Unanswered'
  BY DEF Linked, Unanswered, HelloNew, HelloNoticed, Frames, Shaking, InService, Served
<1> QED BY <1>1, <1>2 DEF Linked

LEMMA BackoffType ==
    backoff \in Rel!Backoffs => Rel!NextBackoff \in Rel!Backoffs
BY DEF Rel!Backoffs, Rel!NextBackoff

LEMMA RelayBroadcast ==
    ASSUME RelayInv, Rel!Broadcast
    PROVE  RelayInv'
<1>1. RelayTypes'
  <2>1. events' \in Nat /\ nEvents' \in 0 .. MaxEvents /\ events' <= nEvents'
    BY RelayAssumption DEF RelayInv, RelayTypes, Rel!Broadcast
  <2> QED BY <2>1 DEF RelayInv, RelayTypes, Rel!Broadcast
<1> QED BY <1>1, RelayIdle DEF Rel!Broadcast

LEMMA RelayFwdLagged ==
    ASSUME RelayInv, Rel!FwdLagged
    PROVE  RelayInv'
<1>1. RelayTypes'
  <2>1. events' \in Nat /\ nEvents' \in 0 .. MaxEvents /\ events' <= nEvents'
    BY RelayAssumption DEF RelayInv, RelayTypes, Rel!FwdLagged
  <2> QED BY <2>1 DEF RelayInv, RelayTypes, Rel!FwdLagged
<1> QED BY <1>1, RelayIdle DEF Rel!FwdLagged

LEMMA RelayReconnect ==
    ASSUME RelayInv, Rel!Reconnect \/ Rel!ConnectFails
    PROVE  RelayInv'
<1>1. backoff' \in Rel!Backoffs /\ conn' \in {"up", "down"}
  <2>1. CASE Rel!Reconnect
    BY <2>1 DEF Rel!Reconnect, Rel!Backoffs
  <2>2. CASE Rel!ConnectFails
    BY <2>2, BackoffType DEF Rel!ConnectFails, RelayInv, RelayTypes
  <2> QED BY <2>1, <2>2
<1>2. RelayTypes'
  BY <1>1 DEF RelayInv, RelayTypes, Rel!Reconnect, Rel!ConnectFails
<1>3. UNCHANGED <<up, out, e2e, est, inb, fwd, hellos, client>>
  BY DEF Rel!Reconnect, Rel!ConnectFails
<1> QED BY <1>2, <1>3, RelayIdle

LEMMA RelayFwdRead ==
    ASSUME RelayInv, Rel!FwdRead
    PROVE  RelayInv'
<1> USE DEF RelayInv
<1>1. events' \in Nat /\ nEvents' \in 0 .. MaxEvents /\ events' <= nEvents'
  BY RelayAssumption DEF RelayTypes, Rel!FwdRead
<1>2. CASE e2e.key = 0
  <2>1. UNCHANGED <<up, out, e2e, est, inb, fwd, hellos, client>>
    BY <1>2 DEF Rel!FwdRead
  <2>2. RelayTypes'
    BY <2>1, <1>1 DEF RelayTypes, Rel!FwdRead
  <2> QED BY <2>1, <2>2, RelayIdle
<1>3. CASE e2e.key # 0
  <2>1. est /\ est' = est /\ e2e' = [e2e EXCEPT !.send = @ + 1]
    BY <1>3 DEF Rel!FwdRead, OneSession
  <2>2. PICK f \in CallOut : f = Rel!Frame(FALSE) /\ f.n = e2e.n /\ f.key = e2e.key
    BY <2>1, SessionFrame
  <2>3. /\ e2e' \in RelaySession
        /\ e2e'.key = e2e.key /\ e2e'.n = e2e.n /\ e2e'.recv = e2e.recv
    BY <2>1, SessionFrame
  <2>4. fwd' = [pc |-> "send", frame |-> f] /\ fwd'.pc = "send" /\ fwd'.frame = f
    <3>1. fwd' = [pc |-> "send", frame |-> Rel!Frame(FALSE)]
      BY <1>3 DEF Rel!FwdRead
    <3> QED BY <3>1, <2>2
  <2>5. fwd' \in FwdState
    BY <2>4 DEF FwdState
  <2>6. RelayTypes'
    BY <1>1, <2>3, <2>5 DEF Rel!FwdRead, RelayTypes
  <2>7. Frames' \subseteq Frames \cup {f}
    BY <2>4 DEF Frames, Rel!FwdRead
  <2>8. Shaking' <=> Shaking
    BY DEF Shaking, Rel!FwdRead
  <2>9. OneSession'
    <3>1. \A g \in Frames' : g.key <= hellos'
      BY <2>1, <2>2, <2>3, <2>7, <2>8 DEF OneSession, Rel!FwdRead
    <3>2. (est' <=> e2e'.key # 0) /\ e2e'.key <= hellos' /\ client'.key <= hellos'
      BY <2>1, <2>2, <2>3, <2>7, <2>8 DEF OneSession, Rel!FwdRead
    <3> QED BY <3>1, <3>2, <2>1, <2>2, <2>3, <2>7, <2>8 DEF OneSession, Rel!FwdRead
  <2>10. Linked'
    <3>1. InService /\ InService' /\ Served' = Served /\ ServedKey' = ServedKey /\ ServedCalls' = ServedCalls
      BY <2>1, <2>3 DEF InService, Served, ServedKey, ServedCalls
    <3>2. \A g \in Frames' : g \in Frames \/ (InService /\ g.n = Served /\ g.key = ServedKey)
      BY <2>1, <2>2, <2>7, <3>1 DEF Served, ServedKey
    <3> QED BY <3>1, <3>2, <2>1, LinkedKept DEF Rel!FwdRead
  <2>11. HelloAhead'
    <3>1. ForClient' => ForClient
      BY <2>1, <2>2, <2>3, <2>4 DEF ForClient, Rel!FwdRead
    <3> QED BY <3>1, AheadKept DEF Rel!FwdRead
  <2> QED BY <2>6, <2>9, <2>10, <2>11
<1> QED BY <1>2, <1>3

LEMMA UpTail ==
    ASSUME RelayTypes, up # <<>>
    PROVE  /\ Len(up) \in Nat \ {0} /\ DOMAIN up = 1 .. Len(up)
           /\ Head(up) = up[1] /\ up[1] \in UpFrame
           /\ Tail(up) \in Seq(UpFrame) /\ Len(Tail(up)) = Len(up) - 1
           /\ DOMAIN Tail(up) = 1 .. Len(up) - 1
           /\ \A i \in DOMAIN Tail(up) : Tail(up)[i] = up[i + 1] /\ i + 1 \in DOMAIN up
BY DEF RelayTypes

\* When a frame has been read, the hellos behind it are still to be answered.
LEMMA TailUnanswered ==
    ASSUME RelayTypes, Linked, up # <<>>, up' = Tail(up), client' = client,
           Frames' \subseteq Frames,
           up[1].type = "client_connected" => ~est' /\ inb' = Rel!Read,
           \A i \in DOMAIN up : InService' /\ i > 1 /\ up[i].type = "e2e_hello" => Served' < up[i].n
    PROVE  Unanswered'
<1>1. /\ Len(up) \in Nat \ {0} /\ DOMAIN up = 1 .. Len(up)
      /\ DOMAIN up' = 1 .. Len(up) - 1
      /\ \A i \in DOMAIN up' : up'[i] = up[i + 1] /\ i + 1 \in DOMAIN up
  BY UpTail
<1>2. ASSUME NEW i \in DOMAIN up', up'[i].type = "e2e_hello"
      PROVE  HelloNew(i)' /\ HelloNoticed(i)'
  <2>1. i \in Nat \ {0} /\ i + 1 \in DOMAIN up /\ up[i + 1].type = "e2e_hello" /\ up'[i] = up[i + 1]
    BY <1>1, <1>2
  <2>2. PICK h \in DOMAIN up : h = i + 1
    BY <2>1
  <2>3. HelloNew(h) /\ HelloNoticed(h)
    BY <2>1, <2>2 DEF Linked, Unanswered
  <2>4. up'[i] = up[h] /\ h > 1 /\ h # 1 /\ h - 1 = i
    BY <2>1, <2>2
  <2>5. InService' => Served' < up[h].n
    BY <2>1, <2>2, <2>4
  <2>6. \A j \in DOMAIN up' : i < j /\ up'[j].type = "e2e_hello" => up'[i].n < up'[j].n
    <3> SUFFICES ASSUME NEW j \in DOMAIN up', i < j, up'[j].type = "e2e_hello"
                 PROVE  up'[i].n < up'[j].n
      OBVIOUS
    <3>1. PICK g \in DOMAIN up : g = j + 1 /\ up'[j] = up[g]
      BY <1>1
    <3>2. h < g
      BY <1>1, <2>1, <2>2, <3>1
    <3> QED BY <3>1, <3>2, <2>3, <2>4 DEF HelloNew
  <2>7. HelloNew(i)'
    BY <2>3, <2>4, <2>5, <2>6 DEF HelloNew
  <2>8. up[i].type = "client_connected"
    BY <2>3, <2>4 DEF HelloNoticed
  <2>9. HelloNoticed(i)'
    <3>1. CASE i = 1
      BY <3>1, <2>8 DEF HelloNoticed
    <3>2. CASE i # 1
      <4>1. i - 1 \in DOMAIN up' /\ up'[i - 1] = up[i]
        BY <1>1, <2>1, <3>2
      <4> QED BY <4>1, <3>2, <2>8 DEF HelloNoticed
    <3> QED BY <3>1, <3>2
  <2> QED BY <2>7, <2>9
<1>3. ASSUME NEW i \in DOMAIN up', up'[i].type = "client_connected"
      PROVE  i + 1 \in DOMAIN up' /\ up'[i + 1].type = "e2e_hello"
  <2>1. PICK h \in DOMAIN up : h = i + 1 /\ up'[i] = up[h]
    BY <1>1
  <2>2. h + 1 \in DOMAIN up /\ up[h + 1].type = "e2e_hello"
    BY <1>3, <2>1 DEF Linked, Unanswered
  <2>3. i + 1 \in DOMAIN up'
    BY <1>1, <2>1, <2>2
  <2> QED BY <1>1, <2>1, <2>2, <2>3
<1>4. ASSUME NEW i \in DOMAIN up', NEW j \in DOMAIN up', i < j, up'[j].type = "e2e"
      PROVE  up'[i].type = "e2e"
  <2>1. PICK g \in DOMAIN up : g = i + 1 /\ up'[i] = up[g]
    BY <1>1
  <2>2. PICK h \in DOMAIN up : h = j + 1 /\ up'[j] = up[h]
    BY <1>1
  <2>3. g < h
    BY <1>1, <1>4, <2>1, <2>2
  <2> QED BY <1>4, <2>1, <2>2, <2>3 DEF Linked, Unanswered
<1> QED BY <1>2, <1>3, <1>4 DEF Unanswered

\* The relay says that another client has connected: the session ends.
LEMMA RelayReadNotice ==
    ASSUME RelayInv, inb = Rel!Read, up # <<>>, up' = Tail(up),
           up[1].type = "client_connected", e2e' = Rel!NoSession, est' = FALSE,
           UNCHANGED <<inb, hellos, out, fwd, events, backoff, conn, nEvents, drops, client>>
    PROVE  RelayInv'
<1> USE DEF RelayInv
<1>1. RelayTypes'
  BY UpTail DEF RelayTypes
<1>2. inb.pc = "read" /\ ~Shaking /\ ~Shaking' /\ ~InService'
  BY DEF Rel!Read, Shaking, InService
<1>3. Frames' = Frames
  BY DEF Frames
<1>4. OneSession'
  <2>1. e2e'.key = 0 /\ inb'.pc = "read"
    BY <1>2 DEF Rel!NoSession
  <2>2. hellos \in Nat
    BY DEF RelayTypes
  <2> QED BY <1>2, <1>3, <2>1, <2>2 DEF OneSession
<1>5. Linked'
  <2>1. Unanswered'
    BY <1>2, <1>3, TailUnanswered
  <2>2. Keyed' /\ Newest' /\ CallsCounted'
    BY <1>2, <1>3 DEF Linked, Keyed, Newest, CallsCounted
  <2> QED BY <2>1, <2>2 DEF Linked
<1>6. HelloAhead'
  <2>1. ForClient' => ForClient
    BY DEF ForClient
  <2> QED BY <2>1, AheadKept
<1> QED BY <1>1, <1>4, <1>5, <1>6

\* A hello is read: its client is new to the daemon, and gets a new key.
LEMMA RelayReadHello ==
    ASSUME RelayInv, inb = Rel!Read, up # <<>>, up' = Tail(up),
           up[1].type = "e2e_hello", hellos' = hellos + 1,
           inb' = [pc |-> "hello", n |-> up[1].n, key |-> hellos + 1],
           UNCHANGED <<e2e, est, out, fwd, events, backoff, conn, nEvents, drops, client>>
    PROVE  RelayInv'
<1> USE DEF RelayInv
<1>1. PICK n \in Clients : n = up[1].n
  BY UpTail DEF UpFrame
<1>2. /\ inb' = [pc |-> "hello", n |-> n, key |-> hellos + 1]
      /\ inb'.pc = "hello" /\ inb'.n = n /\ inb'.key = hellos + 1
      /\ inb.pc = "read" /\ hellos \in Nat /\ hellos' \in Nat
  BY <1>1 DEF RelayTypes, Rel!Read
<1>3. inb' \in InbState
  BY <1>2 DEF InbState
<1>4. RelayTypes'
  BY <1>2, <1>3, UpTail DEF RelayTypes
<1>5. Frames' = Frames
  BY <1>2 DEF Frames
<1>6. 1 \in DOMAIN up /\ DOMAIN up = 1 .. Len(up) /\ Len(up) \in Nat
  BY UpTail
<1>7. /\ n <= client.n /\ client.key = 0 /\ ~est
      /\ \A f \in Frames : f.n < n
      /\ \A j \in DOMAIN up : 1 < j /\ up[j].type = "e2e_hello" => n < up[j].n
  BY <1>1, <1>6 DEF Linked, Unanswered, HelloNew, HelloNoticed
<1>8. Shaking' /\ ~est' /\ InService' /\ Served' = n /\ ServedKey' = hellos + 1 /\ ServedCalls' = 0
  BY <1>2, <1>7 DEF Shaking, InService, Served, ServedKey, ServedCalls
<1>9. OneSession'
  <2>1. \A f \in Frames' : f.key <= hellos'
    BY <1>2, <1>5, FrameTypes DEF OneSession
  <2>2. /\ e2e'.key = e2e.key /\ client'.key = client.key
        /\ e2e.key \in Nat /\ client.key \in Nat
    BY DEF RelayTypes, RelaySession, RemoteClient, Rel!NoSession
  <2>3. e2e'.key <= hellos' /\ client'.key <= hellos'
    BY <1>2, <2>2 DEF OneSession
  <2> QED BY <1>2, <1>7, <1>8, <2>1, <2>2, <2>3 DEF OneSession
<1>10. Keyed'
  <2>1. PICK k \in [Clients -> Nat] : \A f \in Frames : f.key = k[f.n]
    BY DEF Linked, Keyed
  <2>2. PICK q \in [Clients -> Nat] : q = [k EXCEPT ![n] = hellos + 1]
    BY <1>2
  <2>3. q[n] = hellos + 1 /\ \A m \in Clients : m # n => q[m] = k[m]
    BY <2>1, <2>2
  <2>4. \A f \in Frames : f.n \in Clients /\ f.n # n
    BY <1>7, FrameTypes DEF Clients
  <2>5. \A f \in Frames' : f.key = q[f.n]
    BY <1>5, <2>1, <2>3, <2>4
  <2> QED BY <1>7, <1>8, <2>3, <2>5 DEF Keyed
<1>11. Newest'
  <2>1. \A f \in Frames : f.n \in Nat /\ n \in Nat /\ f.n < n
    BY <1>7, FrameTypes DEF Clients
  <2>2. \A f \in Frames : f.n <= client.n
    BY DEF Linked, Newest
  <2>3. \A f \in Frames' : f.n <= client'.n /\ f.n <= n
    BY <1>5, <2>1, <2>2
  <2> QED BY <1>7, <1>8, <2>3 DEF Newest
<1>12. Unanswered'
  BY <1>5, <1>7, <1>8, TailUnanswered
<1>13. CallsCounted'
  <2>1. \A j \in DOMAIN up : up[j].type # "e2e"
    <3> SUFFICES ASSUME NEW j \in DOMAIN up, up[j].type = "e2e" PROVE FALSE
      OBVIOUS
    <3>1. j # 1 /\ 1 < j
      BY <1>6
    <3> QED BY <3>1, <1>6 DEF Linked, Unanswered
  <2>2. \A i \in DOMAIN up' : up'[i].type # "e2e"
    BY <2>1, UpTail
  <2>3. ASSUME n = client.n
        PROVE  Len(up) = 1
    <3>1. ASSUME 2 \in DOMAIN up
          PROVE  FALSE
      <4>0. PICK h \in DOMAIN up : h = 2
        BY <3>1
      <4>1. up[2].type = "e2e_hello" => up[1].type = "client_connected"
        <5>1. up[h].type = "e2e_hello" => HelloNoticed(h)
          BY DEF Linked, Unanswered
        <5> QED BY <5>1, <4>0 DEF HelloNoticed
      <4>2. up[2] \in UpFrame
        BY <3>1 DEF RelayTypes
      <4>3. up[2].type = "client_connected"
        BY <3>1, <4>1, <4>2, <2>1 DEF UpFrame
      <4>4. 3 \in DOMAIN up /\ up[3].type = "e2e_hello"
        BY <3>1, <4>3, SMTT(60) DEF Linked, Unanswered
      <4>5. n < up[3].n
        BY <4>4, <1>7
      <4>6. up[3].n <= client.n
        BY <4>4 DEF Linked, Unanswered, HelloNew
      <4>7. up[3] \in UpFrame
        BY <4>4 DEF RelayTypes
      <4>8. up[3].n \in Nat
        BY <4>4, <4>7 DEF UpFrame, Clients
      <4> QED BY <2>3, <4>5, <4>6, <4>8 DEF Clients
    <3> QED BY <3>1, UpTail
  <2>4. n = client.n => client'.send = 0 + Len(up')
    <3>1. Len(up') = Len(up) - 1
      BY UpTail
    <3>2. client'.send = 0
      BY <1>7 DEF OneSession
    <3> QED BY <2>3, <3>1, <3>2
  <2> QED BY <1>8, <2>2, <2>4 DEF CallsCounted
<1>14. HelloAhead'
  <2>1. ForClient' => ForClient
    BY <1>2, <1>7 DEF ForClient
  <2> QED BY <2>1, AheadKept
<1> QED BY <1>4, <1>9, <1>10, <1>11, <1>12, <1>13, <1>14 DEF Linked

\* A request of the client that is served has the key and the counter that the
\* daemon expects: it is never refused.
LEMMA RelayReadCall ==
    ASSUME RelayInv, inb = Rel!Read, up # <<>>, up' = Tail(up), up[1].type = "e2e", est,
           IF e2e.recv = up[1].counter
           THEN /\ e2e' = [e2e EXCEPT !.recv = @ + 1]
                /\ inb' = IF e2e.key = up[1].key THEN [pc |-> "dispatch"] ELSE inb
           ELSE UNCHANGED <<e2e, inb>>,
           UNCHANGED <<est, hellos, out, fwd, events, backoff, conn, nEvents, drops, client>>
    PROVE  RelayInv'
<1> USE DEF RelayInv
<1>1. e2e \in RelaySession
  BY DEF RelayTypes, OneSession, Rel!NoSession
<1>2. /\ 1 \in DOMAIN up /\ DOMAIN up = 1 .. Len(up) /\ Len(up) \in Nat
      /\ up[1].counter \in 0 .. MaxCalls - 1
  BY UpTail DEF UpFrame
<1>3. InService /\ InService' /\ ~Shaking /\ inb.pc = "read"
      /\ Served = e2e.n /\ ServedKey = e2e.key /\ ServedCalls = e2e.recv
  BY DEF InService, Shaking, Served, ServedKey, ServedCalls, Rel!Read
<1>4. up[1].key = e2e.key /\ up[1].counter = e2e.recv
  <2>1. up[1].key = e2e.key /\ up[1].counter = e2e.recv + 1 - 1
    BY <1>2, <1>3 DEF Linked, CallsCounted
  <2> QED BY <1>1, <2>1 DEF RelaySession
<1>5. /\ e2e' = [e2e EXCEPT !.recv = @ + 1]
      /\ inb' = [pc |-> "dispatch"] /\ inb'.pc = "dispatch"
  BY <1>4
<1>6. /\ e2e' \in RelaySession
      /\ e2e'.key = e2e.key /\ e2e'.n = e2e.n /\ e2e'.recv = e2e.recv + 1
  BY <1>1, <1>2, <1>4, <1>5, RelayAssumption, SMTT(60) DEF RelaySession
<1>7. inb' \in InbState
  BY <1>5 DEF InbState
<1>8. RelayTypes'
  BY <1>6, <1>7, UpTail DEF RelayTypes
<1>9. Frames' = Frames
  BY <1>3, <1>5 DEF Frames
<1>10. InService' /\ ~Shaking' /\ Served' = e2e.n /\ ServedKey' = e2e.key /\ ServedCalls' = e2e.recv + 1
  BY <1>5, <1>6 DEF InService, Shaking, Served, ServedKey, ServedCalls
<1>11. OneSession'
  <2>1. e2e'.key # 0 /\ e2e'.key <= hellos'
    BY <1>6 DEF OneSession
  <2> QED BY <2>1, <1>5, <1>9, <1>10 DEF OneSession
<1>12. Keyed' /\ Newest'
  BY <1>3, <1>9, <1>10 DEF Linked, Keyed, Newest
<1>13. Unanswered'
  <2>1. \A i \in DOMAIN up : up[i].type = "e2e_hello" => Served < up[i].n
    BY <1>3 DEF Linked, Unanswered, HelloNew
  <2> QED BY <2>1, <1>3, <1>9, <1>10, TailUnanswered
<1>14. CallsCounted'
  <2>1. /\ DOMAIN up' = 1 .. Len(up) - 1 /\ Len(up') = Len(up) - 1
        /\ \A i \in DOMAIN up' : up'[i] = up[i + 1] /\ i + 1 \in DOMAIN up
    BY UpTail
  <2>2. e2e.recv \in Nat
    BY <1>1 DEF RelaySession
  <2>3. ASSUME NEW i \in DOMAIN up', up'[i].type = "e2e"
        PROVE  up'[i].key = e2e.key /\ up'[i].counter = (e2e.recv + 1) + i - 1
    <3>1. PICK h \in DOMAIN up : h = i + 1 /\ up'[i] = up[h]
      BY <2>1
    <3>2. up[h].key = e2e.key /\ up[h].counter = e2e.recv + h - 1
      BY <2>3, <3>1, <1>3 DEF Linked, CallsCounted
    <3>3. e2e.recv + h - 1 = (e2e.recv + 1) + i - 1
      <4>1. i \in Nat /\ h = i + 1
        BY <1>2, <2>1, <3>1
      <4> QED BY ONLY <4>1, <2>2
    <3> QED BY <3>1, <3>2, <3>3
  <2>4. e2e.n = client.n => client'.send = (e2e.recv + 1) + Len(up')
    <3>1. e2e.n = client.n => client.send = e2e.recv + Len(up)
      BY <1>3 DEF Linked, CallsCounted
    <3> QED BY <3>1, <2>1, <2>2, <1>2
  <2> QED BY <1>10, <2>3, <2>4 DEF CallsCounted
<1>15. HelloAhead'
  <2>1. ForClient' => ForClient
    BY <1>5, <1>6 DEF ForClient
  <2> QED BY <2>1, AheadKept
<1> QED BY <1>8, <1>11, <1>12, <1>13, <1>14, <1>15 DEF Linked

\* Without a session a request is passed over.
LEMMA RelayReadStray ==
    ASSUME RelayInv, inb = Rel!Read, up # <<>>, up' = Tail(up), up[1].type = "e2e", ~est,
           UNCHANGED <<e2e, est, inb, hellos, out, fwd, events, backoff, conn, nEvents,
                       drops, client>>
    PROVE  RelayInv'
<1> USE DEF RelayInv
<1>1. RelayTypes'
  BY UpTail DEF RelayTypes
<1>2. ~InService /\ ~InService' /\ ~Shaking /\ ~Shaking'
  BY DEF InService, Shaking, Rel!Read
<1>3. Frames' = Frames
  BY DEF Frames
<1>4. OneSession'
  BY <1>2, <1>3 DEF OneSession
<1>5. Keyed' /\ Newest' /\ CallsCounted'
  BY <1>2, <1>3 DEF Linked, Keyed, Newest, CallsCounted
<1>6. Unanswered'
  BY <1>2, <1>3, TailUnanswered
<1>7. HelloAhead'
  <2>1. ForClient' => ForClient
    BY DEF ForClient
  <2> QED BY <2>1, AheadKept
<1> QED BY <1>1, <1>4, <1>5, <1>6, <1>7 DEF Linked

LEMMA RelayInRead ==
    ASSUME RelayInv, Rel!InRead
    PROVE  RelayInv'
<1>1. /\ inb = Rel!Read /\ up # <<>> /\ up' = Tail(up)
      /\ UNCHANGED <<out, fwd, events, backoff, conn, nEvents, drops, client>>
  BY DEF Rel!InRead, Rel!InReadWith
<1>2. Head(up) = up[1]
  BY <1>1, UpTail DEF RelayInv
<1>3. \/ /\ up[1].type = "client_connected"
         /\ e2e' = Rel!NoSession /\ est' = FALSE
         /\ UNCHANGED <<inb, hellos>>
      \/ /\ up[1].type = "e2e_hello"
         /\ hellos' = hellos + 1
         /\ inb' = [pc |-> "hello", n |-> up[1].n, key |-> hellos + 1]
         /\ UNCHANGED <<e2e, est>>
      \/ /\ up[1].type = "e2e" /\ est
         /\ IF e2e.recv = up[1].counter
            THEN /\ e2e' = [e2e EXCEPT !.recv = @ + 1]
                 /\ inb' = IF e2e.key = up[1].key THEN [pc |-> "dispatch"] ELSE inb
            ELSE UNCHANGED <<e2e, inb>>
         /\ UNCHANGED <<est, hellos>>
      \/ up[1].type = "e2e" /\ ~est /\ UNCHANGED <<e2e, est, inb, hellos>>
  BY <1>2 DEF Rel!InRead, Rel!InReadWith
<1> QED BY <1>1, <1>3, RelayReadNotice, RelayReadHello, RelayReadCall, RelayReadStray

LEMMA RelayClientConnects ==
    ASSUME RelayInv, Rel!ClientConnects
    PROVE  RelayInv'
<1> USE DEF RelayInv
<1>1. PICK m \in Clients : m = client.n + 1
  <2>1. client.n \in 0 .. MaxClients /\ client.n < MaxClients
    BY DEF Rel!ClientConnects, RelayTypes, RemoteClient
  <2> QED BY <2>1, RelayAssumption DEF Clients
<1>2. client.n \in Nat /\ client.n < m
  BY <1>1 DEF RelayTypes, RemoteClient, Clients
<1>3. /\ client' = [Rel!NoClient EXCEPT !.n = m]
      /\ client'.n = m /\ client'.key = 0 /\ client'.send = 0
  BY <1>1 DEF Rel!ClientConnects, Rel!NoClient
<1>4. client' \in RemoteClient
  <2>1. client' = [n |-> m, key |-> 0, send |-> 0, recv |-> 0, waiting |-> FALSE, ok |-> TRUE]
    BY <1>3 DEF Rel!NoClient
  <2>2. m \in 0 .. MaxClients
    BY RelayAssumption DEF Clients
  <2> QED BY <2>1, <2>2, RelayAssumption DEF RemoteClient
<1>5. /\ up \in Seq(UpFrame) /\ Len(up) \in Nat /\ DOMAIN up = 1 .. Len(up)
      /\ [type |-> "client_connected"] \in UpFrame /\ [type |-> "e2e_hello", n |-> m] \in UpFrame
  BY DEF RelayTypes, UpFrame
<1>6. up' = up \o <<[type |-> "client_connected"], [type |-> "e2e_hello", n |-> m]>>
  BY <1>1 DEF Rel!ClientConnects
<1>7. up' \in Seq(UpFrame) /\ Len(up') = Len(up) + 2 /\ DOMAIN up' = 1 .. Len(up) + 2
  BY <1>5, <1>6
<1>8. /\ \A i \in DOMAIN up : up'[i] = up[i]
      /\ up'[Len(up) + 1] = [type |-> "client_connected"]
      /\ up'[Len(up) + 2] = [type |-> "e2e_hello", n |-> m]
  BY <1>5, <1>6
<1>9. RelayTypes'
  BY <1>4, <1>7 DEF RelayTypes, Rel!ClientConnects, Rel!daemon
<1>10. UNCHANGED <<out, e2e, est, inb, fwd, hellos>>
  BY DEF Rel!ClientConnects, Rel!daemon
<1>11. Frames' = Frames
  BY <1>10 DEF Frames
<1>12. /\ (InService' <=> InService) /\ (Shaking' <=> Shaking)
       /\ Served' = Served /\ ServedKey' = ServedKey /\ ServedCalls' = ServedCalls
  BY <1>10 DEF InService, Served, ServedKey, ServedCalls, Shaking
<1>13. OneSession'
  BY <1>3, <1>10, <1>11, <1>12 DEF OneSession, RelayTypes
<1>14. InService => Served \in Nat /\ Served < m
  <2>1. InService => Served \in Nat
    BY DEF RelayTypes, InService, Served, Shaking, InbState, RelaySession, Clients, Rel!NoSession, OneSession
  <2> QED BY <2>1, <1>2 DEF Linked, Newest, Clients
<1>15. \A f \in Frames : f.n < m
  BY <1>2, FrameTypes DEF Linked, Newest, Clients
<1>16. Keyed'
  BY <1>3, <1>11, <1>12 DEF Linked, Keyed
<1>17. Newest'
  BY <1>2, <1>3, <1>11, <1>12, <1>14, <1>15, FrameTypes DEF Linked, Newest, Clients
<1>18. CallsCounted'
  <2>1. \A i \in DOMAIN up' : up'[i].type = "e2e" => i \in DOMAIN up /\ up'[i] = up[i]
    BY <1>5, <1>7, <1>8
  <2>2. InService => Served # client'.n
    BY <1>3, <1>14 DEF Clients
  <2> QED BY <2>1, <2>2, <1>12 DEF Linked, CallsCounted
<1>19. Unanswered'
  <2>1. ASSUME NEW i \in DOMAIN up', up'[i].type = "e2e_hello"
        PROVE  HelloNew(i)' /\ HelloNoticed(i)'
    <3>1. CASE i \in DOMAIN up
      <4>1. HelloNew(i) /\ HelloNoticed(i) /\ up'[i] = up[i] /\ up[i] \in UpFrame
        BY <2>1, <3>1, <1>5, <1>8 DEF Linked, Unanswered
      <4>2. up[i].n \in Nat /\ up[i].n < m
        BY <4>1, <2>1, <1>2 DEF UpFrame, Clients, HelloNew
      <4>3. \A j \in DOMAIN up' : i < j /\ up'[j].type = "e2e_hello" => up'[i].n < up'[j].n
        <5> SUFFICES ASSUME NEW j \in DOMAIN up', i < j, up'[j].type = "e2e_hello"
                     PROVE  up'[i].n < up'[j].n
          OBVIOUS
        <5>1. CASE j \in DOMAIN up
          BY <5>1, <4>1, <1>8 DEF HelloNew
        <5>2. CASE j = Len(up) + 2
          BY <5>2, <4>1, <4>2, <1>8
        <5>3. j # Len(up) + 1
          BY <1>8
        <5> QED BY <5>1, <5>2, <5>3, <1>5, <1>7
      <4>4. HelloNew(i)'
        BY <4>1, <4>2, <4>3, <1>3, <1>11, <1>12 DEF HelloNew, Clients
      <4>5. HelloNoticed(i)'
        <5>1. i # 1 => i - 1 \in DOMAIN up
          BY <3>1, <1>5
        <5> QED BY <5>1, <4>1, <1>8, <1>10 DEF HelloNoticed
      <4> QED BY <4>4, <4>5
    <3>2. CASE i = Len(up) + 2
      <4>1. up'[i] = [type |-> "e2e_hello", n |-> m] /\ up'[i].n = m
        BY <3>2, <1>8
      <4>2. \A j \in DOMAIN up' : ~(i < j)
        BY <3>2, <1>5, <1>7
      <4>3. HelloNew(i)'
        BY <4>1, <4>2, <1>3, <1>11, <1>12, <1>14, <1>15 DEF HelloNew, Clients
      <4>4. i # 1 /\ i - 1 = Len(up) + 1
        BY <3>2, <1>5
      <4>5. up'[i - 1].type = "client_connected"
        BY <4>4, <1>8
      <4>6. HelloNoticed(i)'
        BY <4>4, <4>5 DEF HelloNoticed
      <4> QED BY <4>3, <4>6
    <3>3. i # Len(up) + 1
      BY <2>1, <1>8
    <3> QED BY <3>1, <3>2, <3>3, <1>5, <1>7
  <2>2. ASSUME NEW i \in DOMAIN up', up'[i].type = "client_connected"
        PROVE  i + 1 \in DOMAIN up' /\ up'[i + 1].type = "e2e_hello"
    <3>1. CASE i \in DOMAIN up
      <4>1. i + 1 \in DOMAIN up /\ up[i + 1].type = "e2e_hello"
        BY <2>2, <3>1, <1>8 DEF Linked, Unanswered
      <4> QED BY <4>1, <1>5, <1>7, <1>8
    <3>2. CASE i = Len(up) + 1
      <4>1. i + 1 = Len(up) + 2
        BY <3>2, <1>5
      <4> QED BY <4>1, <1>5, <1>7, <1>8
    <3>3. i # Len(up) + 2
      BY <2>2, <1>8
    <3> QED BY <3>1, <3>2, <3>3, <1>5, <1>7
  <2>3. ASSUME NEW i \in DOMAIN up', NEW j \in DOMAIN up', i < j, up'[j].type = "e2e"
        PROVE  up'[i].type = "e2e"
    <3>1. j \in DOMAIN up
      BY <2>3, <1>5, <1>7, <1>8, SMTT(60)
    <3>2. i \in DOMAIN up
      BY <2>3, <3>1, <1>5, <1>7
    <3> QED BY <2>3, <3>1, <3>2, <1>8 DEF Linked, Unanswered
  <2> QED BY <2>1, <2>2, <2>3 DEF Unanswered
<1>20. HelloAhead'
  <2>1. \A i \in DOMAIN out : out[i] \in Frames
    BY DEF Frames
  <2>2. ~ForClient'
    <3>1. est => e2e.n # m
      BY <1>14 DEF InService, Served, Clients
    <3>2. fwd.pc = "send" => fwd.frame.n # m
      BY <1>15, FrameTypes DEF Frames, RelayTypes, FwdState, Rel!Read, Clients
    <3>3. inb.pc = "send" => inb.frame.n # m
      BY <1>15, FrameTypes DEF Frames, RelayTypes, InbState, Clients
    <3>4. inb.pc = "activate" => inb.n # m
      BY <1>14 DEF InService, Served, Shaking, OneSession, Clients
    <3> QED BY <3>1, <3>2, <3>3, <3>4, <1>3, <1>10 DEF ForClient
  <2>3. \A i \in DOMAIN out : out[i].n # m
    BY <2>1, <1>15, FrameTypes DEF Clients
  <2> QED BY <2>2, <2>3, <1>3, <1>10 DEF HelloAhead
<1> QED BY <1>9, <1>13, <1>16, <1>17, <1>18, <1>19, <1>20 DEF Linked

LEMMA RelayClientCalls ==
    ASSUME RelayInv, Rel!ClientCalls
    PROVE  RelayInv'
<1> USE DEF RelayInv
<1>1. /\ client \in RemoteClient /\ client.key \in Nat \ {0}
      /\ client.send \in 0 .. MaxCalls - 1 /\ client.n \in Nat
  BY RelayAssumption, SMTT(60) DEF Rel!ClientCalls, RelayTypes, RemoteClient
<1>2. PICK f \in UpFrame : /\ f = [type |-> "e2e", key |-> client.key, counter |-> client.send]
                           /\ f.type = "e2e" /\ f.key = client.key /\ f.counter = client.send
  <2>1. [type |-> "e2e", key |-> client.key, counter |-> client.send] \in UpFrame
    BY <1>1 DEF UpFrame
  <2> QED BY <2>1
<1>3. up' = Append(up, f)
  BY <1>2 DEF Rel!ClientCalls
<1>4. client' = [client EXCEPT !.send = @ + 1, !.waiting = TRUE]
  BY DEF Rel!ClientCalls
<1>5. client' \in RemoteClient
  <2>1. client.send + 1 \in 0 .. MaxCalls
    BY <1>1, RelayAssumption
  <2> QED BY <1>1, <1>4, <2>1 DEF RemoteClient
<1>6. client'.n = client.n /\ client'.key = client.key /\ client'.send = client.send + 1
  BY <1>1, <1>4 DEF RemoteClient
<1>7. up \in Seq(UpFrame) /\ Len(up) \in Nat /\ DOMAIN up = 1 .. Len(up)
  BY DEF RelayTypes
<1>8. /\ up' \in Seq(UpFrame) /\ Len(up') = Len(up) + 1 /\ DOMAIN up' = 1 .. Len(up) + 1
      /\ \A i \in DOMAIN up : up'[i] = up[i]
      /\ up'[Len(up) + 1] = f
  BY <1>3, <1>7
<1>9. RelayTypes'
  BY <1>5, <1>8 DEF RelayTypes, Rel!ClientCalls, Rel!daemon
<1>10. UNCHANGED <<out, e2e, est, inb, fwd, hellos>>
  BY DEF Rel!ClientCalls, Rel!daemon
<1>11. Frames' = Frames
  BY <1>10 DEF Frames
<1>12. /\ (InService' <=> InService) /\ (Shaking' <=> Shaking)
       /\ Served' = Served /\ ServedKey' = ServedKey /\ ServedCalls' = ServedCalls
  BY <1>10 DEF InService, Served, ServedKey, ServedCalls, Shaking
<1>13. OneSession'
  BY <1>1, <1>6, <1>10, <1>11, <1>12 DEF OneSession
<1>14. Keyed' /\ Newest'
  BY <1>6, <1>11, <1>12 DEF Linked, Keyed, Newest
<1>15. \A i \in DOMAIN up : up[i].type = "e2e"
  <2> SUFFICES ASSUME NEW i \in DOMAIN up PROVE up[i].type = "e2e"
    OBVIOUS
  <2>1. up[i].type # "e2e_hello"
    BY <1>1 DEF Linked, Unanswered, HelloNew
  <2>2. up[i].type # "client_connected"
    <3>1. \A j \in DOMAIN up : up[j].type # "e2e_hello"
      BY <1>1 DEF Linked, Unanswered, HelloNew
    <3> QED BY <3>1 DEF Linked, Unanswered
  <2>3. up[i] \in UpFrame
    BY <1>7
  <2> QED BY <2>1, <2>2, <2>3 DEF UpFrame
<1>16. \A i \in DOMAIN up' : up'[i].type = "e2e"
  BY <1>2, <1>7, <1>8, <1>15
<1>17. Unanswered'
  BY <1>16 DEF Unanswered
<1>18. CallsCounted'
  <2>1. CASE ~InService
    BY <2>1, <1>12 DEF CallsCounted
  <2>2. CASE InService
    <3>1. Served \in Clients /\ ServedCalls \in Nat
      BY <2>2, RelayAssumption DEF InService, Served, ServedCalls, Shaking, RelayTypes, InbState, RelaySession, OneSession, Rel!NoSession
    <3>2. Served = client.n
      BY <2>2, <3>1, <1>1 DEF Linked, Newest, Clients
    <3>3. ServedKey = client.key
      BY <2>2, <3>2, <1>1 DEF Linked, Keyed
    <3>4. client.send = ServedCalls + Len(up)
      BY <2>2, <3>2 DEF Linked, CallsCounted
    <3>5. ASSUME NEW i \in DOMAIN up'
          PROVE  up'[i].key = ServedKey /\ up'[i].counter = ServedCalls + i - 1
      <4>1. CASE i \in DOMAIN up
        BY <4>1, <2>2, <1>8, <1>15 DEF Linked, CallsCounted
      <4>2. CASE i = Len(up) + 1
        <5>1. ServedCalls + i - 1 = client.send
          BY <3>1, <3>4, <4>2, <1>7
        <5> QED BY <5>1, <4>2, <3>3, <1>2, <1>8
      <4> QED BY <4>1, <4>2, <1>7, <1>8
    <3>6. client'.send = ServedCalls + Len(up')
      BY <3>1, <3>4, <1>6, <1>7, <1>8
    <3> QED BY <3>5, <3>6, <1>12 DEF CallsCounted
  <2> QED BY <2>1, <2>2
<1>19. HelloAhead'
  BY <1>1, <1>6 DEF HelloAhead
<1> QED BY <1>9, <1>13, <1>14, <1>17, <1>18, <1>19 DEF Linked

\* What a frame does to the client.
LEMMA TakeFrame ==
    ASSUME RelayTypes, out # <<>>, client' = Rel!Take(Head(out))
    PROVE  /\ client' \in RemoteClient
           /\ client'.n = client.n /\ client'.send = client.send
           /\ IF out[1].type = "e2e_hello" /\ out[1].n = client.n
              THEN client'.key = out[1].key ELSE client'.key = client.key
           /\ out[1] \in CallOut \cup HelloOut
           /\ Head(out) = out[1] /\ Len(out) \in Nat \ {0} /\ DOMAIN out = 1 .. Len(out)
           /\ Tail(out) \in Seq(CallOut \cup HelloOut) /\ Len(Tail(out)) = Len(out) - 1
           /\ DOMAIN Tail(out) = 1 .. Len(out) - 1
           /\ \A i \in DOMAIN Tail(out) : Tail(out)[i] = out[i + 1] /\ i + 1 \in DOMAIN out
<1>1. /\ Head(out) = out[1] /\ out[1] \in CallOut \cup HelloOut
      /\ Len(out) \in Nat \ {0} /\ DOMAIN out = 1 .. Len(out)
      /\ Tail(out) \in Seq(CallOut \cup HelloOut) /\ Len(Tail(out)) = Len(out) - 1
      /\ DOMAIN Tail(out) = 1 .. Len(out) - 1
      /\ \A i \in DOMAIN Tail(out) : Tail(out)[i] = out[i + 1] /\ i + 1 \in DOMAIN out
  BY DEF RelayTypes
<1>2. client \in RemoteClient
  BY DEF RelayTypes
<1>3. PICK f \in CallOut \cup HelloOut : f = out[1]
  BY <1>1
<1>4. client' = Rel!Take(f)
  BY <1>1, <1>3
<1>5. CASE f.type = "e2e_hello"
  <2>1. f.key \in Nat /\ f \in HelloOut
    BY <1>5 DEF CallOut, HelloOut
  <2>2. client' = IF f.n = client.n THEN [client EXCEPT !.key = f.key] ELSE client
    BY <1>4, <1>5 DEF Rel!Take
  <2>3. /\ client' \in RemoteClient /\ client'.n = client.n /\ client'.send = client.send
        /\ client'.key = IF f.n = client.n THEN f.key ELSE client.key
    BY <1>2, <2>1, <2>2 DEF RemoteClient
  <2> QED BY <1>1, <1>3, <1>5, <2>3
<1>6. CASE f.type # "e2e_hello"
  <2>1. f.type = "e2e"
    BY <1>6 DEF CallOut, HelloOut
  <2>2. \/ client' = client
        \/ client' = [client EXCEPT !.recv = @ + 1, !.waiting = @ /\ ~f.response]
        \/ client' = [client EXCEPT !.ok = FALSE]
    BY <1>4, <2>1 DEF Rel!Take
  <2>3. PICK w \in BOOLEAN : w = (client.waiting /\ ~f.response)
    OBVIOUS
  <2>4. client' \in RemoteClient
    <3>1. CASE client' = client
      BY <1>2, <3>1
    <3>2. CASE client' = [client EXCEPT !.recv = @ + 1, !.waiting = @ /\ ~f.response]
      <4>1. client' = [client EXCEPT !.recv = client.recv + 1, !.waiting = w]
        BY <1>2, <2>3, <3>2 DEF RemoteClient
      <4>2. client.recv + 1 \in Nat
        BY <1>2 DEF RemoteClient
      <4> QED BY <1>2, <4>1, <4>2 DEF RemoteClient
    <3>3. CASE client' = [client EXCEPT !.ok = FALSE]
      BY <1>2, <3>3 DEF RemoteClient
    <3> QED BY <2>2, <3>1, <3>2, <3>3
  <2>5. client'.n = client.n /\ client'.send = client.send /\ client'.key = client.key
    BY <1>2, <2>2 DEF RemoteClient
  <2> QED BY <1>1, <1>3, <1>6, <2>4, <2>5
<1> QED BY <1>5, <1>6

LEMMA RelayDeliver ==
    ASSUME RelayInv, Rel!Deliver
    PROVE  RelayInv'
<1> USE DEF RelayInv
<1>1. out # <<>> /\ client' = Rel!Take(Head(out)) /\ out' = Tail(out)
  BY DEF Rel!Deliver
<1>2. UNCHANGED <<up, e2e, est, inb, fwd, hellos, events, nEvents, backoff, conn, drops>>
  BY DEF Rel!Deliver, Rel!daemon
<1>3. PICK f \in CallOut \cup HelloOut : f = out[1]
  BY <1>1, TakeFrame
<1>4. /\ client' \in RemoteClient /\ client'.n = client.n /\ client'.send = client.send
      /\ IF f.type = "e2e_hello" /\ f.n = client.n
         THEN client'.key = f.key ELSE client'.key = client.key
  BY <1>1, <1>3, TakeFrame
<1>5. /\ Len(out) \in Nat \ {0} /\ DOMAIN out = 1 .. Len(out)
      /\ out' \in Seq(CallOut \cup HelloOut) /\ Len(out') = Len(out) - 1
      /\ DOMAIN out' = 1 .. Len(out) - 1
      /\ \A i \in DOMAIN out' : out'[i] = out[i + 1] /\ i + 1 \in DOMAIN out
  BY <1>1, TakeFrame
<1>6. RelayTypes'
  <2>1. Len(out') <= ChannelCap
    BY <1>5, RelayAssumption DEF RelayTypes
  <2> QED BY <1>2, <1>4, <1>5, <2>1 DEF RelayTypes
<1>7. Frames' \subseteq Frames
  <2>1. \A i \in DOMAIN out' : \E j \in DOMAIN out : out'[i] = out[j]
    BY <1>5
  <2> QED BY <2>1, <1>2 DEF Frames
<1>8. f \in Frames /\ f.key \in Nat \ {0} /\ f.n \in Clients
  <2>1. f \in Frames
    BY <1>3, <1>5 DEF Frames
  <2> QED BY <2>1, FrameTypes
<1>9. /\ (InService' <=> InService) /\ (Shaking' <=> Shaking)
      /\ Served' = Served /\ ServedKey' = ServedKey /\ ServedCalls' = ServedCalls
  BY <1>2 DEF InService, Served, ServedKey, ServedCalls, Shaking
<1>10. OneSession'
  <2>1. f.key <= hellos
    BY <1>8 DEF OneSession
  <2>2. client'.key <= hellos /\ (client'.key = 0 => client.key = 0)
    BY <1>4, <1>8, <2>1 DEF OneSession
  <2>3. \A g \in Frames' : g.key <= hellos
    BY <1>7 DEF OneSession
  <2> QED BY <1>2, <1>4, <1>9, <2>2, <2>3 DEF OneSession
<1>11. Keyed'
  <2>1. PICK k \in [Clients -> Nat] :
           /\ \A g \in Frames : g.key = k[g.n]
           /\ InService => ServedKey = k[Served]
           /\ client.key # 0 => client.n \in Clients /\ client.key = k[client.n]
    BY DEF Linked, Keyed
  <2>2. client'.key # 0 => client'.n \in Clients /\ client'.key = k[client'.n]
    BY <1>4, <1>8, <2>1
  <2>3. \A g \in Frames' : g.key = k[g.n]
    BY <1>7, <2>1
  <2> QED BY <1>9, <2>1, <2>2, <2>3 DEF Keyed
<1>12. Newest'
  <2>1. \A g \in Frames' : g.n <= client'.n /\ (InService' => g.n <= Served')
    BY <1>4, <1>7, <1>9 DEF Linked, Newest
  <2>2. InService /\ client'.key # 0 => client.n <= Served
    BY <1>4, <1>8 DEF Linked, Newest
  <2> QED BY <1>4, <1>9, <2>1, <2>2 DEF Linked, Newest
<1>13. ASSUME NEW i \in DOMAIN up, up[i].type = "e2e_hello"
       PROVE  HelloNew(i)' /\ HelloNoticed(i)'
  <2>1. HelloNew(i) /\ HelloNoticed(i)
    BY <1>13 DEF Linked, Unanswered
  <2>2. up[i] \in UpFrame
    BY DEF RelayTypes
  <2>3. up[i].n \in Nat /\ f.n \in Nat
    BY <1>8, <1>13, <2>2 DEF UpFrame, Clients
  <2>4. f.n # client.n
    <3>1. f.n < up[i].n /\ up[i].n <= client.n
      BY <1>8, <2>1 DEF HelloNew
    <3>2. client.n \in Nat
      BY DEF RelayTypes, RemoteClient
    <3> QED BY <3>1, <3>2, <2>3
  <2>5. client'.key = client.key
    BY <1>4, <2>4
  <2>6. HelloNew(i)'
    BY <1>2, <1>4, <1>7, <1>9, <2>1, <2>5 DEF HelloNew
  <2>7. HelloNoticed(i)'
    BY <1>2, <2>1 DEF HelloNoticed
  <2> QED BY <2>6, <2>7
<1>14. Unanswered'
  <2>1. /\ \A i \in DOMAIN up : up[i].type = "client_connected" =>
             i + 1 \in DOMAIN up /\ up[i + 1].type = "e2e_hello"
        /\ \A i, j \in DOMAIN up : i < j /\ up[j].type = "e2e" => up[i].type = "e2e"
    BY DEF Linked, Unanswered
  <2> QED BY <1>2, <1>13, <2>1 DEF Unanswered
<1>15. CallsCounted'
  BY <1>2, <1>4, <1>9 DEF Linked, CallsCounted
<1>16. HelloAhead'
  <2> SUFFICES ASSUME client'.key = 0
               PROVE  HelloAhead'
    BY DEF HelloAhead
  <2>1. client.key = 0 /\ ~(f.type = "e2e_hello" /\ f.n = client.n)
    BY <1>4, <1>8
  <2>2. \A j \in DOMAIN out : HelloAt(j) => j # 1
    BY <1>3, <2>1 DEF HelloAt
  <2>3. ASSUME NEW j \in DOMAIN out, HelloAt(j)
        PROVE  \E h \in DOMAIN out' : h = j - 1 /\ HelloAt(h)'
    <3>1. PICK h \in DOMAIN out' : h = j - 1 /\ out'[h] = out[j]
      BY <1>5, <2>2, <2>3
    <3>2. HelloAt(h)'
      BY <1>4, <2>3, <3>1 DEF HelloAt
    <3> QED BY <3>1, <3>2
  <2>4. ASSUME NEW i \in DOMAIN out', out'[i].type = "e2e", out'[i].n = client.n
        PROVE  \E h \in DOMAIN out' : h < i /\ HelloAt(h)'
    <3>1. PICK g \in DOMAIN out : g = i + 1 /\ out'[i] = out[g]
      BY <1>5
    <3>2. PICK j \in DOMAIN out : j < g /\ HelloAt(j)
      BY <2>1, <2>4, <3>1 DEF HelloAhead
    <3>3. PICK h \in DOMAIN out' : h = j - 1 /\ HelloAt(h)'
      BY <2>3, <3>2
    <3>4. h < i
      BY <1>5, <3>1, <3>2, <3>3
    <3> QED BY <3>3, <3>4
  <2>5. ForClient' => ForClient
    BY <1>2, <1>4 DEF ForClient
  <2>6. ForClient' => \E h \in DOMAIN out' : HelloAt(h)'
    BY <2>1, <2>3, <2>5 DEF HelloAhead
  <2> QED BY <1>4, <2>4, <2>6 DEF HelloAhead
<1> QED BY <1>6, <1>10, <1>11, <1>12, <1>14, <1>15, <1>16 DEF Linked

LEMMA RelayDrop ==
    ASSUME RelayInv, Rel!Drop
    PROVE  RelayInv'
<1> USE DEF RelayInv
<1>1. /\ up' = <<>> /\ out' = <<>> /\ e2e' = Rel!NoSession /\ e2e'.key = 0 /\ ~est' /\ hellos' = hellos
      /\ inb' = Rel!Read /\ fwd' = Rel!Read /\ inb'.pc = "read" /\ fwd'.pc = "read"
  BY DEF Rel!Drop, Rel!NoSession, Rel!Read
<1>2. client \in RemoteClient /\ hellos \in Nat
  BY DEF RelayTypes
<1>3. /\ client' \in RemoteClient
      /\ client'.n = client.n
      /\ \/ client'.key = client.key /\ client'.send = client.send
         \/ client'.key = 0 /\ client'.send = 0
  <2>1. CASE client' = client
    BY <2>1, <1>2
  <2>2. CASE client' = [Rel!NoClient EXCEPT !.n = client.n]
    <3>1. client' = [n |-> client.n, key |-> 0, send |-> 0, recv |-> 0, waiting |-> FALSE, ok |-> TRUE]
      BY <2>2 DEF Rel!NoClient
    <3>2. client.n \in 0 .. MaxClients /\ 0 \in 0 .. MaxCalls
      BY <1>2, RelayAssumption DEF RemoteClient
    <3> QED BY <3>1, <3>2 DEF RemoteClient
  <2> QED BY <2>1, <2>2 DEF Rel!Drop
<1>4. RelayTypes'
  <2>1. up' \in Seq(UpFrame) /\ out' \in Seq(CallOut \cup HelloOut) /\ Len(out') <= ChannelCap
    BY <1>1, RelayAssumption
  <2>2. inb' \in InbState /\ fwd' \in FwdState
    BY <1>1 DEF InbState, FwdState, Rel!Read
  <2>3. backoff' \in Rel!Backoffs /\ conn' \in {"up", "down"}
    BY BackoffType DEF Rel!Drop, RelayTypes
  <2>4. events' \in Nat /\ nEvents' \in 0 .. MaxEvents /\ events' <= nEvents' /\ drops' \in 0 .. MaxDrops
    BY RelayAssumption DEF Rel!Drop, RelayTypes
  <2>5. est' \in BOOLEAN
    BY DEF Rel!Drop
  <2> QED BY <1>1, <1>2, <1>3, <2>1, <2>2, <2>3, <2>4, <2>5 DEF RelayTypes
<1>5. Frames' = {} /\ ~InService' /\ ~Shaking' /\ ~ForClient'
  BY <1>1 DEF Frames, InService, Shaking, ForClient
<1>6. OneSession'
  BY <1>1, <1>2, <1>3, <1>5 DEF OneSession
<1>7. Keyed'
  BY <1>3, <1>5 DEF Linked, Keyed
<1>8. Newest' /\ Unanswered' /\ CallsCounted' /\ HelloAhead'
  BY <1>1, <1>5 DEF Newest, Unanswered, CallsCounted, HelloAhead
<1> QED BY <1>4, <1>6, <1>7, <1>8 DEF Linked

LEMMA RelayNext ==
    ASSUME RelayInv, [Rel!Next]_(Rel!vars)
    PROVE  RelayInv'
<1>1. CASE Rel!Next
  BY <1>1, RelayClientConnects, RelayClientCalls, RelayDeliver, RelayInRead, RelayInHello,
     RelayInActivate, RelayInDispatch, RelayInRespond, RelayInSend, RelayBroadcast,
     RelayFwdRead, RelayFwdLagged, RelayFwdSend, RelayDrop, RelayReconnect DEF Rel!Next
<1>2. CASE UNCHANGED Rel!vars
  <2>1. UNCHANGED <<up, out, e2e, est, inb, fwd, hellos, client>>
    BY <1>2 DEF Rel!vars, Rel!daemon
  <2>2. RelayTypes'
    BY <1>2 DEF Rel!vars, Rel!daemon, RelayInv, RelayTypes
  <2> QED BY <2>1, <2>2, RelayIdle
<1> QED BY <1>1, <1>2

LEMMA RelayInvGives ==
    ASSUME RelayInv
    PROVE  Rel!TypeOK /\ Rel!DaemonInStep /\ Rel!HelloFirst
<1> USE DEF RelayInv
<1>1. Rel!TypeOK
  <2>1. e2e \in [key : 0 .. hellos, n : 0 .. MaxClients, send : Nat, recv : 0 .. MaxCalls]
    <3>1. CASE e2e = Rel!NoSession
      BY <3>1, RelayAssumption DEF Rel!NoSession, RelayTypes
    <3>2. CASE e2e \in RelaySession
      <4>1. e2e.key \in 0 .. hellos /\ e2e.n \in 0 .. MaxClients
        BY <3>2, RelayAssumption DEF RelaySession, OneSession, RelayTypes, Clients
      <4> QED BY <3>2, <4>1 DEF RelaySession
    <3> QED BY <3>1, <3>2 DEF RelayTypes
  <2>2. inb.pc \in {"read", "hello", "activate", "dispatch", "respond", "send"}
    BY DEF RelayTypes, InbState
  <2>3. fwd.pc \in {"read", "send"}
    BY DEF RelayTypes, FwdState, Rel!Read
  <2>4. client.n \in 0 .. MaxClients /\ client.key \in 0 .. hellos
    BY DEF RelayTypes, RemoteClient, OneSession
  <2>5. events \in 0 .. MaxEvents /\ nEvents \in 0 .. MaxEvents
    BY RelayAssumption DEF RelayTypes
  <2> QED BY <2>1, <2>2, <2>3, <2>4, <2>5 DEF Rel!TypeOK, RelayTypes
<1>2. Rel!DaemonInStep
  <2> SUFFICES ASSUME NEW i \in DOMAIN up, up[i].type = "e2e", up[i].key = e2e.key
               PROVE  up[i].counter = e2e.recv + i - 1
    BY DEF Rel!DaemonInStep
  <2>1. up[i] \in UpFrame
    BY DEF RelayTypes
  <2>2. up[i].key # 0
    BY <2>1 DEF UpFrame
  <2>3. est
    BY <2>2 DEF OneSession
  <2> QED BY <2>3 DEF Linked, CallsCounted, InService, ServedCalls, ServedKey
<1>3. Rel!HelloFirst
  <2> SUFFICES ASSUME NEW f, 1 \in DOMAIN out, f = Head(out), f.type = "e2e", f.n = client.n
               PROVE  client.key = f.key
    BY DEF Rel!HelloFirst
  <2>1. out \in Seq(CallOut \cup HelloOut) /\ f = out[1] /\ DOMAIN out \subseteq Nat \ {0}
    BY DEF RelayTypes
  <2>2. client.key # 0
    <3>1. ~ \E j \in DOMAIN out : j < 1 /\ HelloAt(j)
      BY <2>1
    <3> QED BY <2>1, <3>1 DEF HelloAhead
  <2>3. f \in Frames
    BY <2>1 DEF Frames
  <2> QED BY <2>2, <2>3 DEF Linked, Keyed
<1> QED BY <1>1, <1>2, <1>3

-----------------------------------------------------------------------------
(***************************************************************************)
(* The components together                                                 *)
(***************************************************************************)

\* A step is a step of one component, which leaves the others where they are.
LEMMA StepsOfEdges ==
    ASSUME [Next]_vars
    PROVE  /\ [Ipc!Next]_(Ipc!vars) /\ [Limits!Next]_(Limits!vars) /\ [Rel!Next]_(Rel!vars)
           /\ [Gates!Next]_(Gates!vars) /\ [Keys!Next]_(Keys!vars) /\ [Pair!Next]_(Pair!vars)
           /\ [Update!Next]_(Update!vars) /\ [Lic!Next]_(Lic!vars)
<1>1. /\ UNCHANGED ipcVars <=> UNCHANGED Ipc!vars
      /\ UNCHANGED limitsVars <=> UNCHANGED Limits!vars
      /\ UNCHANGED relayVars <=> UNCHANGED Rel!vars
      /\ UNCHANGED gatesVars <=> UNCHANGED Gates!vars
      /\ UNCHANGED keysVars <=> UNCHANGED Keys!vars
      /\ UNCHANGED pairVars <=> UNCHANGED Pair!vars
      /\ UNCHANGED updateVars <=> UNCHANGED Update!vars
      /\ UNCHANGED licenseVars <=> UNCHANGED Lic!vars
  BY DEF ipcVars, limitsVars, relayVars, gatesVars, keysVars, pairVars, updateVars, licenseVars,
         Ipc!vars, Limits!vars, Rel!vars, Rel!daemon, Gates!vars, Gates!world, Gates!stores, Keys!vars,
         Pair!vars, Update!vars, Lic!vars
<1>. QED
  BY <1>1 DEF Next, vars

\* In no minute does the daemon admit more connections of one address than the limit,
\* or dispatch more RPCs of one connection than twice the limit (two windows of
\* RpcRateLimiter may meet in it); the gates of the public API let no more requests of
\* a workspace pass on a day than its quota, whatever the order of the upserts.
THEOREM NoLimitIsPassed == Spec => []LimitsHold
<1>1. RemoteInv /\ GateInv => LimitsHold
  BY RemoteInvGives, GateInvGives DEF LimitsHold
<1>. QED
  BY <1>1, StepsOfEdges, RemoteInit, RemoteNext, GateInit, GateNext, PTL DEF Spec, Init

\* A PIN pairs at most one device each time it is given out, also when two calls of
\* device.pair consume it at once.
THEOREM PinsPairOnce == Spec => []PinPairsOnce
<1>1. PairInv => PinPairsOnce
  BY PairInvGives DEF PinPairsOnce
<1>. QED
  BY <1>1, StepsOfEdges, PairInit, PairNext, PTL DEF Spec, Init

\* However often the daemon looks for an update, it keeps a whole binary of itself
\* through every failure and crash of an update, and installs nothing unverified, as
\* long as no download writes over a pending update that an apply takes.
THEOREM BinaryIsKept == Spec => []BinaryKept
<1>1. UpdateInv => BinaryKept
  BY DEF UpdateInv, Undisturbed, BinaryKept, Update!BinaryKept
<1>2. UpdateInv /\ [Update!Next]_(Update!vars) => UpdateInv'
  BY UpdateNext
<1>. QED
  BY <1>1, <1>2, StepsOfEdges, UpdateInit, PTL DEF Spec, Init

\* Where the writes to the store come one at a time, a client of the WebSocket server
\* that has read every event sent to it, and has not lagged, knows the store.
THEOREM CaughtUpClientsAreCurrent ==
    ASSUME \A v, w \in Writers : v = w
    PROVE  Spec => []CaughtUpIsCurrent
<1>1. IpcInv => CaughtUpIsCurrent
  BY IpcInvGives DEF CaughtUpIsCurrent
<1>2. IpcInv /\ [Ipc!Next]_(Ipc!vars) => IpcInv'
  BY IpcNext
<1>. QED
  BY <1>1, <1>2, StepsOfEdges, IpcInit, PTL DEF Spec, Init

\* What is cached expires: a workspace that left the registry passes the trust gate,
\* and a token of a replaced key the validation, for less than the TTL of the entry
\* (plus the time the answer took); no key set is fetched while the cached one is
\* fresh; and a license that is no longer confirmed lapses within two grace periods.
THEOREM CachesDoExpire == Spec => CachesExpire
<1>1. GateInv /\ [Next]_vars =>
        [\A r \in Requests :
           req[r].pc \in {"trust", "found"} /\ req'[r].pc = "clock" =>
              LET w == req[r].w
              IN  removed[w] = Gates!Never \/ now - removed[w] < TrustTTL + cache'[w].took]_(Gates!vars)
  BY StepsOfEdges, TrustExpires DEF GateInv
<1>2. KeyInv /\ KeyInv' /\ [Next]_vars => [Keys!FetchOnlyWhenStale' /\ Keys!ReplacedKeyExpires]_(Keys!vars)
  BY StepsOfEdges, KeyExpires DEF KeyInv
<1>3. LicInv => (which = "license" => Lic!LicenseLapses)
  BY LicInvGives
<1>4. Spec => []GateInv
  BY StepsOfEdges, GateInit, GateNext, PTL DEF Spec, Init
<1>5. Spec => []KeyInv
  BY StepsOfEdges, KeyInit, KeyNext, PTL DEF Spec, Init
<1>6. Spec => []LicInv
  BY StepsOfEdges, LicInit, LicNext, PTL DEF Spec, Init
<1>7. Spec => Gates!RemovedWorkspaceExpires
  BY <1>1, <1>4, PTL DEF Spec, Gates!RemovedWorkspaceExpires
<1>8. Spec => Keys!KeySetKept
  BY <1>2, <1>5, PTL DEF Spec, Keys!KeySetKept
<1>9. Spec => [](which = "license" => Lic!LicenseLapses)
  BY <1>3, <1>6, PTL
<1>. QED
  BY <1>7, <1>8, <1>9 DEF CachesExpire

\* The state of every component that faces the world outside has its type, whatever
\* the bounds of the instance.
THEOREM EdgesTypesCorrect == Spec => []TypeOK
<1> DEFINE Inv == /\ IpcTypeInv /\ RemoteInv /\ RelayInv /\ GateInv /\ KeyInv /\ PairInv
                  /\ UpdateTypeInv /\ LicInv
<1>1. Init => Inv
  BY IpcInitTypes, RemoteInit, RelayInit, GateInit, KeyInit, PairInit, UpdateInitTypes, LicInit
     DEF Init
<1>2. Inv /\ [Next]_vars => Inv'
  BY StepsOfEdges, IpcNextTypes, RemoteNext, RelayNext, GateNext, KeyNext, PairNext,
     UpdateNextTypes, LicNext
<1>3. Inv => TypeOK
  BY IpcTypeInvGives, RemoteInvGives, RelayInvGives, GateInvGives, KeyInvGives, PairInvGives,
     UpdateTypeInvGives DEF LicInv, TypeOK
<1> HIDE DEF Inv
<1> QED BY <1>1, <1>2, <1>3, PTL DEF Spec

\* Through every replacement of a client and every loss of the connection, the daemon
\* expects the counters that the client of its session has under way, and no client
\* is handed a frame encrypted for it before the hello with the key.
THEOREM SessionsAgree == Spec => SessionAgreed
<1>1. Spec => []RelayInv
  BY StepsOfEdges, RelayInit, RelayNext, PTL DEF Spec, Init
<1>2. RelayInv /\ RelayInv' => [Rel!DaemonInStep' /\ Rel!HelloFirst]_(Rel!vars)
  <2>1. RelayInv => Rel!DaemonInStep /\ Rel!HelloFirst
    BY RelayInvGives
  <2>2. RelayInv' => Rel!DaemonInStep'
    BY <2>1, PTL
  <2> QED BY <2>1, <2>2
<1> QED BY <1>1, <1>2, PTL DEF SessionAgreed, Rel!SessionAgreed
=============================================================================
