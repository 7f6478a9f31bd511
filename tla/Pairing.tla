------------------------------- MODULE Pairing ------------------------------
(***************************************************************************)
(* Device pairing: PairingStorage and the handlers of pairing/.            *)
(*                                                                         *)
(* Each SQL statement is a step.  A PIN is drawn at random, so that one    *)
(* may be drawn again while an earlier row of it is there; the device      *)
(* tokens are UUIDs and never repeat.  A step after the first of a call    *)
(* may be the last, when the daemon crashes or a statement fails.          *)
(***************************************************************************)
EXTENDS Naturals, FiniteSets

CONSTANTS
    Pins,       \* the PINs that are drawn
    Calls,      \* connections
    Devices,    \* ids of paired_devices, in the order of the ULIDs
    TTL,        \* PIN_TTL_SECS
    MaxTime,    \* bounds the clock
    MaxIssued   \* bounds generate_pin

VARIABLES
    now,        \* unixepoch()
    pins,       \* pair_pins: expires_at and used, or Absent
    devices,    \* paired_devices: "absent", "active" or "revoked"
    call,       \* what each connection has under way
    issued,     \* how often each PIN was returned by generate_pin
    paired      \* how many devices each PIN has paired

vars == <<now, pins, devices, call, issued, paired>>

Times == 0 .. MaxTime + TTL
Absent == [expires |-> 0, used |-> TRUE, row |-> FALSE]

TypeOK ==
    /\ now \in 0 .. MaxTime
    /\ pins \in [Pins -> [expires : Times, used : BOOLEAN, row : BOOLEAN]]
    /\ devices \in [Devices -> {"absent", "active", "revoked"}]
    /\ DOMAIN call = Calls
    /\ \A p \in Pins : issued[p] \in 0 .. MaxIssued /\ paired[p] \in 0 .. Cardinality(Devices)

Idle == [pc |-> "idle"]

Init ==
    /\ now = 0
    /\ pins = [p \in Pins |-> Absent]
    /\ devices = [d \in Devices |-> "absent"]
    /\ call = [c \in Calls |-> Idle]
    /\ issued = [p \in Pins |-> 0]
    /\ paired = [p \in Pins |-> 0]

Goto(c, q) == call' = [call EXCEPT ![c] = q]

Tick ==
    /\ now < MaxTime /\ now' = now + 1
    /\ UNCHANGED <<pins, devices, call, issued, paired>>

-----------------------------------------------------------------------------
(***************************************************************************)
(* daemon.pairPin                                                          *)
(***************************************************************************)

\* cleanup_expired_pins, with the time of this moment.
Cleaned == [p \in Pins |-> IF pins[p].used \/ pins[p].expires <= now THEN Absent ELSE pins[p]]

Cleanup(c) ==
    /\ call[c].pc = "idle"
    /\ pins' = Cleaned
    /\ Goto(c, [pc |-> "draw"])
    /\ UNCHANGED <<now, devices, issued, paired>>

\* A PIN is drawn and the time read ...
Draw(c) ==
    /\ call[c].pc = "draw"
    /\ \E p \in Pins : Goto(c, [pc |-> "insert", pin |-> p, expires |-> now + TTL])
    /\ UNCHANGED <<now, pins, devices, issued, paired>>

\* ... and its row inserted, or renewed if the PIN has one.
InsertPin(c) ==
    /\ call[c].pc = "insert"
    /\ LET p == call[c].pin IN
       /\ issued[p] < MaxIssued
       /\ pins' = [pins EXCEPT ![p] = [expires |-> call[c].expires, used |-> FALSE, row |-> TRUE]]
       /\ issued' = [issued EXCEPT ![p] = @ + 1]
    /\ Goto(c, Idle)
    /\ UNCHANGED <<now, devices, paired>>

-----------------------------------------------------------------------------
(***************************************************************************)
(* device.pair                                                             *)
(***************************************************************************)

\* The row that validate_and_consume_pin updates.
Valid(p, time) == pins[p].row /\ ~pins[p].used /\ pins[p].expires > time

\* The time is read before the UPDATE.
DevicePair(c) ==
    /\ call[c].pc = "idle"
    /\ \E p \in Pins : Goto(c, [pc |-> "consume", pin |-> p, time |-> now])
    /\ UNCHANGED <<now, pins, devices, issued, paired>>

\* The PIN is looked up, and marked used in a later statement.
ConsumePinUnmarked(c) ==
    /\ call[c].pc = "consume"
    /\ IF Valid(call[c].pin, call[c].time)
       THEN Goto(c, [pc |-> "issue", pin |-> call[c].pin])
       ELSE Goto(c, Idle)
    /\ UNCHANGED <<now, pins, devices, issued, paired>>

\* validate_and_consume_pin: one conditional UPDATE.  When no row matches,
\* pin_row_exists chooses between two errors.
ConsumePin(c) ==
    /\ call[c].pc = "consume"
    /\ IF Valid(call[c].pin, call[c].time)
       THEN /\ pins' = [pins EXCEPT ![call[c].pin].used = TRUE]
            /\ Goto(c, [pc |-> "issue", pin |-> call[c].pin])
       ELSE Goto(c, Idle) /\ UNCHANGED pins
    /\ UNCHANGED <<now, devices, issued, paired>>

\* issue_device_token.
IssueDeviceToken(c) ==
    /\ call[c].pc = "issue"
    /\ \E d \in Devices :
           /\ devices[d] = "absent"
           /\ devices' = [devices EXCEPT ![d] = "active"]
    /\ paired' = [paired EXCEPT ![call[c].pin] = @ + 1]
    /\ Goto(c, Idle)
    /\ UNCHANGED <<now, pins, issued>>

-----------------------------------------------------------------------------
(***************************************************************************)
(* device.revoke, and the end of a call                                    *)
(***************************************************************************)

\* revoke_device.
DeviceRevoke(c) ==
    /\ call[c].pc = "idle"
    /\ \E d \in Devices :
           /\ devices[d] = "active"
           /\ devices' = [devices EXCEPT ![d] = "revoked"]
    /\ UNCHANGED <<now, pins, call, issued, paired>>

\* The daemon crashes, or a statement fails, and the call ends before its time.
Drop(c) ==
    /\ call[c].pc # "idle"
    /\ Goto(c, Idle)
    /\ UNCHANGED <<now, pins, devices, issued, paired>>

-----------------------------------------------------------------------------
Next ==
    \/ Tick
    \/ \E c \in Calls :
           \/ Cleanup(c) \/ Draw(c) \/ InsertPin(c)
           \/ DevicePair(c) \/ ConsumePin(c) \/ IssueDeviceToken(c)
           \/ DeviceRevoke(c) \/ Drop(c)

Spec == Init /\ [][Next]_vars

-----------------------------------------------------------------------------
(***************************************************************************)
(* Properties                                                              *)
(***************************************************************************)

Pairing(p) == {c \in Calls : call[c].pc = "issue" /\ call[c].pin = p}

\* A PIN pairs one device each time it is given out, also when the same PIN is
\* drawn again, when two devices enter it at once, and when one of them is
\* between the two statements of device.pair.
PinPairsOnce ==
    \A p \in Pins : paired[p] + Cardinality(Pairing(p)) <= issued[p]
=============================================================================
