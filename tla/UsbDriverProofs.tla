-------------------------- MODULE UsbDriverProofs --------------------------
(***************************************************************************)
(* Theorems about the life of a device in the driver, for any number of    *)
(* requests, every device and all disturbances:                            *)
(*   RemovalWaits              RemoveWaitsBarLate;                         *)
(*   PowerIsReported           PowerReported;                              *)
(*   StartedMeansConfigured    StartedIsConfigured.                        *)
(*                                                                         *)
(* Counting is the invariant of the remove lock: its count is the number   *)
(* of requests that have raised it and not lowered it, one more for the    *)
(* device itself until the removal has given that up, less the releases of *)
(* ioctls that held nothing.  The rest is about which requests can be in   *)
(* the driver together (Packets).                                          *)
(***************************************************************************)
EXTENDS UsbDriver, FiniteSetTheorems, TLAPS

(***************************************************************************)
(* The request packets.                                                    *)
(***************************************************************************)
Packet == [kind : Kinds, pc : Pcs, to : Int, by : Irps \cup {NoIrp}]
PostedType == [to : Int, by : Irps \cup {NoIrp}]
DevType ==
    [started : BOOLEAN, configured : BOOLEAN, filter : BOOLEAN, disallow : BOOLEAN,
     interface : BOOLEAN, initial : BOOLEAN, enabled : BOOLEAN, capabilities : BOOLEAN,
     device : Int, system : Int]

Removing == {"mark", "drop", "dropped", "wait"}
PcOfKind(p) ==
    /\ p.kind = "none" <=> p.pc = "idle"
    /\ p.kind = "create" <=> p.pc = "power"
    /\ p.pc = "failed" => p.kind = "ioctl"
    /\ p.pc \in Removing => p.kind = "remove"
    /\ p.pc = "finish" => p.kind \in {"start", "surprise"}
    /\ p.by # NoIrp => p.kind = "device"

(* Two requests that are never in the driver together.                     *)
Exclude(p, q) ==
    \/ p.kind \in PnpKinds /\ q.kind \in PnpKinds
    \/ p.kind = "device" /\ q.kind = "device"
    \/ p.kind = "create" /\ q.kind = "create"
    \/ p.kind = "start" /\ q.kind \in PowerKinds

(* Who is waited for by a program that opens the device: one power request, *)
(* which is posted or in the driver.                                       *)
References ==
    /\ \A q \in Irps : irp[q].by # NoIrp =>
         /\ irp[irp[q].by].kind = "create"
         /\ \A k \in DOMAIN posted : posted[k].by = NoIrp
    /\ \A k \in DOMAIN posted : posted[k].by # NoIrp =>
         /\ irp[posted[k].by].kind = "create"
         /\ \A l \in DOMAIN posted : posted[l].by # NoIrp => l = k

Packets ==
    /\ irp \in [Irps -> Packet]
    /\ posted \in Seq(PostedType)
    /\ \A r \in Irps : PcOfKind(irp[r])
    /\ \A r, s \in Irps : r # s => ~Exclude(irp[r], irp[s])
    /\ References

(***************************************************************************)
(* The invariant.                                                          *)
(***************************************************************************)
Using == {"test", "mark", "drop"} \cup Holding
Users == {r \in Irps : irp[r].pc \in Using}
Own == IF stage # "absent" /\ \A r \in Irps : irp[r].pc # "wait" THEN 1 ELSE 0

Counting ==
    /\ usage \in Int /\ late \in Nat /\ pending \in BOOLEAN /\ event \in BOOLEAN
    /\ usage = Own + Cardinality(Users) - late
    /\ event => pending /\ Cardinality(Holders) <= late
    /\ ~pending => late = 0 /\ \A r \in Irps : irp[r].pc \notin {"failed", "drop", "dropped", "wait"}
    /\ stage = "absent" => /\ event \/ \A r \in Irps : irp[r].pc = "idle"
                           /\ \A r \in Irps : irp[r].kind \notin PnpKinds

AtDevice(r) == irp[r].kind = "device" /\ irp[r].pc = "below"
Powering ==
    stage # "absent" =>
        /\ reported >= dev.device
        /\ ~misled /\ (\A r \in Irps : ~AtDevice(r)) => reported = dev.device
        /\ \A r \in Irps : AtDevice(r) =>
             /\ irp[r].to > dev.device => reported = irp[r].to
             /\ ~misled /\ irp[r].to <= dev.device => reported = dev.device

(* What is needed to let requests in. *)
Fit == dev.filter \/ ~dev.initial \/ excused \/ dev.configured

Configuring ==
    /\ StartedIsConfigured
    /\ \A r \in Irps :
         /\ irp[r].kind = "start" /\ irp[r].pc = "finish" => Fit
         /\ irp[r].kind = "surprise" /\ irp[r].pc = "finish" => ~dev.started
         /\ irp[r].pc \in Removing => ~dev.started

Inv == Packets /\ dev \in DevType /\ reported \in Int /\ stage \in Stages
         /\ Counting /\ Powering /\ Configuring

(***************************************************************************)
(* What a step does to the packets.                                        *)
(***************************************************************************)
(* One packet becomes p; a thread that waited in power_set_device_state    *)
(* may have been let go.                                                   *)
Moves(r, p) ==
    /\ irp'[r] = p
    /\ \A q \in Irps \ {r} : irp'[q] = irp[q] \/ (irp[q].pc = "power" /\ irp'[q] = Idle)

LEMMA IdleIsPacket ==
    /\ Idle \in Packet /\ Idle.kind = "none" /\ Idle.pc = "idle" /\ Idle.by = NoIrp
    /\ PcOfKind(Idle)
    /\ \A p \in Packet : ~Exclude(Idle, p) /\ ~Exclude(p, Idle)
<1>1. Idle \in Packet /\ Idle.kind = "none" /\ Idle.pc = "idle" /\ Idle.by = NoIrp
  BY DEF Idle, Packet, Kinds, PnpKinds, PowerKinds, Pcs, Holding, D0
<1>2. PcOfKind(Idle)
  BY <1>1 DEF PcOfKind, Removing
<1> QED
  BY <1>1, <1>2 DEF Exclude, PnpKinds, PowerKinds

LEMMA OfPackets ==
    ASSUME Packets, NEW r \in Irps
    PROVE  /\ irp[r] \in Packet /\ PcOfKind(irp[r])
           /\ \A s \in Irps : r # s => ~Exclude(irp[r], irp[s]) /\ ~Exclude(irp[s], irp[r])
BY DEF Packets

LEMMA PostedIsTyped ==
    ASSUME Packets
    PROVE  /\ \A k \in DOMAIN posted : posted[k] \in PostedType
           /\ \A k \in DOMAIN posted : posted[k].by # NoIrp => posted[k].by \in Irps
<1>1. posted \in Seq(PostedType)
  BY DEF Packets
<1>2. \A k \in DOMAIN posted : posted[k] \in PostedType
  BY <1>1
<1> QED
  BY <1>2 DEF PostedType

\* A request goes on in its handler.
LEMMA Goes ==
    ASSUME Packets, NEW r \in Irps, NEW pc \in Pcs, Goto(r, pc), UNCHANGED posted,
           PcOfKind([irp[r] EXCEPT !.pc = pc])
    PROVE  \E p \in Packet :
             /\ p.kind = irp[r].kind /\ p.to = irp[r].to /\ p.by = irp[r].by /\ p.pc = pc
             /\ Packets' /\ Moves(r, p)
<1>1. irp \in [Irps -> Packet] /\ irp[r] \in Packet
  BY DEF Packets
<1>2. PICK p : p = [irp[r] EXCEPT !.pc = pc]
  OBVIOUS
<1>3. /\ p \in Packet /\ p.kind = irp[r].kind /\ p.to = irp[r].to /\ p.by = irp[r].by
      /\ p.pc = pc
  BY <1>1, <1>2 DEF Packet
<1>4. irp' = [irp EXCEPT ![r] = p]
  BY <1>2 DEF Goto
<1>5. /\ irp' \in [Irps -> Packet]
      /\ \A q \in Irps : /\ irp'[q] = IF q = r THEN p ELSE irp[q]
                         /\ irp'[q].kind = irp[q].kind /\ irp'[q].by = irp[q].by
  BY <1>1, <1>3, <1>4
<1>6. \A q \in Irps : PcOfKind(irp'[q])
  BY <1>2, <1>5 DEF Packets
<1>7. \A q, s \in Irps : q # s => ~Exclude(irp'[q], irp'[s])
  BY <1>5 DEF Packets, Exclude
<1>8. References'
  <2>1. \A q \in Irps : irp[q].by # NoIrp => irp[q].by \in Irps
    BY <1>1 DEF Packet
  <2>2. \A k \in DOMAIN posted : posted[k].by # NoIrp => posted[k].by \in Irps
    BY PostedIsTyped
  <2>3. References
    BY DEF Packets
  <2> QED
    BY <1>5, <2>1, <2>2, <2>3 DEF References
<1>9. Packets'
  BY <1>5, <1>6, <1>7, <1>8 DEF Packets
<1>10. Moves(r, p)
  BY <1>5 DEF Moves
<1> QED
  BY <1>3, <1>9, <1>10

\* A request is completed.
LEMMA Completes ==
    ASSUME Packets, NEW r \in Irps, irp[r].kind \notin {"none", "create"}, Complete(r),
           UNCHANGED posted
    PROVE  Packets' /\ Moves(r, Idle)
<1>1. irp \in [Irps -> Packet] /\ NoIrp \notin Irps
  BY IrpsAssumption DEF Packets
<1>2. \A q \in Irps : irp'[q] = IF q \in {r, irp[r].by} THEN Idle ELSE irp[q]
  BY DEF Complete
<1>3. irp' \in [Irps -> Packet]
  BY <1>1, <1>2, IdleIsPacket DEF Complete
<1>4. \A q \in Irps : irp'[q] = irp[q] \/ irp'[q] = Idle
  BY <1>2
<1>5. \A q \in Irps : PcOfKind(irp'[q])
  BY <1>4, IdleIsPacket DEF Packets
<1>6. \A q, s \in Irps : q # s => ~Exclude(irp'[q], irp'[s])
  BY <1>1, <1>4, IdleIsPacket DEF Packets
<1>7. ASSUME NEW q \in Irps, q = irp[r].by PROVE irp[q].kind = "create" /\ irp[q].pc = "power"
  BY <1>1, <1>7 DEF Packets, References, PcOfKind
<1>8. References'
  <2>1. ASSUME NEW q \in Irps, irp'[q].by # NoIrp
        PROVE  /\ irp'[irp'[q].by].kind = "create"
               /\ \A k \in DOMAIN posted : posted[k].by = NoIrp
    <3>1. irp'[q] = irp[q] /\ q # r /\ irp[q].by # NoIrp /\ irp[q].by \in Irps
      BY <1>1, <1>2, <1>4, <2>1, IdleIsPacket DEF Packet
    <3>2. irp[q].kind = "device"
      BY <3>1 DEF Packets, PcOfKind
    <3>3. irp[r].by = NoIrp
      <4>1. irp[r].by # NoIrp => irp[r].kind = "device"
        BY OfPackets DEF PcOfKind
      <4>2. ~Exclude(irp[r], irp[q])
        BY <3>1, OfPackets
      <4> QED
        BY <3>2, <4>1, <4>2 DEF Exclude
    <3>4. irp[irp[q].by].kind = "create" /\ irp[q].by # r
      BY <3>1 DEF Packets, References
    <3>5. irp'[irp[q].by] = irp[irp[q].by]
      BY <1>1, <1>2, <3>1, <3>3, <3>4
    <3> QED
      BY <3>1, <3>4, <3>5 DEF Packets, References
  <2>2. ASSUME NEW k \in DOMAIN posted, posted[k].by # NoIrp
        PROVE  /\ irp'[posted[k].by].kind = "create"
               /\ \A l \in DOMAIN posted : posted[l].by # NoIrp => l = k
    <3>1. posted[k].by \in Irps /\ irp[posted[k].by].kind = "create"
      BY <2>2, PostedIsTyped DEF Packets, References
    <3>2. irp[r].by = NoIrp
      BY <2>2 DEF Packets, References
    <3>3. irp'[posted[k].by] = irp[posted[k].by]
      BY <1>1, <1>2, <3>1, <3>2
    <3> QED
      BY <2>2, <3>1, <3>3 DEF Packets, References
  <2> QED
    BY <2>1, <2>2 DEF References
<1>9. Packets'
  BY <1>3, <1>5, <1>6, <1>8 DEF Packets
<1>10. Moves(r, Idle)
  BY <1>2, <1>7 DEF Moves
<1> QED
  BY <1>9, <1>10

\* Another request is posted for which no program waits.
LEMMA Posts ==
    ASSUME Packets, NEW to \in Int
    PROVE  LET longer == Append(posted, [to |-> to, by |-> NoIrp]) IN
           /\ longer \in Seq(PostedType)
           /\ \A k \in DOMAIN posted : k \in DOMAIN longer /\ longer[k] = posted[k]
           /\ \A k \in DOMAIN longer : k \notin DOMAIN posted => longer[k].by = NoIrp
<1>1. PICK x : x = [to |-> to, by |-> NoIrp]
  OBVIOUS
<1>2. x \in PostedType /\ x.by = NoIrp /\ posted \in Seq(PostedType)
  BY <1>1 DEF PostedType, Packets
<1>3. LET longer == Append(posted, x) IN
      /\ longer \in Seq(PostedType)
      /\ \A k \in DOMAIN posted : k \in DOMAIN longer /\ longer[k] = posted[k]
      /\ \A k \in DOMAIN longer : k \notin DOMAIN posted => longer[k].by = NoIrp
  BY <1>2
<1> QED
  BY <1>1, <1>3

\* A request is completed, and another one is posted by it.
LEMMA CompletesAndPosts ==
    ASSUME Packets, NEW r \in Irps, irp[r].kind \notin {"none", "create"},
           irp[r].by = NoIrp, Complete(r), NEW to \in Int,
           posted' = Append(posted, [to |-> to, by |-> NoIrp])
    PROVE  Packets' /\ Moves(r, Idle)
<1>1. irp \in [Irps -> Packet] /\ NoIrp \notin Irps
  BY IrpsAssumption DEF Packets
<1>2. \A q \in Irps : irp'[q] = IF q = r THEN Idle ELSE irp[q]
  BY <1>1 DEF Complete
<1>3. irp' \in [Irps -> Packet]
  BY <1>1, <1>2, IdleIsPacket DEF Complete
<1>4. \A q \in Irps : irp'[q] = irp[q] \/ irp'[q] = Idle
  BY <1>2
<1>5. \A q \in Irps : PcOfKind(irp'[q])
  BY <1>4, IdleIsPacket DEF Packets
<1>6. \A q, s \in Irps : q # s => ~Exclude(irp'[q], irp'[s])
  BY <1>1, <1>4, IdleIsPacket DEF Packets
<1>7. /\ posted' \in Seq(PostedType)
      /\ \A k \in DOMAIN posted : k \in DOMAIN posted' /\ posted'[k] = posted[k]
      /\ \A k \in DOMAIN posted' : k \notin DOMAIN posted => posted'[k].by = NoIrp
  BY Posts
<1>8. References'
  <2>1. \A q \in Irps : irp'[q].by # NoIrp => irp[q].by \in Irps /\ irp'[q] = irp[q]
    BY <1>1, <1>4, IdleIsPacket DEF Packet
  <2>2. \A k \in DOMAIN posted : posted[k].by # NoIrp => posted[k].by \in Irps
    BY PostedIsTyped
  <2>3. References
    BY DEF Packets
  <2>4. \A q \in Irps : irp[q].kind = "create" => irp'[q] = irp[q]
    BY <1>2
  <2> QED
    BY <1>7, <2>1, <2>2, <2>3, <2>4 DEF References
<1>9. Packets'
  BY <1>3, <1>5, <1>6, <1>7, <1>8 DEF Packets
<1>10. Moves(r, Idle)
  BY <1>2 DEF Moves
<1> QED
  BY <1>9, <1>10

\* A request comes that nothing waits for.
LEMMA Begins ==
    ASSUME Packets, NEW r \in Irps, irp[r].pc = "idle", NEW p \in Packet,
           PcOfKind(p), p.by = NoIrp, p.kind # "none", irp' = [irp EXCEPT ![r] = p],
           \A s \in Irps \ {r} : ~Exclude(p, irp[s]) /\ ~Exclude(irp[s], p)
    PROVE  /\ Moves(r, p)
           /\ UNCHANGED posted => Packets'
           /\ p.kind = "create" /\ posted' = Append(posted, [to |-> D0, by |-> r])
                => Packets'
<1>1. irp \in [Irps -> Packet] /\ NoIrp \notin Irps
  BY IrpsAssumption DEF Packets
<1>2. \A q \in Irps : irp'[q] = IF q = r THEN p ELSE irp[q]
  BY <1>1
<1>3. irp' \in [Irps -> Packet]
  BY <1>1
<1>4. \A q \in Irps : PcOfKind(irp'[q])
  BY <1>2 DEF Packets
<1>5. \A q, s \in Irps : q # s => ~Exclude(irp'[q], irp'[s])
  BY <1>2 DEF Packets
<1>6. irp[r].kind = "none"
  BY DEF Packets, PcOfKind
<1>7. \A q \in Irps : irp'[q].by # NoIrp => irp[q].by \in Irps /\ irp'[q] = irp[q]
  BY <1>1, <1>2 DEF Packet
<1>8. \A k \in DOMAIN posted : posted[k].by # NoIrp => posted[k].by \in Irps
  BY PostedIsTyped
<1>9. References
  BY DEF Packets
<1>10. \A q \in Irps : irp[q].kind = "create" => irp'[q] = irp[q]
  BY <1>2, <1>6
<1>11. ASSUME UNCHANGED posted PROVE Packets'
  <2>1. References'
    BY <1>7, <1>8, <1>9, <1>10, <1>11 DEF References
  <2> QED
    BY <1>3, <1>4, <1>5, <1>11, <2>1 DEF Packets
<1>12. ASSUME p.kind = "create", posted' = Append(posted, [to |-> D0, by |-> r])
       PROVE  Packets'
  <2>1. \A q \in Irps \ {r} : irp[q].kind # "create"
    BY <1>12 DEF Exclude
  <2>2. \A q \in Irps : irp[q].by = NoIrp
    BY <1>1, <1>6, <1>9, <2>1 DEF References, Packet
  <2>3. \A k \in DOMAIN posted : posted[k].by = NoIrp
    BY <1>6, <1>8, <1>9, <2>1 DEF References
  <2>4. PICK x : x = [to |-> D0, by |-> r]
    OBVIOUS
  <2>5. x \in PostedType /\ x.by = r /\ posted \in Seq(PostedType)
    BY <2>4 DEF PostedType, Packets, D0
  <2>6. /\ posted' \in Seq(PostedType)
        /\ \A k \in DOMAIN posted' : IF k \in DOMAIN posted THEN posted'[k] = posted[k]
                                     ELSE k = Len(posted) + 1 /\ posted'[k] = x
    BY <1>12, <2>4, <2>5
  <2>7. \A q \in Irps : irp'[q].by = NoIrp
    BY <1>2, <2>2
  <2>8. References'
    BY <1>2, <1>12, <2>3, <2>5, <2>6, <2>7 DEF References
  <2> QED
    BY <1>3, <1>4, <1>5, <2>6, <2>8 DEF Packets
<1>13. Moves(r, p)
  BY <1>2 DEF Moves
<1> QED
  BY <1>11, <1>12, <1>13

\* What has been posted reaches the driver, or is lost.
LEMMA PostedLeaves ==
    ASSUME Packets, posted # <<>>
    PROVE  /\ Head(posted) \in PostedType /\ Tail(posted) \in Seq(PostedType)
           /\ 1 \in DOMAIN posted /\ Head(posted) = posted[1]
           /\ \A k \in DOMAIN Tail(posted) :
                /\ k + 1 \in DOMAIN posted /\ Tail(posted)[k] = posted[k + 1]
                /\ k \in Nat /\ k + 1 # 1
                /\ \A l \in DOMAIN Tail(posted) : l + 1 = k + 1 => l = k
           /\ Head(posted).by # NoIrp =>
                \A k \in DOMAIN Tail(posted) : Tail(posted)[k].by = NoIrp
<1>1. posted \in Seq(PostedType)
  BY DEF Packets
<1>2. /\ Head(posted) \in PostedType /\ Tail(posted) \in Seq(PostedType)
      /\ 1 \in DOMAIN posted /\ Head(posted) = posted[1]
      /\ \A k \in DOMAIN Tail(posted) :
           /\ k + 1 \in DOMAIN posted /\ Tail(posted)[k] = posted[k + 1]
           /\ k \in Nat /\ k + 1 # 1
  BY <1>1
<1>3. \A k, l \in DOMAIN Tail(posted) : l + 1 = k + 1 => l = k
  BY <1>1
<1>4. Head(posted).by # NoIrp =>
        \A k \in DOMAIN Tail(posted) : Tail(posted)[k].by = NoIrp
  BY <1>2 DEF Packets, References
<1> QED
  BY <1>2, <1>3, <1>4

LEMMA PostedPowerIsLostKeepsPackets ==
    ASSUME Packets, PostedPowerIsLost
    PROVE  /\ Packets'
           /\ \A q \in Irps : \/ irp'[q] = irp[q]
                              \/ irp[q].pc = "power" /\ irp'[q] = Idle
<1>1. irp \in [Irps -> Packet] /\ NoIrp \notin Irps
  BY IrpsAssumption DEF Packets
<1>2. posted # <<>> /\ posted' = Tail(posted)
  BY DEF PostedPowerIsLost
<1> DEFINE by == Head(posted).by
<1>3. \A q \in Irps : irp'[q] = IF q = by THEN Idle ELSE irp[q]
  BY DEF PostedPowerIsLost
<1>4. irp' \in [Irps -> Packet]
  BY <1>1, IdleIsPacket DEF PostedPowerIsLost
<1> HIDE DEF by
<1>5. \A q \in Irps : irp'[q] = irp[q] \/ irp'[q] = Idle
  BY <1>3
<1>6. \A q \in Irps : PcOfKind(irp'[q])
  BY <1>5, IdleIsPacket DEF Packets
<1>7. \A q, s \in Irps : q # s => ~Exclude(irp'[q], irp'[s])
  BY <1>1, <1>5, IdleIsPacket DEF Packets
<1>8. \A q \in Irps : q = by => irp[q].kind = "create" /\ irp[q].pc = "power"
  BY <1>1, <1>2, PostedLeaves DEF by, Packets, References, PcOfKind
<1>9. References'
  <2>1. \A q \in Irps : irp'[q].by # NoIrp => irp[q].by \in Irps /\ irp'[q] = irp[q]
    BY <1>1, <1>5, IdleIsPacket DEF Packet
  <2>2. \A k \in DOMAIN posted : posted[k].by # NoIrp => posted[k].by \in Irps
    BY PostedIsTyped
  <2>3. References
    BY DEF Packets
  <2>4. by # NoIrp => \A k \in DOMAIN Tail(posted) : Tail(posted)[k].by = NoIrp
    BY <1>2, PostedLeaves DEF by
  <2>5. \A k \in DOMAIN Tail(posted) :
          /\ k + 1 \in DOMAIN posted /\ Tail(posted)[k] = posted[k + 1]
          /\ \A l \in DOMAIN Tail(posted) : l + 1 = k + 1 => l = k
    BY <1>2, PostedLeaves
  <2>6. 1 \in DOMAIN posted /\ by = posted[1].by
    BY <1>2, PostedLeaves DEF by
  <2>7. ASSUME NEW q \in Irps, irp'[q].by # NoIrp
        PROVE  /\ irp'[irp'[q].by].kind = "create"
               /\ \A k \in DOMAIN posted' : posted'[k].by = NoIrp
    <3>1. irp[q].by \in Irps /\ irp'[q] = irp[q] /\ irp[q].by # NoIrp
      BY <2>1, <2>7
    <3>2. /\ irp[irp[q].by].kind = "create"
          /\ \A k \in DOMAIN posted : posted[k].by = NoIrp
      BY <2>3, <3>1 DEF References
    <3>3. by = NoIrp
      BY <2>6, <3>2
    <3>4. irp'[irp[q].by] = irp[irp[q].by]
      BY <1>3, <3>1, <3>3
    <3> QED
      BY <1>2, <2>5, <3>1, <3>2, <3>4
  <2>8. ASSUME NEW k \in DOMAIN posted', posted'[k].by # NoIrp
        PROVE  /\ irp'[posted'[k].by].kind = "create"
               /\ \A l \in DOMAIN posted' : posted'[l].by # NoIrp => l = k
    <3>1. k + 1 \in DOMAIN posted /\ posted'[k] = posted[k + 1] /\ by = NoIrp
      BY <1>2, <2>4, <2>5, <2>8
    <3>2. posted[k + 1].by \in Irps /\ irp[posted[k + 1].by].kind = "create"
      BY <2>2, <2>3, <2>8, <3>1 DEF References
    <3>3. irp'[posted[k + 1].by] = irp[posted[k + 1].by]
      BY <1>1, <1>3, <3>1, <3>2
    <3>4. \A l \in DOMAIN posted' : posted'[l].by # NoIrp => l + 1 = k + 1
      BY <1>2, <2>3, <2>5, <2>8, <3>1 DEF References
    <3> QED
      BY <1>2, <2>5, <3>1, <3>2, <3>3, <3>4
  <2> QED
    BY <2>7, <2>8 DEF References
<1>10. Packets'
  BY <1>2, <1>4, <1>6, <1>7, <1>9, PostedLeaves DEF Packets
<1> QED
  BY <1>3, <1>8, <1>10

(***************************************************************************)
(* The remove lock.                                                        *)
(***************************************************************************)
LEMMA UsersAreFinite ==
    /\ IsFiniteSet(Users) /\ IsFiniteSet(Holders) /\ Holders \subseteq Users
    /\ Cardinality(Users) \in Nat /\ Cardinality(Holders) \in Nat
    /\ Cardinality(Holders) <= Cardinality(Users)
<1>1. Users \subseteq Irps /\ Holders \subseteq Users
  BY DEF Users, Holders, Using
<1>2. IsFiniteSet(Users) /\ IsFiniteSet(Holders)
  BY <1>1, IrpsAssumption, FS_Subset
<1> QED
  BY <1>1, <1>2, FS_Subset, FS_CardinalityType

\* How many packets are in a set when one more is, or one less.
LEMMA OneMore ==
    ASSUME NEW S, IsFiniteSet(S), NEW x, NEW T,
           \A y : y # x => (y \in T <=> y \in S)
    PROVE  /\ x \in S /\ x \in T => T = S
           /\ x \notin S /\ x \notin T => T = S
           /\ x \notin S /\ x \in T => Cardinality(T) = Cardinality(S) + 1
           /\ x \in S /\ x \notin T => Cardinality(T) = Cardinality(S) - 1
<1>1. CASE x \notin S /\ x \in T
  <2>1. T = S \cup {x}
    BY <1>1
  <2> QED
    BY <1>1, <2>1, FS_AddElement
<1>2. CASE x \in S /\ x \notin T
  <2>1. T = S \ {x}
    BY <1>2
  <2> QED
    BY <1>2, <2>1, FS_RemoveElement
<1> QED
  BY <1>1, <1>2

LEMMA MovesCount ==
    ASSUME NEW r \in Irps, NEW p, Moves(r, p)
    PROVE  /\ irp[r].pc \in Using /\ p.pc \in Using => Cardinality(Users') = Cardinality(Users)
           /\ irp[r].pc \notin Using /\ p.pc \notin Using
                => Cardinality(Users') = Cardinality(Users)
           /\ irp[r].pc \notin Using /\ p.pc \in Using
                => Cardinality(Users') = Cardinality(Users) + 1
           /\ irp[r].pc \in Using /\ p.pc \notin Using
                => Cardinality(Users') = Cardinality(Users) - 1
           /\ (p.pc \in Holding => irp[r].pc \in Holding)
                => Holders' \subseteq Holders /\ Cardinality(Holders') <= Cardinality(Holders)
           /\ p.pc = "wait" \/ irp[r].pc # "wait"
                => ((\E q \in Irps : irp'[q].pc = "wait")
                      <=> p.pc = "wait" \/ \E q \in Irps : irp[q].pc = "wait")
<1>1. \A q \in Irps : q # r =>
        /\ irp'[q].pc \in Using <=> irp[q].pc \in Using
        /\ irp'[q].pc \in Holding <=> irp[q].pc \in Holding
        /\ irp'[q].pc = "wait" <=> irp[q].pc = "wait"
  BY IdleIsPacket DEF Moves, Using, Holding
<1>2. irp'[r] = p
  BY DEF Moves
<1>3. \A q : q # r => (q \in Users' <=> q \in Users)
  BY <1>1 DEF Users
<1>4. r \in Users <=> irp[r].pc \in Using
  BY DEF Users
<1>5. r \in Users' <=> p.pc \in Using
  BY <1>2 DEF Users
<1>6. IsFiniteSet(Users)
  BY UsersAreFinite
<1>7. /\ r \in Users /\ r \in Users' => Users' = Users
      /\ r \notin Users /\ r \notin Users' => Users' = Users
      /\ r \notin Users /\ r \in Users' => Cardinality(Users') = Cardinality(Users) + 1
      /\ r \in Users /\ r \notin Users' => Cardinality(Users') = Cardinality(Users) - 1
  BY <1>3, <1>6, OneMore
<1>8. ASSUME p.pc \in Holding => irp[r].pc \in Holding
      PROVE  Holders' \subseteq Holders /\ Cardinality(Holders') <= Cardinality(Holders)
  <2>1. Holders' \subseteq Holders
    BY <1>1, <1>2, <1>8 DEF Holders
  <2> QED
    BY <2>1, UsersAreFinite, FS_Subset
<1>9. ASSUME p.pc = "wait" \/ irp[r].pc # "wait"
      PROVE  (\E q \in Irps : irp'[q].pc = "wait")
               <=> p.pc = "wait" \/ \E q \in Irps : irp[q].pc = "wait"
  BY <1>1, <1>2, <1>9
<1> QED
  BY <1>4, <1>5, <1>7, <1>8, <1>9

\* The stage of the device, and who waits for its deletion.
LEMMA OwnSame ==
    ASSUME NEW r \in Irps, NEW p, Moves(r, p), irp[r].pc # "wait",
           stage' = "absent" <=> stage = "absent"
    PROVE  /\ Own \in {0, 1}
           /\ p.pc # "wait" => Own' = Own
           /\ p.pc = "wait" => Own' = 0
           /\ Own = 0 => stage = "absent" \/ \E q \in Irps : irp[q].pc = "wait"
<1>1. (\E q \in Irps : irp'[q].pc = "wait") <=> p.pc = "wait" \/ \E q \in Irps : irp[q].pc = "wait"
  BY MovesCount
<1> QED
  BY <1>1 DEF Own

\* A step that leaves the count alone.
LEMMA LockKeeps ==
    ASSUME Counting, NEW r \in Irps, NEW p, Moves(r, p),
           UNCHANGED <<usage, event, late>>, pending' \in BOOLEAN, pending => pending',
           stage' = "absent" <=> stage = "absent",
           irp[r].pc \in Using <=> p.pc \in Using,
           irp[r].pc # "wait", p.pc # "wait",
           stage = "absent" => irp[r].pc # "idle" /\ p.kind \in {irp[r].kind, "none"},
           p.pc \in Holding => irp[r].pc \in Holding \/ ~pending',
           p.pc \in {"failed", "drop", "dropped"} => pending'
    PROVE  Counting'
<1>1. /\ Cardinality(Users') = Cardinality(Users)
      /\ (p.pc \in Holding => irp[r].pc \in Holding)
           => Cardinality(Holders') <= Cardinality(Holders)
  BY MovesCount
<1>2. Own' = Own
  BY OwnSame
<1>3. usage' = Own' + Cardinality(Users)' - late'
  BY <1>1, <1>2 DEF Counting
<1>4. ASSUME event' PROVE pending' /\ Cardinality(Holders)' <= late'
  <2>1. pending /\ Cardinality(Holders) <= late
    BY <1>4 DEF Counting
  <2>2. Cardinality(Holders)' <= Cardinality(Holders)
    BY <1>1, <2>1
  <2>3. Cardinality(Holders)' \in Nat /\ Cardinality(Holders) \in Nat /\ late \in Nat
    <3>1. Holders' \subseteq Holders
      BY <2>1, MovesCount
    <3> QED
      BY <3>1, UsersAreFinite, FS_Subset, FS_CardinalityType DEF Counting
  <2> QED
    BY <2>1, <2>2, <2>3
<1>5. ASSUME ~pending'
      PROVE  late' = 0 /\ \A q \in Irps : irp'[q].pc \notin {"failed", "drop", "dropped", "wait"}
  <2>1. late = 0 /\ \A q \in Irps : irp[q].pc \notin {"failed", "drop", "dropped", "wait"}
    BY <1>5 DEF Counting
  <2> QED
    BY <1>5, <2>1, IdleIsPacket DEF Moves
<1>6. ASSUME stage' = "absent"
      PROVE  /\ event' \/ \A q \in Irps : irp'[q].pc = "idle"
             /\ \A q \in Irps : irp'[q].kind \notin PnpKinds
  <2>1. event /\ \A q \in Irps : irp[q].kind \notin PnpKinds
    BY <1>6 DEF Counting
  <2> QED
    BY <1>6, <2>1, IdleIsPacket DEF Moves, PnpKinds
<1> QED
  BY <1>3, <1>4, <1>5, <1>6 DEF Counting

\* A step that raises it.
LEMMA LockRaises ==
    ASSUME Counting, NEW r \in Irps, NEW p, Moves(r, p),
           usage' = usage + 1, UNCHANGED <<stage, pending, event, late>>,
           irp[r].pc = "acquire", p.pc = "test", p.kind = irp[r].kind
    PROVE  Counting'
<1>1. /\ Cardinality(Users') = Cardinality(Users) + 1 /\ Cardinality(Users) \in Nat
      /\ Holders' \subseteq Holders
  BY MovesCount, UsersAreFinite DEF Using, Holding
<1>2. Own' = Own /\ Own \in {0, 1}
  BY OwnSame
<1>3. usage' \in Int /\ usage' = Own' + Cardinality(Users)' - late'
  BY <1>1, <1>2 DEF Counting
<1>4. Cardinality(Holders') <= Cardinality(Holders) /\ Cardinality(Holders') \in Nat
      /\ Cardinality(Holders) \in Nat
  BY <1>1, UsersAreFinite, FS_Subset, FS_CardinalityType
<1>5. \A q \in Irps : q # r => irp'[q] = irp[q] \/ (irp'[q].kind = "none" /\ irp'[q].pc = "idle")
  BY IdleIsPacket DEF Moves
<1>6. event' => pending' /\ Cardinality(Holders)' <= late'
  BY <1>4 DEF Counting
<1>7. ~pending' => /\ late' = 0
                   /\ \A q \in Irps : irp'[q].pc \notin {"failed", "drop", "dropped", "wait"}
  BY <1>5 DEF Counting, Moves
<1>8. stage' = "absent" => /\ event' \/ \A q \in Irps : irp'[q].pc = "idle"
                           /\ \A q \in Irps : irp'[q].kind \notin PnpKinds
  BY <1>5 DEF Counting, Moves, PnpKinds
<1> QED
  BY <1>3, <1>6, <1>7, <1>8 DEF Counting

\* A step that lowers it.
LEMMA LockReleases ==
    ASSUME Counting, NEW r \in Irps, NEW p, Moves(r, p), remove_lock_release,
           stage' = "absent" <=> stage = "absent",
           irp[r].pc \notin {"idle", "wait"}, p.pc \notin Using,
           p.kind \in {irp[r].kind, "none"},
           \/ irp[r].pc \in Using /\ p.pc # "wait" /\ late' = late
           \/ irp[r].pc = "failed" /\ p.pc # "wait" /\ late' = late + 1
           \/ irp[r].pc = "dropped" /\ p.pc = "wait" /\ late' = late /\ Own = 1,
           p.pc \in {"failed", "drop", "dropped", "wait"} => pending
    PROVE  Counting'
<1>1. /\ usage' = usage - 1 /\ event' = (event \/ usage = 1) /\ pending' = pending
      /\ usage \in Int /\ late \in Nat /\ late' \in Nat /\ late <= late'
      /\ pending \in BOOLEAN /\ event \in BOOLEAN
      /\ usage = Own + Cardinality(Users) - late
  BY DEF remove_lock_release, Counting
<1>2. /\ irp[r].pc \in Using => Cardinality(Users') = Cardinality(Users) - 1
      /\ irp[r].pc \notin Using => Cardinality(Users') = Cardinality(Users)
      /\ Cardinality(Users) \in Nat /\ Cardinality(Holders) \in Nat
  BY MovesCount, UsersAreFinite
<1>3. /\ Holders' \subseteq Holders /\ Cardinality(Holders') <= Cardinality(Holders)
  BY MovesCount DEF Using
<1>4. Cardinality(Holders') \in Nat
  BY <1>3, UsersAreFinite, FS_Subset, FS_CardinalityType
<1>5. /\ Own \in {0, 1}
      /\ p.pc # "wait" => Own' = Own
      /\ p.pc = "wait" => Own' = 0
      /\ Own = 0 => stage = "absent" \/ \E q \in Irps : irp[q].pc = "wait"
  BY OwnSame
<1>6. usage' = Own' + Cardinality(Users') - late'
  <2>1. CASE irp[r].pc \in Using /\ p.pc # "wait" /\ late' = late
    BY <1>1, <1>2, <1>5, <2>1
  <2>2. CASE irp[r].pc = "failed" /\ p.pc # "wait" /\ late' = late + 1
    BY <1>1, <1>2, <1>5, <2>2 DEF Using, Holding
  <2>3. CASE irp[r].pc = "dropped" /\ p.pc = "wait" /\ late' = late /\ Own = 1
    BY <1>1, <1>2, <1>5, <2>3 DEF Using, Holding
  <2> QED
    BY <2>1, <2>2, <2>3
<1>7. Own' \in {0, 1} /\ Cardinality(Users') \in Nat /\ Cardinality(Holders') <= Cardinality(Users')
  <2>1. Users' \subseteq Users
    <3>1. \A q \in Irps : irp'[q].pc \in Using => irp[q].pc \in Using
      BY IdleIsPacket DEF Moves, Using, Holding
    <3> QED
      BY <3>1 DEF Users
  <2>2. Holders' \subseteq Users'
    BY DEF Holders, Users, Using
  <2>3. IsFiniteSet(Users')
    BY <2>1, UsersAreFinite, FS_Subset
  <2> QED
    BY <1>5, <2>2, <2>3, FS_Subset, FS_CardinalityType
<1>8. ASSUME event, ~(usage = 1) PROVE pending /\ Cardinality(Holders') <= late'
  <2>1. pending /\ Cardinality(Holders) <= late
    BY <1>8 DEF Counting
  <2> QED
    BY <1>1, <1>2, <1>3, <1>4, <2>1
<1>9. ASSUME usage = 1 PROVE pending /\ Cardinality(Holders') <= late'
  <2>1. Cardinality(Holders') <= late'
    BY <1>1, <1>4, <1>6, <1>7, <1>9
  <2>2. CASE ~pending
    <3>1. late = 0 /\ \A q \in Irps : irp[q].pc \notin {"failed", "drop", "dropped", "wait"}
      BY <2>2 DEF Counting
    <3>2. stage # "absent"
      BY <2>2, <3>1 DEF Counting
    <3>3. Own = 1 /\ late' = 0 /\ p.pc # "wait"
      BY <1>5, <2>2, <3>1, <3>2
    <3> QED
      BY <1>1, <1>5, <1>6, <1>7, <1>9, <3>3
  <2> QED
    BY <2>1, <2>2
<1>10. event' => pending' /\ Cardinality(Holders)' <= late'
  BY <1>1, <1>8, <1>9
<1>11. ASSUME ~pending'
       PROVE  late' = 0 /\ \A q \in Irps : irp'[q].pc \notin {"failed", "drop", "dropped", "wait"}
  <2>1. ~pending /\ late = 0
        /\ \A q \in Irps : irp[q].pc \notin {"failed", "drop", "dropped", "wait"}
    BY <1>1, <1>11 DEF Counting
  <2> QED
    BY <1>1, <2>1, IdleIsPacket DEF Moves
<1>12. ASSUME stage' = "absent"
       PROVE  /\ event' \/ \A q \in Irps : irp'[q].pc = "idle"
              /\ \A q \in Irps : irp'[q].kind \notin PnpKinds
  <2>1. event /\ \A q \in Irps : irp[q].kind \notin PnpKinds
    BY <1>12 DEF Counting
  <2> QED
    BY <1>1, <2>1, IdleIsPacket DEF Moves, PnpKinds
<1> QED
  BY <1>1, <1>6, <1>10, <1>11, <1>12 DEF Counting

(***************************************************************************)
(* The power manager, and the configuration.                               *)
(***************************************************************************)
\* A step that has nothing to do with the power of the device.
LEMMA PowerKeeps ==
    ASSUME Packets, Powering, NEW r \in Irps, NEW p, Moves(r, p),
           UNCHANGED <<reported, misled>>, dev'.device = dev.device, stage' # "absent" => stage # "absent",
           ~AtDevice(r), ~(p.kind = "device" /\ p.pc = "below")
    PROVE  Powering'
<1>1. \A q \in Irps : /\ AtDevice(q)' <=> AtDevice(q)
                      /\ AtDevice(q) => irp'[q].to = irp[q].to
  <2> TAKE q \in Irps
  <2>1. CASE q = r
    BY <2>1 DEF Moves, AtDevice
  <2>2. CASE q # r
    BY <2>2, IdleIsPacket DEF Moves, AtDevice
  <2> QED
    BY <2>1, <2>2
<1> QED
  BY <1>1 DEF Powering

\* A step that neither starts nor configures the device.
LEMMA ConfigKeeps ==
    ASSUME Configuring, NEW r \in Irps, NEW p, Moves(r, p),
           dev'.started => dev.started, dev'.configured = dev.configured,
           dev'.filter = dev.filter, dev'.initial = dev.initial, excused' = excused,
           p.pc = "finish" => irp[r].pc = "finish",
           p.pc \in Removing => irp[r].pc \in Removing,
           p.kind \in {irp[r].kind, "none"}
    PROVE  Configuring'
<1>1. irp'[r] = p /\ \A q \in Irps \ {r} : irp'[q] = irp[q] \/ irp'[q].pc = "idle"
  BY IdleIsPacket DEF Moves
<1>2. StartedIsConfigured'
  BY DEF Configuring, StartedIsConfigured
<1>3. ASSUME NEW q \in Irps
      PROVE  /\ irp'[q].kind = "start" /\ irp'[q].pc = "finish" => Fit'
             /\ irp'[q].kind = "surprise" /\ irp'[q].pc = "finish" => ~dev'.started
             /\ irp'[q].pc \in Removing => ~dev'.started
  <2>1. CASE q = r
    BY <1>1, <2>1 DEF Configuring, Fit, Removing
  <2>2. CASE q # r
    BY <1>1, <2>2 DEF Configuring, Fit, Removing
  <2> QED
    BY <2>1, <2>2
<1> QED
  BY <1>2, <1>3 DEF Configuring

\* A packet that arrives, or stays in the lock.
LEMMA LockIsQuiet ==
    ASSUME Inv, NEW r \in Irps, NEW p, Moves(r, p),
           UNCHANGED <<dev, excused, stage, reported, misled>>,
           Packets', ~AtDevice(r), p.pc \notin {"below", "finish"} \cup Removing,
           Counting'
    PROVE  Inv'
<1>1. Powering'
  BY PowerKeeps DEF Inv
<1>2. Configuring'
  <2>1. irp'[r] = p /\ \A q \in Irps \ {r} : irp'[q] = irp[q] \/ irp'[q].pc = "idle"
    BY IdleIsPacket DEF Moves
  <2>2. \A q \in Irps : irp'[q] = irp[q] \/ irp'[q].pc \notin {"finish"} \cup Removing
    BY <2>1 DEF Removing
  <2> QED
    BY <2>2 DEF Inv, Configuring, Fit, StartedIsConfigured, Removing
<1> QED
  BY <1>1, <1>2 DEF Inv

(***************************************************************************)
(* The steps of the lock, and of requests of programs.                     *)
(***************************************************************************)
LEMMA LockStepKeeps == ASSUME Inv, NEW r \in Irps, Lock(r) PROVE Inv'
<1>1. irp[r] \in Packet /\ PcOfKind(irp[r]) /\ Packets /\ Counting
  BY OfPackets DEF Inv
<1>2. CASE AcquireIncrements(r)
  <2>1. /\ irp[r].pc = "acquire" /\ Goto(r, "test") /\ usage' = usage + 1
        /\ UNCHANGED <<dev, excused, stage, pending, event, late, posted, reported, misled>>
    BY <1>2 DEF AcquireIncrements, powerVars
  <2>2. PcOfKind([irp[r] EXCEPT !.pc = "test"])
    BY <1>1, <2>1 DEF Packet, PcOfKind, Removing
  <2>3. PICK p \in Packet :
          /\ p.kind = irp[r].kind /\ p.to = irp[r].to /\ p.by = irp[r].by /\ p.pc = "test"
          /\ Packets' /\ Moves(r, p)
    BY <1>1, <2>1, <2>2, Goes DEF Pcs
  <2>4. Counting'
    BY <1>1, <2>1, <2>3, LockRaises
  <2> QED
    BY <2>1, <2>3, <2>4, LockIsQuiet DEF AtDevice, Removing
<1>3. CASE AcquireSucceeds(r)
  <2>1. /\ irp[r].pc = "test" /\ Goto(r, "in") /\ ~pending
        /\ UNCHANGED <<dev, excused, stage, usage, pending, event, late, posted, reported, misled>>
    BY <1>3 DEF AcquireSucceeds, lockVars, powerVars
  <2>2. PcOfKind([irp[r] EXCEPT !.pc = "in"])
    BY <1>1, <2>1 DEF Packet, PcOfKind, Removing
  <2>3. PICK p \in Packet :
          /\ p.kind = irp[r].kind /\ p.to = irp[r].to /\ p.by = irp[r].by /\ p.pc = "in"
          /\ Packets' /\ Moves(r, p)
    BY <1>1, <2>1, <2>2, Goes DEF Pcs, Holding
  <2>4. Counting'
    BY <1>1, <2>1, <2>3, LockKeeps DEF Using, Holding, Counting
  <2> QED
    BY <2>1, <2>3, <2>4, LockIsQuiet DEF AtDevice, Removing
<1>4. CASE AcquireFails(r)
  <2>1. /\ irp[r].pc = "test" /\ pending /\ remove_lock_release /\ late' = late
        /\ UNCHANGED <<dev, excused, stage, posted, reported, misled>>
    BY <1>4 DEF AcquireFails, Release, powerVars
  <2>2. CASE irp[r].kind = "ioctl"
    <3>1. Goto(r, "failed")
      BY <1>4, <2>2 DEF AcquireFails
    <3>2. PcOfKind([irp[r] EXCEPT !.pc = "failed"])
      BY <1>1, <2>2 DEF Packet, PcOfKind, Removing
    <3>3. PICK p \in Packet :
            /\ p.kind = irp[r].kind /\ p.to = irp[r].to /\ p.by = irp[r].by
            /\ p.pc = "failed" /\ Packets' /\ Moves(r, p)
      BY <1>1, <2>1, <3>1, <3>2, Goes DEF Pcs
    <3>4. Counting'
      BY <1>1, <2>1, <3>3, LockReleases DEF Using, Holding
    <3> QED
      BY <2>1, <3>3, <3>4, LockIsQuiet DEF AtDevice, Removing
  <2>3. CASE irp[r].kind # "ioctl"
    <3>1. Complete(r) /\ irp[r].kind \notin {"none", "create"}
      BY <1>1, <1>4, <2>1, <2>3 DEF AcquireFails, PcOfKind
    <3>2. Packets' /\ Moves(r, Idle)
      BY <1>1, <2>1, <3>1, Completes
    <3>3. Counting'
      BY <1>1, <2>1, <3>2, LockReleases, IdleIsPacket DEF Using, Holding
    <3> QED
      BY <2>1, <3>2, <3>3, LockIsQuiet, IdleIsPacket DEF AtDevice, Removing
  <2> QED
    BY <2>2, <2>3
<1>5. CASE FailedIoctlReleases(r)
  <2>1. /\ irp[r].pc = "failed" /\ remove_lock_release /\ late' = late + 1 /\ Complete(r)
        /\ UNCHANGED <<dev, excused, stage, posted, reported, misled>>
    BY <1>5 DEF FailedIoctlReleases, powerVars
  <2>2. irp[r].kind \notin {"none", "create"}
    BY <1>1, <2>1 DEF PcOfKind
  <2>3. Packets' /\ Moves(r, Idle)
    BY <1>1, <2>1, <2>2, Completes
  <2>4. Counting'
    BY <1>1, <2>1, <2>3, LockReleases, IdleIsPacket DEF Using, Holding
  <2> QED
    BY <2>1, <2>3, <2>4, LockIsQuiet, IdleIsPacket DEF AtDevice, Removing
<1> QED
  BY <1>2, <1>3, <1>4, <1>5 DEF Lock

\* A packet that arrives from the pool.
LEMMA ArrivalKeeps ==
    ASSUME Inv, NEW r \in Irps, NEW p \in Packet, PcOfKind(p), p.by = NoIrp,
           p.kind # "none", p.pc \in {"acquire", "power"}, irp[r].pc = "idle",
           stage # "absent", UNCHANGED <<dev, excused, stage, lockVars, reported, misled>>,
           irp' = [irp EXCEPT ![r] = p],
           \A s \in Irps \ {r} : ~Exclude(p, irp[s]) /\ ~Exclude(irp[s], p),
           \/ UNCHANGED posted
           \/ p.kind = "create" /\ posted' = Append(posted, [to |-> D0, by |-> r])
    PROVE  Inv'
<1>1. Packets' /\ Moves(r, p)
  BY Begins DEF Inv
<1>2. UNCHANGED <<usage, pending, event, late>>
  BY DEF lockVars
<1>3. Counting /\ pending' \in BOOLEAN
  BY <1>2 DEF Inv, Counting
<1>4. Counting'
  BY <1>1, <1>2, <1>3, LockKeeps DEF Using, Holding
<1> QED
  BY <1>1, <1>4, LockIsQuiet DEF AtDevice, Removing

LEMMA DispatchMakes ==
    ASSUME NEW kind \in Kinds \ {"none"}, NEW pc \in {"acquire", "power"},
           kind = "create" <=> pc = "power"
    PROVE  LET p == [Idle EXCEPT !.kind = kind, !.pc = pc] IN
           p \in Packet /\ p.kind = kind /\ p.pc = pc /\ p.by = NoIrp /\ PcOfKind(p)
<1>1. PICK p : p = [Idle EXCEPT !.kind = kind, !.pc = pc]
  OBVIOUS
<1>2. p \in Packet /\ p.kind = kind /\ p.pc = pc /\ p.by = NoIrp
  BY <1>1, IdleIsPacket DEF Packet, Pcs
<1>3. PcOfKind(p)
  BY <1>2 DEF PcOfKind, Removing
<1> QED
  BY <1>1, <1>2, <1>3

LEMMA IoctlArrivesKeeps == ASSUME Inv, NEW r \in Irps, IoctlArrives(r) PROVE Inv'
<1>1. PICK p : p = [Idle EXCEPT !.kind = "ioctl", !.pc = "acquire"]
  OBVIOUS
<1>2. p \in Packet /\ p.kind = "ioctl" /\ p.pc = "acquire" /\ p.by = NoIrp /\ PcOfKind(p)
  BY <1>1, DispatchMakes DEF Kinds
<1>3. /\ irp[r].pc = "idle" /\ irp' = [irp EXCEPT ![r] = p] /\ stage # "absent"
      /\ UNCHANGED <<dev, excused, stage, lockVars, posted, reported, misled>>
  BY <1>1 DEF IoctlArrives, Dispatch, powerVars
<1>4. \A s \in Irps : ~Exclude(p, irp[s]) /\ ~Exclude(irp[s], p)
  BY <1>2 DEF Exclude, PnpKinds, PowerKinds
<1> QED
  BY <1>2, <1>3, <1>4, ArrivalKeeps

LEMMA CreateArrivesKeeps == ASSUME Inv, NEW r \in Irps, CreateArrives(r) PROVE Inv'
<1>1. PICK p : p = [Idle EXCEPT !.kind = "create", !.pc = "power"]
  OBVIOUS
<1>2. p \in Packet /\ p.kind = "create" /\ p.pc = "power" /\ p.by = NoIrp /\ PcOfKind(p)
  BY <1>1, DispatchMakes DEF Kinds
<1>3. /\ irp[r].pc = "idle" /\ irp' = [irp EXCEPT ![r] = p] /\ stage # "absent"
      /\ posted' = Append(posted, [to |-> D0, by |-> r])
      /\ UNCHANGED <<dev, excused, stage, lockVars, reported, misled>> /\ ~Busy({"create"})
  BY <1>1 DEF CreateArrives, Dispatch
<1>4. \A s \in Irps : ~Exclude(p, irp[s]) /\ ~Exclude(irp[s], p)
  BY <1>2, <1>3 DEF Exclude, PnpKinds, PowerKinds, Busy
<1> QED
  BY <1>2, <1>3, <1>4, ArrivalKeeps

LEMMA PnpArrivesKeeps ==
    ASSUME Inv, NEW r \in Irps, NEW kind \in PnpKinds, PnpArrives(r, kind)
    PROVE  Inv'
<1>1. PICK p : p = [Idle EXCEPT !.kind = kind, !.pc = "acquire"]
  OBVIOUS
<1>2. p \in Packet /\ p.kind = kind /\ p.pc = "acquire" /\ p.by = NoIrp /\ PcOfKind(p)
  <2>1. kind \in Kinds \ {"none"} /\ kind # "create"
    BY DEF Kinds, PnpKinds
  <2> QED
    BY <1>1, <2>1, DispatchMakes
<1>3. /\ irp[r].pc = "idle" /\ irp' = [irp EXCEPT ![r] = p]
      /\ UNCHANGED <<dev, excused, stage, lockVars, posted, reported, misled>>
      /\ ~Busy(PnpKinds) /\ (kind = "start" => ~Busy(PowerKinds))
  BY <1>1 DEF PnpArrives, Dispatch, powerVars
<1>4. stage # "absent"
  BY DEF PnpArrives, Sends, PnpKinds
<1>5. \A s \in Irps : ~Exclude(p, irp[s]) /\ ~Exclude(irp[s], p)
  BY <1>2, <1>3 DEF Exclude, PnpKinds, PowerKinds, Busy
<1> QED
  BY <1>2, <1>3, <1>4, <1>5, ArrivalKeeps DEF PnpKinds

\* Requests for power for which no program waits.
LEMMA PowerArrivesKeeps ==
    ASSUME Inv, NEW r \in Irps, NEW kind \in PowerKinds, NEW to \in Int,
           PowerArrives(r, kind, to, NoIrp), UNCHANGED posted
    PROVE  Inv'
<1>1. PICK p : p = [kind |-> kind, pc |-> "acquire", to |-> to, by |-> NoIrp]
  OBVIOUS
<1>2. p \in Packet /\ p.kind = kind /\ p.pc = "acquire" /\ p.by = NoIrp /\ PcOfKind(p)
  BY <1>1 DEF Packet, PcOfKind, Kinds, PowerKinds, Pcs, Removing
<1>3. /\ irp[r].pc = "idle" /\ irp' = [irp EXCEPT ![r] = p] /\ stage # "absent"
      /\ UNCHANGED <<dev, excused, stage, lockVars, reported, misled>> /\ ~Busy({kind, "start"})
  BY <1>1 DEF PowerArrives
<1>4. \A s \in Irps : ~Exclude(p, irp[s]) /\ ~Exclude(irp[s], p)
  BY <1>2, <1>3 DEF Exclude, PnpKinds, PowerKinds, Busy
<1> QED
  BY <1>2, <1>3, <1>4, ArrivalKeeps DEF PowerKinds

\* The request a program waits for passes from the queue into the driver.
LEMMA PostedPowerKeepsPackets ==
    ASSUME Packets, NEW r \in Irps, irp[r].pc = "idle", NEW p \in Packet, posted # <<>>,
           PcOfKind(p), p.kind = "device", p.by = Head(posted).by,
           irp' = [irp EXCEPT ![r] = p], posted' = Tail(posted),
           \A s \in Irps \ {r} : ~Exclude(p, irp[s]) /\ ~Exclude(irp[s], p)
    PROVE  Packets' /\ Moves(r, p)
<1>1. irp \in [Irps -> Packet] /\ NoIrp \notin Irps
  BY IrpsAssumption DEF Packets
<1>2. \A q \in Irps : irp'[q] = IF q = r THEN p ELSE irp[q]
  BY <1>1
<1>3. irp' \in [Irps -> Packet] /\ posted' \in Seq(PostedType)
  BY <1>1, PostedLeaves
<1>4. \A q \in Irps : PcOfKind(irp'[q])
  BY <1>2 DEF Packets
<1>5. \A q, s \in Irps : q # s => ~Exclude(irp'[q], irp'[s])
  BY <1>2 DEF Packets
<1>6. irp[r].kind = "none"
  BY DEF Packets, PcOfKind
<1>7. \A q \in Irps \ {r} : irp[q].by = NoIrp
  <2>1. ASSUME NEW q \in Irps \ {r}, irp[q].by # NoIrp PROVE FALSE
    <3>1. irp[q].kind = "device"
      BY <2>1 DEF Packets, PcOfKind
    <3> QED
      BY <3>1 DEF Exclude
  <2> QED
    BY <2>1
<1>8. References'
  <2>1. References /\ 1 \in DOMAIN posted /\ p.by = posted[1].by
    BY PostedLeaves DEF Packets
  <2>2. \A k \in DOMAIN posted' :
          /\ k + 1 \in DOMAIN posted /\ posted'[k] = posted[k + 1]
          /\ \A l \in DOMAIN posted' : l + 1 = k + 1 => l = k
    BY PostedLeaves
  <2>3. p.by # NoIrp => \A k \in DOMAIN posted' : posted'[k].by = NoIrp
    BY PostedLeaves
  <2>4. \A q \in Irps : irp[q].kind = "create" => irp'[q] = irp[q]
    BY <1>2, <1>6
  <2>5. \A k \in DOMAIN posted : posted[k].by # NoIrp => posted[k].by \in Irps
    BY PostedIsTyped
  <2>6. ASSUME NEW q \in Irps, irp'[q].by # NoIrp
        PROVE  /\ irp'[irp'[q].by].kind = "create"
               /\ \A k \in DOMAIN posted' : posted'[k].by = NoIrp
    <3>1. irp'[q].by = p.by /\ p.by # NoIrp
      BY <1>2, <1>7, <2>6
    <3>2. p.by \in Irps /\ irp[p.by].kind = "create"
      BY <2>1, <2>5, <3>1 DEF References
    <3> QED
      BY <2>3, <2>4, <3>1, <3>2
  <2>7. ASSUME NEW k \in DOMAIN posted', posted'[k].by # NoIrp
        PROVE  /\ irp'[posted'[k].by].kind = "create"
               /\ \A l \in DOMAIN posted' : posted'[l].by # NoIrp => l = k
    <3>1. /\ posted[k + 1].by \in Irps /\ irp[posted[k + 1].by].kind = "create"
          /\ k + 1 \in DOMAIN posted /\ posted'[k] = posted[k + 1]
      BY <2>1, <2>2, <2>5, <2>7 DEF References
    <3>2. \A l \in DOMAIN posted' : posted'[l].by # NoIrp => l + 1 = k + 1
      BY <2>1, <2>2, <2>7, <3>1 DEF References
    <3> QED
      BY <2>2, <2>4, <3>1, <3>2
  <2> QED
    BY <2>6, <2>7 DEF References
<1>9. Packets'
  BY <1>3, <1>4, <1>5, <1>8 DEF Packets
<1>10. Moves(r, p)
  BY <1>2 DEF Moves
<1> QED
  BY <1>9, <1>10

LEMMA PostedPowerArrivesKeeps ==
    ASSUME Inv, NEW r \in Irps, PostedPowerArrives(r)
    PROVE  Inv'
<1>1. /\ posted # <<>> /\ posted' = Tail(posted) /\ irp[r].pc = "idle" /\ stage # "absent"
      /\ UNCHANGED <<dev, excused, stage, usage, pending, event, late, reported, misled>>
      /\ ~Busy({"device", "start"})
  BY DEF PostedPowerArrives, PowerArrives, lockVars
<1>2. Packets /\ Counting /\ pending \in BOOLEAN
  BY DEF Inv, Counting
<1>3. Head(posted) \in PostedType
  BY <1>1, <1>2, PostedLeaves
<1>4. PICK p : p = [kind |-> "device", pc |-> "acquire", to |-> Head(posted).to,
                    by |-> Head(posted).by]
  OBVIOUS
<1>5. irp' = [irp EXCEPT ![r] = p]
  BY <1>4 DEF PostedPowerArrives, PowerArrives
<1>6. p \in Packet /\ p.kind = "device" /\ p.pc = "acquire" /\ p.by = Head(posted).by
  BY <1>3, <1>4 DEF Packet, PostedType, Kinds, PowerKinds, Pcs
<1>7. PcOfKind(p)
  BY <1>6 DEF PcOfKind, Removing
<1>8. \A s \in Irps : ~Exclude(p, irp[s]) /\ ~Exclude(irp[s], p)
  BY <1>1, <1>6 DEF Exclude, PnpKinds, PowerKinds, Busy
<1>9. Packets' /\ Moves(r, p)
  BY <1>1, <1>2, <1>5, <1>6, <1>7, <1>8, PostedPowerKeepsPackets
<1>10. Counting'
  BY <1>1, <1>2, <1>6, <1>9, LockKeeps DEF Using, Holding
<1> QED
  BY <1>1, <1>6, <1>9, <1>10, LockIsQuiet DEF AtDevice, Removing

LEMMA ArrivalStepKeeps == ASSUME Inv, NEW r \in Irps, Arrival(r) PROVE Inv'
<1>1. CASE IoctlArrives(r)
  BY <1>1, IoctlArrivesKeeps
<1>2. CASE CreateArrives(r)
  BY <1>2, CreateArrivesKeeps
<1>3. CASE \E kind \in PnpKinds : PnpArrives(r, kind)
  BY <1>3, PnpArrivesKeeps
<1>4. CASE \E to \in SystemStates : SystemPowerArrives(r, to)
  <2>1. PICK to \in Int : PowerArrives(r, "system", to, NoIrp) /\ UNCHANGED posted
    BY <1>4 DEF SystemPowerArrives, SystemStates, Working, Sleeping
  <2> QED
    BY <2>1, PowerArrivesKeeps DEF PowerKinds
<1>5. CASE \E to \in {D0, D3} : FunctionDriverPowers(r, to)
  <2>1. PICK to \in Int : PowerArrives(r, "device", to, NoIrp) /\ UNCHANGED posted
    BY <1>5 DEF FunctionDriverPowers, D0, D3
  <2> QED
    BY <2>1, PowerArrivesKeeps DEF PowerKinds
<1> QED
  BY <1>1, <1>2, <1>3, <1>4, <1>5 DEF Arrival

(***************************************************************************)
(* What the other steps have in common.                                    *)
(***************************************************************************)
\* A request that holds the lock is completed.
LEMMA ReleaseCompletes ==
    ASSUME Inv, NEW r \in Irps, irp[r].pc \in Holding, Release, Complete(r),
           UNCHANGED posted, stage' = "absent" <=> stage = "absent"
    PROVE  Packets' /\ Moves(r, Idle) /\ Counting'
<1>1. Packets /\ Counting /\ PcOfKind(irp[r])
  BY OfPackets DEF Inv
<1>2. irp[r].kind \notin {"none", "create"}
  BY <1>1 DEF PcOfKind, Holding
<1>3. Packets' /\ Moves(r, Idle)
  BY <1>1, <1>2, Completes
<1>4. irp[r].pc \in Using /\ irp[r].pc \notin {"idle", "wait"} /\ Idle.pc \notin Using
  BY IdleIsPacket DEF Using, Holding
<1>5. remove_lock_release /\ late' = late
  BY DEF Release
<1>6. Counting'
  BY <1>1, <1>3, <1>4, <1>5, LockReleases, IdleIsPacket
<1> QED
  BY <1>3, <1>6

\* A request that has raised the count goes on in its handler.
LEMMA GoesOn ==
    ASSUME Inv, NEW r \in Irps, irp[r].pc \in Using, NEW pc \in Using \ {"test"},
           pc \in Holding => irp[r].pc \in Holding, Goto(r, pc),
           PcOfKind([irp[r] EXCEPT !.pc = pc]),
           UNCHANGED <<stage, usage, event, late, posted>>, pending' \in BOOLEAN,
           pending => pending', pc = "drop" => pending'
    PROVE  \E p \in Packet :
             /\ p.kind = irp[r].kind /\ p.to = irp[r].to /\ p.by = irp[r].by /\ p.pc = pc
             /\ Packets' /\ Moves(r, p) /\ Counting'
<1>1. Packets /\ Counting
  BY DEF Inv
<1>2. pc \in Pcs
  BY DEF Using, Holding, Pcs
<1>3. PICK p \in Packet :
        /\ p.kind = irp[r].kind /\ p.to = irp[r].to /\ p.by = irp[r].by /\ p.pc = pc
        /\ Packets' /\ Moves(r, p)
  BY <1>1, <1>2, Goes
<1>4. /\ irp[r].pc \in Using <=> p.pc \in Using
      /\ irp[r].pc \notin {"wait", "idle"}
      /\ p.pc \notin {"wait", "failed", "dropped"}
      /\ p.pc \in Holding => irp[r].pc \in Holding
  BY <1>3 DEF Using, Holding
<1>5. Counting'
  BY <1>1, <1>3, <1>4, LockKeeps
<1> QED
  BY <1>3, <1>5

\* The plug and play manager is there as long as the device is.
LEMMA PnpIsAlone ==
    ASSUME Inv, NEW r \in Irps, irp[r].kind \in PnpKinds
    PROVE  /\ stage # "absent"
           /\ \A q \in Irps \ {r} : irp[q].kind \notin PnpKinds /\ irp[q].pc \notin Removing
<1>1. stage # "absent"
  BY DEF Inv, Counting
<1>2. ASSUME NEW q \in Irps \ {r} PROVE irp[q].kind \notin PnpKinds
  BY DEF Inv, Packets, Exclude
<1>3. ASSUME NEW q \in Irps \ {r} PROVE irp[q].pc \notin Removing
  BY <1>2 DEF Inv, Packets, PcOfKind, PnpKinds
<1> QED
  BY <1>1, <1>2, <1>3

\* A request that stops the device, or removes it.
LEMMA StoppedKeeps ==
    ASSUME Inv, NEW r \in Irps, NEW p, Moves(r, p), irp[r].kind \in PnpKinds,
           ~dev'.started, p.pc = "finish" => p.kind = "surprise"
    PROVE  Configuring'
<1>1. irp'[r] = p /\ \A q \in Irps \ {r} : irp'[q] = irp[q] \/ irp'[q].pc = "idle"
  BY IdleIsPacket DEF Moves
<1>2. \A q \in Irps \ {r} : irp[q].kind # "start"
  BY PnpIsAlone DEF PnpKinds
<1> QED
  BY <1>1, <1>2 DEF Configuring, StartedIsConfigured

\* Every completion but those of power requests: what is left to show.
LEMMA PnpPowers ==
    ASSUME Inv, NEW r \in Irps, NEW p, Moves(r, p), irp[r].kind \in PnpKinds,
           p.kind \in {irp[r].kind, "none"}, UNCHANGED <<reported, misled>>,
           dev'.device = dev.device
    PROVE  Powering'
<1>1. stage # "absent" /\ ~AtDevice(r) /\ ~(p.kind = "device" /\ p.pc = "below")
  BY PnpIsAlone DEF AtDevice, PnpKinds
<1> QED
  BY <1>1, PowerKeeps DEF Inv

(***************************************************************************)
(* Requests of programs, plug and play.                                    *)
(***************************************************************************)
LEMMA IoctlEndsKeeps == ASSUME Inv, NEW r \in Irps, IoctlEnds(r) PROVE Inv'
<1>1. /\ irp[r].kind = "ioctl" /\ irp[r].pc = "in" /\ Release /\ Complete(r)
      /\ UNCHANGED <<dev, excused, stage, posted, reported, misled>>
  BY DEF IoctlEnds, powerVars
<1>2. Packets' /\ Moves(r, Idle) /\ Counting'
  BY <1>1, ReleaseCompletes DEF Holding
<1> QED
  BY <1>1, <1>2, LockIsQuiet, IdleIsPacket DEF AtDevice, Removing

LEMMA IoctlConfiguresKeeps == ASSUME Inv, NEW r \in Irps, IoctlConfigures(r) PROVE Inv'
<1>1. UNCHANGED <<stage, irp, usage, pending, event, late, posted, reported, misled>>
  BY DEF IoctlConfigures, lockVars, powerVars
<1>2. PICK b \in BOOLEAN : dev' = [dev EXCEPT !.configured = b] /\ excused' = ~b
  BY DEF IoctlConfigures
<1>3. /\ dev' \in DevType /\ dev'.device = dev.device /\ dev'.started = dev.started
      /\ Fit'
  BY <1>2 DEF Inv, DevType, Fit
<1>4. Packets' /\ Counting'
  BY <1>1 DEF Inv, Packets, References, Counting, Own, Users, Holders
<1>5. Powering'
  BY <1>1, <1>3 DEF Inv, Powering, AtDevice
<1>6. Configuring'
  BY <1>1, <1>3 DEF Inv, Configuring, Fit, StartedIsConfigured
<1> QED
  BY <1>1, <1>3, <1>4, <1>5, <1>6 DEF Inv

LEMMA CapabilitiesKeep ==
    ASSUME Inv, NEW r \in Irps,
           CapabilitiesPassDown(r) \/ on_query_capabilities_complete(r)
    PROVE  Inv'
<1>1. irp[r] \in Packet /\ dev \in DevType /\ pending \in BOOLEAN
  BY OfPackets DEF Inv, Counting
<1>2. CASE CapabilitiesPassDown(r)
  <2>1. /\ irp[r].kind = "capabilities" /\ irp[r].pc = "in" /\ Goto(r, "below")
        /\ UNCHANGED <<dev, excused, stage, usage, pending, event, late, posted, reported, misled>>
    BY <1>2 DEF CapabilitiesPassDown, lockVars, powerVars
  <2>2. PcOfKind([irp[r] EXCEPT !.pc = "below"])
    BY <1>1, <2>1, OfPackets DEF Inv, Packet, PcOfKind, Removing
  <2>3. PICK p \in Packet :
          /\ p.kind = irp[r].kind /\ p.to = irp[r].to /\ p.by = irp[r].by
          /\ p.pc = "below" /\ Packets' /\ Moves(r, p) /\ Counting'
    BY <1>1, <2>1, <2>2, GoesOn DEF Using, Holding
  <2>4. Powering'
    BY <2>1, <2>3, PnpPowers DEF PnpKinds
  <2>5. Configuring'
    BY <2>1, <2>3, ConfigKeeps DEF Inv, Removing
  <2> QED
    BY <2>1, <2>3, <2>4, <2>5 DEF Inv
<1>3. CASE on_query_capabilities_complete(r)
  <2>1. /\ irp[r].kind = "capabilities" /\ irp[r].pc = "below" /\ Release /\ Complete(r)
        /\ dev' = [dev EXCEPT !.capabilities = TRUE] /\ UNCHANGED <<excused, stage, posted, reported, misled>>
    BY <1>3 DEF on_query_capabilities_complete, powerVars
  <2>2. /\ dev' \in DevType /\ dev'.device = dev.device /\ dev'.started = dev.started
        /\ dev'.configured = dev.configured /\ dev'.filter = dev.filter
        /\ dev'.initial = dev.initial
    BY <1>1, <2>1 DEF DevType
  <2>3. Packets' /\ Moves(r, Idle) /\ Counting'
    BY <2>1, ReleaseCompletes DEF Holding
  <2>4. Powering'
    BY <2>1, <2>2, <2>3, PnpPowers, IdleIsPacket DEF PnpKinds
  <2>5. Configuring'
    BY <2>1, <2>2, <2>3, ConfigKeeps, IdleIsPacket DEF Inv, Removing
  <2> QED
    BY <2>1, <2>2, <2>3, <2>4, <2>5 DEF Inv
<1> QED
  BY <1>2, <1>3

LEMMA StartPassesDownKeeps == ASSUME Inv, NEW r \in Irps, StartPassesDown(r) PROVE Inv'
<1>1. irp[r] \in Packet /\ dev \in DevType /\ pending \in BOOLEAN
  BY OfPackets DEF Inv, Counting
<1>2. /\ irp[r].kind = "start" /\ irp[r].pc = "in" /\ Goto(r, "below")
      /\ reported' = dev.device /\ dev' = [dev EXCEPT !.enabled = @ \/ dev.interface]
      /\ UNCHANGED <<excused, stage, usage, pending, event, late, posted>>
  BY DEF StartPassesDown, lockVars
<1>3. PcOfKind([irp[r] EXCEPT !.pc = "below"])
  BY <1>1, <1>2, OfPackets DEF Inv, Packet, PcOfKind, Removing
<1>4. PICK p \in Packet :
        /\ p.kind = irp[r].kind /\ p.to = irp[r].to /\ p.by = irp[r].by
        /\ p.pc = "below" /\ Packets' /\ Moves(r, p) /\ Counting'
  BY <1>1, <1>2, <1>3, GoesOn DEF Using, Holding
<1>5. /\ dev' \in DevType /\ dev'.device = dev.device /\ dev'.started = dev.started
      /\ dev'.configured = dev.configured /\ dev'.filter = dev.filter
      /\ dev'.initial = dev.initial /\ reported' \in Int
  <2>1. (dev.enabled \/ dev.interface) \in BOOLEAN
    OBVIOUS
  <2>2. PICK b \in BOOLEAN : dev' = [dev EXCEPT !.enabled = b]
    BY <1>2, <2>1
  <2> QED
    BY <1>1, <1>2, <2>2 DEF DevType
<1>6. Powering'
  <2>1. \A q \in Irps : irp[q].kind # "device"
    BY <1>2 DEF Inv, Packets, Exclude, PowerKinds
  <2>2. \A q \in Irps : irp'[q].kind # "device"
    BY <1>2, <1>4, <2>1, IdleIsPacket DEF Moves
  <2> QED
    BY <1>1, <1>2, <1>5, <2>2 DEF Powering, AtDevice, DevType
<1>7. Configuring'
  BY <1>2, <1>4, <1>5, ConfigKeeps DEF Inv, Removing
<1> QED
  BY <1>2, <1>4, <1>5, <1>6, <1>7 DEF Inv

LEMMA StartConfiguresKeeps ==
    ASSUME Inv, NEW r \in Irps, StartConfigures(r) \/ StartConfigFails(r)
    PROVE  Inv'
<1>1. irp[r] \in Packet /\ dev \in DevType /\ pending \in BOOLEAN
  BY OfPackets DEF Inv, Counting
<1>2. /\ irp[r].kind = "start" /\ irp[r].pc = "below" /\ Goto(r, "finish")
      /\ UNCHANGED <<stage, usage, pending, event, late, posted, reported, misled>>
  BY DEF StartConfigures, StartConfigFails, lockVars, powerVars
<1>3. PcOfKind([irp[r] EXCEPT !.pc = "finish"])
  BY <1>1, <1>2, OfPackets DEF Inv, Packet, PcOfKind, Removing
<1>4. PICK p \in Packet :
        /\ p.kind = irp[r].kind /\ p.to = irp[r].to /\ p.by = irp[r].by
        /\ p.pc = "finish" /\ Packets' /\ Moves(r, p) /\ Counting'
  BY <1>1, <1>2, <1>3, GoesOn DEF Using, Holding
<1>5. dev.started => Fit
  BY <1>1 DEF Inv, Configuring, StartedIsConfigured, Fit
<1>6. /\ dev' \in DevType /\ dev'.device = dev.device /\ dev'.started = dev.started
      /\ Fit'
  <2>1. CASE StartConfigures(r)
    <3>1. dev' = [dev EXCEPT !.configured = @ \/ Wanted] /\ excused' = (excused /\ ~Wanted)
      BY <2>1 DEF StartConfigures
    <3>2. (dev.configured \/ Wanted) \in BOOLEAN
      BY DEF Wanted
    <3>3. PICK b \in BOOLEAN : /\ b <=> dev.configured \/ Wanted
                               /\ dev' = [dev EXCEPT !.configured = b]
      BY <3>1, <3>2
    <3>4. /\ dev' \in DevType /\ dev'.device = dev.device /\ dev'.started = dev.started
          /\ dev'.filter = dev.filter /\ dev'.initial = dev.initial
          /\ dev'.configured <=> dev.configured \/ Wanted
      BY <1>1, <3>3 DEF DevType
    <3> QED
      BY <1>5, <3>1, <3>4 DEF Wanted, Fit
  <2>2. CASE StartConfigFails(r)
    BY <1>1, <2>2 DEF StartConfigFails, Fit
  <2> QED
    BY <1>2, <2>1, <2>2 DEF StartConfigures, StartConfigFails
<1>7. Powering'
  BY <1>2, <1>4, <1>6, PnpPowers DEF PnpKinds
<1>8. Configuring'
  <2>1. irp'[r] = p /\ \A q \in Irps \ {r} : irp'[q] = irp[q] \/ irp'[q].pc = "idle"
    BY <1>4, IdleIsPacket DEF Moves
  <2>2. \A q \in Irps \ {r} : /\ irp[q].kind \notin {"start", "surprise"}
                              /\ irp[q].pc \notin Removing
    BY <1>2, PnpIsAlone DEF PnpKinds
  <2>3. StartedIsConfigured'
    BY <1>6 DEF Fit, StartedIsConfigured
  <2> QED
    BY <1>2, <1>4, <1>6, <2>1, <2>2, <2>3 DEF Configuring, Removing
<1> QED
  BY <1>2, <1>4, <1>6, <1>7, <1>8 DEF Inv

LEMMA StartFinishesKeeps == ASSUME Inv, NEW r \in Irps, StartFinishes(r) PROVE Inv'
<1>1. /\ irp[r].kind = "start" /\ irp[r].pc = "finish" /\ Release /\ Complete(r)
      /\ dev' = [dev EXCEPT !.started = TRUE] /\ stage' = "started"
      /\ UNCHANGED <<excused, posted, reported, misled>>
  BY DEF StartFinishes, powerVars
<1>2. stage # "absent" /\ \A q \in Irps \ {r} : irp[q].kind \notin PnpKinds /\ irp[q].pc \notin Removing
  BY <1>1, PnpIsAlone DEF PnpKinds
<1>3. dev \in DevType
  BY DEF Inv
<1>4. /\ dev' \in DevType /\ dev'.device = dev.device /\ dev'.filter = dev.filter
      /\ dev'.configured = dev.configured /\ dev'.started /\ dev'.initial = dev.initial
  BY <1>1, <1>3 DEF DevType
<1>5. Packets' /\ Moves(r, Idle) /\ Counting'
  BY <1>1, <1>2, ReleaseCompletes DEF Holding
<1>6. Powering'
  BY <1>1, <1>4, <1>5, PnpPowers, IdleIsPacket DEF PnpKinds
<1>7. Configuring'
  <2>1. Fit
    BY <1>1 DEF Inv, Configuring
  <2>2. irp'[r].pc = "idle" /\ \A q \in Irps \ {r} : irp'[q] = irp[q] \/ irp'[q].pc = "idle"
    BY <1>5, IdleIsPacket DEF Moves
  <2>3. \A q \in Irps : irp'[q].pc = "finish" => irp'[q].kind \notin {"start", "surprise"}
    BY <1>2, <2>2 DEF PnpKinds
  <2>4. \A q \in Irps : irp'[q].pc \notin Removing
    BY <1>2, <2>2 DEF Removing
  <2> QED
    BY <1>1, <1>4, <2>1, <2>3, <2>4 DEF Configuring, Fit, StartedIsConfigured
<1> QED
  BY <1>1, <1>4, <1>5, <1>6, <1>7 DEF Inv, Stages

LEMMA StopKeeps == ASSUME Inv, NEW r \in Irps, Stop(r) PROVE Inv'
<1>1. /\ irp[r].kind = "stop" /\ irp[r].pc = "in" /\ Release /\ Complete(r)
      /\ dev' = [dev EXCEPT !.started = FALSE] /\ stage' = "stopped"
      /\ UNCHANGED <<posted, reported, misled>>
  BY DEF Stop, powerVars
<1>2. stage # "absent" /\ dev \in DevType
  BY <1>1, PnpIsAlone DEF PnpKinds, Inv
<1>3. dev' \in DevType /\ dev'.device = dev.device /\ ~dev'.started
  BY <1>1, <1>2 DEF DevType
<1>4. Packets' /\ Moves(r, Idle) /\ Counting'
  BY <1>1, <1>2, ReleaseCompletes DEF Holding
<1>5. Powering'
  BY <1>1, <1>3, <1>4, PnpPowers, IdleIsPacket DEF PnpKinds
<1>6. Configuring'
  BY <1>1, <1>3, <1>4, StoppedKeeps, IdleIsPacket DEF PnpKinds
<1> QED
  BY <1>1, <1>3, <1>4, <1>5, <1>6 DEF Inv, Stages

LEMMA SurpriseStopsKeeps == ASSUME Inv, NEW r \in Irps, SurpriseStops(r) PROVE Inv'
<1>1. irp[r] \in Packet /\ dev \in DevType /\ pending \in BOOLEAN
  BY OfPackets DEF Inv, Counting
<1>2. /\ irp[r].kind = "surprise" /\ irp[r].pc = "in" /\ Goto(r, "finish")
      /\ dev' = [dev EXCEPT !.started = FALSE]
      /\ UNCHANGED <<stage, usage, pending, event, late, posted, reported, misled>>
  BY DEF SurpriseStops, lockVars, powerVars
<1>3. PcOfKind([irp[r] EXCEPT !.pc = "finish"])
  BY <1>1, <1>2, OfPackets DEF Inv, Packet, PcOfKind, Removing
<1>4. PICK p \in Packet :
        /\ p.kind = irp[r].kind /\ p.to = irp[r].to /\ p.by = irp[r].by
        /\ p.pc = "finish" /\ Packets' /\ Moves(r, p) /\ Counting'
  BY <1>1, <1>2, <1>3, GoesOn DEF Using, Holding
<1>5. dev' \in DevType /\ dev'.device = dev.device /\ ~dev'.started
  BY <1>1, <1>2 DEF DevType
<1>6. Powering'
  BY <1>2, <1>4, <1>5, PnpPowers DEF PnpKinds
<1>7. Configuring'
  BY <1>2, <1>4, <1>5, StoppedKeeps DEF PnpKinds
<1> QED
  BY <1>2, <1>4, <1>5, <1>6, <1>7 DEF Inv

LEMMA SurpriseFinishesKeeps == ASSUME Inv, NEW r \in Irps, SurpriseFinishes(r) PROVE Inv'
<1>1. /\ irp[r].kind = "surprise" /\ irp[r].pc = "finish" /\ Release /\ Complete(r)
      /\ dev' = [dev EXCEPT !.enabled = @ /\ ~dev.interface, !.interface = FALSE,
                            !.configured = FALSE]
      /\ stage' = "surprised" /\ UNCHANGED <<posted, reported, misled>>
  BY DEF SurpriseFinishes, powerVars
<1>2. stage # "absent" /\ dev \in DevType /\ ~dev.started
  BY <1>1, PnpIsAlone DEF PnpKinds, Inv, Configuring
<1>3. dev' \in DevType /\ dev'.device = dev.device /\ ~dev'.started
  <2>1. (dev.enabled /\ ~dev.interface) \in BOOLEAN
    OBVIOUS
  <2>2. PICK b \in BOOLEAN :
          dev' = [dev EXCEPT !.enabled = b, !.interface = FALSE, !.configured = FALSE]
    BY <1>1, <2>1
  <2> QED
    BY <1>2, <2>2 DEF DevType
<1>4. Packets' /\ Moves(r, Idle) /\ Counting'
  BY <1>1, <1>2, ReleaseCompletes DEF Holding
<1>5. Powering'
  BY <1>1, <1>3, <1>4, PnpPowers, IdleIsPacket DEF PnpKinds
<1>6. Configuring'
  BY <1>1, <1>3, <1>4, StoppedKeeps, IdleIsPacket DEF PnpKinds
<1> QED
  BY <1>1, <1>3, <1>4, <1>5, <1>6 DEF Inv, Stages

LEMMA RemoveStopsKeeps == ASSUME Inv, NEW r \in Irps, RemoveStops(r) PROVE Inv'
<1>1. irp[r] \in Packet /\ dev \in DevType /\ pending \in BOOLEAN
  BY OfPackets DEF Inv, Counting
<1>2. /\ irp[r].kind = "remove" /\ irp[r].pc = "in" /\ Goto(r, "mark")
      /\ dev' = [dev EXCEPT !.started = FALSE,
                            !.enabled = @ /\ ~(dev.interface /\ dev.started)]
      /\ UNCHANGED <<stage, usage, pending, event, late, posted, reported, misled>>
  BY DEF RemoveStops, lockVars, powerVars
<1>3. PcOfKind([irp[r] EXCEPT !.pc = "mark"])
  BY <1>1, <1>2, OfPackets DEF Inv, Packet, PcOfKind, Removing
<1>4. PICK p \in Packet :
        /\ p.kind = irp[r].kind /\ p.to = irp[r].to /\ p.by = irp[r].by
        /\ p.pc = "mark" /\ Packets' /\ Moves(r, p) /\ Counting'
  BY <1>1, <1>2, <1>3, GoesOn DEF Using, Holding
<1>5. dev' \in DevType /\ dev'.device = dev.device /\ ~dev'.started
  <2>1. (dev.enabled /\ ~(dev.interface /\ dev.started)) \in BOOLEAN
    OBVIOUS
  <2>2. PICK b \in BOOLEAN : dev' = [dev EXCEPT !.started = FALSE, !.enabled = b]
    BY <1>2, <2>1
  <2> QED
    BY <1>1, <2>2 DEF DevType
<1>6. Powering'
  BY <1>2, <1>4, <1>5, PnpPowers DEF PnpKinds
<1>7. Configuring'
  BY <1>2, <1>4, <1>5, StoppedKeeps DEF PnpKinds
<1> QED
  BY <1>2, <1>4, <1>5, <1>6, <1>7 DEF Inv

\* A step of the removal itself.
LEMMA RemovalIsStopped ==
    ASSUME Inv, NEW r \in Irps, irp[r].pc \in Removing
    PROVE  irp[r].kind = "remove" /\ irp[r].kind \in PnpKinds /\ ~dev.started
<1>1. PcOfKind(irp[r])
  BY OfPackets DEF Inv
<1> QED
  BY <1>1 DEF PcOfKind, PnpKinds, Inv, Configuring

LEMMA RemoveMarksKeeps == ASSUME Inv, NEW r \in Irps, RemoveMarks(r) PROVE Inv'
<1>1. irp[r] \in Packet
  BY OfPackets DEF Inv
<1>2. /\ irp[r].pc = "mark" /\ Goto(r, "drop") /\ pending' = TRUE
      /\ UNCHANGED <<dev, excused, stage, usage, event, late, posted, reported, misled>>
  BY DEF RemoveMarks, powerVars
<1>3. irp[r].kind = "remove" /\ irp[r].kind \in PnpKinds /\ ~dev'.started
  BY <1>2, RemovalIsStopped DEF Removing
<1>4. PcOfKind([irp[r] EXCEPT !.pc = "drop"])
  BY <1>1, <1>2, OfPackets DEF Inv, Packet, PcOfKind, Removing
<1>5. PICK p \in Packet :
        /\ p.kind = irp[r].kind /\ p.to = irp[r].to /\ p.by = irp[r].by
        /\ p.pc = "drop" /\ Packets' /\ Moves(r, p) /\ Counting'
  BY <1>2, <1>4, GoesOn DEF Using, Holding
<1>6. Powering'
  BY <1>2, <1>3, <1>5, PnpPowers
<1>7. Configuring'
  BY <1>3, <1>5, StoppedKeeps
<1> QED
  BY <1>2, <1>5, <1>6, <1>7 DEF Inv

\* The removal gives up its own hold on the lock, then that of the device.
LEMMA RemoveDropsKeeps == ASSUME Inv, NEW r \in Irps, RemoveDrops(r) PROVE Inv'
<1> DEFINE pc == IF irp[r].pc = "drop" THEN "dropped" ELSE "wait"
<1>1. irp[r] \in Packet /\ Packets /\ Counting
  BY OfPackets DEF Inv
<1>2. /\ irp[r].pc \in {"drop", "dropped"} /\ Goto(r, pc) /\ remove_lock_release /\ late' = late
      /\ UNCHANGED <<dev, excused, stage, posted, reported, misled>>
  BY DEF RemoveDrops, Release, powerVars
<1>3. irp[r].kind = "remove" /\ irp[r].kind \in PnpKinds /\ ~dev'.started
  BY <1>2, RemovalIsStopped DEF Removing
<1>4. pc \in Pcs /\ pc \in {"dropped", "wait"}
      /\ (pc = "dropped" <=> irp[r].pc = "drop")
  BY <1>2 DEF Pcs
<1> HIDE DEF pc
<1>5. PcOfKind([irp[r] EXCEPT !.pc = pc])
  BY <1>1, <1>2, <1>3, <1>4, OfPackets DEF Packet, PcOfKind, Removing
<1>6. PICK p \in Packet :
        /\ p.kind = irp[r].kind /\ p.to = irp[r].to /\ p.by = irp[r].by
        /\ p.pc = pc /\ Packets' /\ Moves(r, p)
  BY <1>1, <1>2, <1>4, <1>5, Goes
<1>7. Own = 1
  <2>1. stage # "absent" /\ \A q \in Irps \ {r} : irp[q].pc \notin Removing
    BY <1>3, PnpIsAlone
  <2> QED
    BY <1>2, <2>1 DEF Own, Removing
<1>8. pending
  BY <1>1, <1>2 DEF Counting
<1>9. Counting'
  <2>1. irp[r].pc \notin {"idle", "wait"} /\ p.pc \notin Using /\ p.kind \in {irp[r].kind, "none"}
    BY <1>2, <1>4, <1>6 DEF Using, Holding
  <2>2. \/ irp[r].pc \in Using /\ p.pc # "wait" /\ late' = late
        \/ irp[r].pc = "failed" /\ p.pc # "wait" /\ late' = late + 1
        \/ irp[r].pc = "dropped" /\ p.pc = "wait" /\ late' = late /\ Own = 1
    BY <1>2, <1>4, <1>6, <1>7 DEF Using
  <2>3. stage' = "absent" <=> stage = "absent"
    BY <1>2
  <2> QED
    BY <1>1, <1>2, <1>6, <1>8, <2>1, <2>2, <2>3, LockReleases
<1>10. Powering'
  BY <1>2, <1>3, <1>6, PnpPowers
<1>11. Configuring'
  BY <1>3, <1>4, <1>6, StoppedKeeps
<1> QED
  BY <1>2, <1>6, <1>9, <1>10, <1>11 DEF Inv

LEMMA RemoveDeletesKeeps == ASSUME Inv, NEW r \in Irps, RemoveDeletes(r) PROVE Inv'
<1>1. /\ irp[r].pc = "wait" /\ event /\ Complete(r) /\ dev' = [dev EXCEPT !.configured = FALSE]
      /\ stage' = "absent" /\ UNCHANGED <<usage, pending, event, late, posted, reported, misled>>
  BY DEF RemoveDeletes, lockVars, powerVars
<1>2. irp[r].kind = "remove" /\ irp[r].kind \in PnpKinds /\ ~dev.started
  BY <1>1, RemovalIsStopped DEF Removing
<1>3. Packets' /\ Moves(r, Idle)
  BY <1>1, <1>2, Completes DEF Inv
<1>4. dev' \in DevType /\ dev'.device = dev.device /\ ~dev'.started
  BY <1>1, <1>2 DEF DevType, Inv
<1>5. Counting'
  <2>1. Counting /\ Own = 0 /\ Own' = 0
    BY <1>1 DEF Inv, Own
  <2>2. /\ Cardinality(Users') = Cardinality(Users)
        /\ Holders' \subseteq Holders /\ Cardinality(Holders') <= Cardinality(Holders)
    BY <1>1, <1>3, MovesCount, IdleIsPacket DEF Using, Holding
  <2>3. Cardinality(Holders) \in Nat /\ Cardinality(Holders') \in Nat
    BY <2>2, UsersAreFinite, FS_Subset, FS_CardinalityType
  <2>4. usage' = Own' + Cardinality(Users)' - late'
    BY <1>1, <2>1, <2>2 DEF Counting
  <2>5. event' /\ pending' /\ Cardinality(Holders)' <= late'
    BY <1>1, <2>1, <2>2, <2>3 DEF Counting
  <2>6. \A q \in Irps : irp'[q].kind \notin PnpKinds
    <3>1. \A q \in Irps \ {r} : irp[q].kind \notin PnpKinds
      BY <1>2, PnpIsAlone
    <3> QED
      BY <1>3, <3>1, IdleIsPacket DEF Moves, PnpKinds
  <2> QED
    BY <1>1, <2>1, <2>4, <2>5, <2>6 DEF Counting
<1>6. Powering'
  BY <1>1 DEF Powering
<1>7. Configuring'
  BY <1>2, <1>3, <1>4, StoppedKeeps, IdleIsPacket
<1> QED
  BY <1>1, <1>3, <1>4, <1>5, <1>6, <1>7 DEF Inv, Stages

LEMMA PnpStepKeeps == ASSUME Inv, NEW r \in Irps, Pnp(r) PROVE Inv'
<1>1. CASE CapabilitiesPassDown(r) \/ on_query_capabilities_complete(r)
  BY <1>1, CapabilitiesKeep
<1>2. CASE StartPassesDown(r) \/ StartConfigures(r) \/ StartConfigFails(r)
             \/ StartFinishes(r)
  BY <1>2, StartPassesDownKeeps, StartConfiguresKeeps, StartFinishesKeeps
<1>3. CASE Stop(r) \/ SurpriseStops(r) \/ SurpriseFinishes(r)
  BY <1>3, StopKeeps, SurpriseStopsKeeps, SurpriseFinishesKeeps
<1>4. CASE RemoveStops(r) \/ RemoveMarks(r) \/ RemoveDrops(r) \/ RemoveDeletes(r)
  BY <1>4, RemoveStopsKeeps, RemoveMarksKeeps, RemoveDropsKeeps, RemoveDeletesKeeps
<1> QED
  BY <1>1, <1>2, <1>3, <1>4 DEF Pnp

(***************************************************************************)
(* Power.                                                                  *)
(***************************************************************************)
LEMMA SetPowerPassesDownKeeps ==
    ASSUME Inv, NEW r \in Irps, SetPowerPassesDown(r)
    PROVE  Inv'
<1>1. irp[r] \in Packet /\ dev \in DevType /\ pending \in BOOLEAN
  BY OfPackets DEF Inv, Counting
<1>2. /\ irp[r].kind \in PowerKinds /\ irp[r].pc = "in" /\ Goto(r, "below")
      /\ reported' = IF irp[r].kind = "device" /\ irp[r].to > dev.device
                     THEN irp[r].to ELSE reported
      /\ UNCHANGED <<dev, excused, stage, usage, pending, event, late, posted, misled>>
  BY DEF SetPowerPassesDown, lockVars
<1>3. PcOfKind([irp[r] EXCEPT !.pc = "below"])
  BY <1>1, <1>2, OfPackets DEF Inv, Packet, PcOfKind, Removing
<1>4. PICK p \in Packet :
        /\ p.kind = irp[r].kind /\ p.to = irp[r].to /\ p.by = irp[r].by
        /\ p.pc = "below" /\ Packets' /\ Moves(r, p) /\ Counting'
  BY <1>1, <1>2, <1>3, GoesOn DEF Using, Holding
<1>5. reported' \in Int
  BY <1>1, <1>2 DEF Inv, Packet
<1>6. Configuring'
  BY <1>2, <1>4, ConfigKeeps DEF Inv, Removing
<1>7. CASE irp[r].kind = "device"
  <2>1. \A q \in Irps \ {r} : irp[q].kind # "device"
    BY <1>7 DEF Inv, Packets, Exclude
  <2>2. \A q \in Irps : ~AtDevice(q)
    BY <1>2, <2>1 DEF AtDevice
  <2>3. stage # "absent" => /\ reported >= dev.device
                            /\ ~misled => reported = dev.device
    BY <2>2 DEF Inv, Powering
  <2>4. p.to \in Int /\ dev.device \in Int /\ reported \in Int
    BY <1>1 DEF Inv, Packet, DevType
  <2>5. irp'[r] = p /\ \A q \in Irps \ {r} : irp'[q].kind # "device"
    BY <1>4, <2>1, IdleIsPacket DEF Moves
  <2>6. \A q \in Irps : AtDevice(q)' <=> q = r
    BY <1>4, <1>7, <2>5 DEF AtDevice
  <2>7. /\ reported' = IF p.to > dev.device THEN p.to ELSE reported
        /\ dev' = dev /\ stage' = stage
        /\ irp'[r].to = p.to
    BY <1>2, <1>4, <1>7, <2>5
  <2>8. misled' = misled
    BY <1>2
  <2>9. stage' # "absent" =>
          /\ reported' >= dev'.device
          /\ irp'[r].to > dev'.device => reported' = irp'[r].to
          /\ ~misled /\ irp'[r].to <= dev'.device => reported' = dev'.device
    <3> SUFFICES ASSUME stage' # "absent"
                 PROVE  /\ reported' >= dev'.device
                        /\ irp'[r].to > dev'.device => reported' = irp'[r].to
                        /\ ~misled /\ irp'[r].to <= dev'.device => reported' = dev'.device
      OBVIOUS
    <3>1. reported >= dev.device /\ (~misled => reported = dev.device)
      <4>1. stage # "absent"
        BY <2>7
      <4> QED
        BY <2>3, <4>1
    <3>2. /\ reported' >= dev'.device
          /\ irp'[r].to > dev'.device => reported' = irp'[r].to
          /\ irp'[r].to <= dev'.device => reported' = reported /\ dev' = dev
      <4>1. reported >= dev.device
        BY <3>1
      <4> QED
        BY <2>4, <2>7, <4>1
    <3> QED
      BY <3>1, <3>2
  <2>10. Powering'
    BY <2>6, <2>8, <2>9 DEF Powering
  <2> QED
    BY <1>2, <1>4, <1>5, <1>6, <2>10 DEF Inv
<1>8. CASE irp[r].kind # "device"
  <2>1. reported' = reported /\ ~AtDevice(r)
    BY <1>2, <1>8 DEF AtDevice
  <2>2. Powering'
    BY <1>2, <1>4, <1>8, <2>1, PowerKeeps DEF Inv
  <2> QED
    BY <1>2, <1>4, <1>5, <1>6, <2>2 DEF Inv
<1> QED
  BY <1>7, <1>8

\* The request that was at the device comes back.
LEMMA DevicePowerKeeps ==
    ASSUME Inv, NEW r \in Irps, irp[r].kind = "device", DevicePowerIsSet(r) \/ PowerFails(r)
    PROVE  Inv'
<1>1. /\ irp[r].pc = "below" /\ Release /\ Complete(r) /\ UNCHANGED <<excused, stage, posted>>
  BY DEF DevicePowerIsSet, PowerFails
<1>2. irp[r] \in Packet /\ dev \in DevType /\ reported \in Int
      /\ irp[r].to \in Int /\ dev.device \in Int
  BY OfPackets DEF Inv, Packet, DevType
<1>3. Packets' /\ Moves(r, Idle) /\ Counting'
  BY <1>1, ReleaseCompletes DEF Holding
<1>4. stage # "absent" =>
        /\ reported >= dev.device
        /\ irp[r].to > dev.device => reported = irp[r].to
        /\ ~misled /\ irp[r].to <= dev.device => reported = dev.device
  BY <1>1 DEF Inv, Powering, AtDevice
<1>5. \A q \in Irps : irp'[q].kind # "device"
  <2>1. \A q \in Irps \ {r} : irp[q].kind # "device"
    BY DEF Inv, Packets, Exclude
  <2> QED
    BY <1>3, <2>1, IdleIsPacket DEF Moves
<1>6. /\ dev' \in DevType /\ dev'.started = dev.started /\ dev'.configured = dev.configured
      /\ dev'.filter = dev.filter /\ dev'.initial = dev.initial /\ reported' \in Int
      /\ stage # "absent" => /\ reported' >= dev'.device
                             /\ ~misled' => reported' = dev'.device
  <2>1. CASE DevicePowerIsSet(r)
    <3>1. /\ dev' = [dev EXCEPT !.device = irp[r].to]
          /\ reported' = IF irp[r].to <= dev.device THEN irp[r].to ELSE reported
      BY <2>1 DEF DevicePowerIsSet
    <3>2. /\ dev' \in DevType /\ dev'.started = dev.started
          /\ dev'.configured = dev.configured /\ dev'.filter = dev.filter
          /\ dev'.initial = dev.initial /\ dev'.device = irp[r].to
      BY <1>2, <3>1 DEF DevType
    <3> QED
      BY <1>2, <1>4, <3>1, <3>2
  <2>2. CASE PowerFails(r)
    <3>1. UNCHANGED <<dev, reported>>
      BY <2>2 DEF PowerFails
    <3>2. misled' = (misled \/ (irp[r].kind = "device" /\ irp[r].to > dev.device))
      BY <2>2 DEF PowerFails
    <3>3. ~misled' => ~misled /\ ~(irp[r].to > dev.device)
      BY <3>2, ZenonT(20)
    <3>4. stage # "absent" => /\ reported' >= dev'.device
                              /\ ~misled' => reported' = dev'.device
      BY <1>2, <1>4, <3>1, <3>3
    <3> QED
      BY <1>2, <3>1, <3>4
  <2> QED
    BY <2>1, <2>2
<1>7. Powering'
  BY <1>1, <1>5, <1>6 DEF Powering, AtDevice
<1>8. Configuring'
  BY <1>1, <1>3, <1>6, ConfigKeeps, IdleIsPacket DEF Inv, Removing
<1> QED
  BY <1>1, <1>3, <1>6, <1>7, <1>8 DEF Inv

\* A request of the system fails.
LEMMA SystemPowerFailsKeeps ==
    ASSUME Inv, NEW r \in Irps, irp[r].kind # "device", PowerFails(r)
    PROVE  Inv'
<1>1. /\ irp[r].pc = "below" /\ Release /\ Complete(r)
      /\ UNCHANGED <<dev, excused, stage, posted, reported>>
      /\ misled' = (misled \/ (irp[r].kind = "device" /\ irp[r].to > dev.device))
  BY DEF PowerFails
<1>2. Packets' /\ Moves(r, Idle) /\ Counting'
  BY <1>1, ReleaseCompletes DEF Holding
<1>3. ~AtDevice(r)
  BY DEF AtDevice
<1>4. \A q \in Irps : /\ AtDevice(q)' <=> AtDevice(q)
                      /\ AtDevice(q) => irp'[q].to = irp[q].to
  <2> TAKE q \in Irps
  <2>1. CASE q = r
    BY <1>2, <1>3, <2>1, IdleIsPacket DEF Moves, AtDevice
  <2>2. CASE q # r
    BY <1>2, <2>2, IdleIsPacket DEF Moves, AtDevice
  <2> QED
    BY <2>1, <2>2
<1>5. misled' => misled
  BY <1>1
<1>6. misled => misled'
  BY <1>1
<1>7. Powering'
  BY <1>1, <1>4, <1>5, <1>6 DEF Inv, Powering
<1>8. Configuring'
  BY <1>1, <1>2, ConfigKeeps, IdleIsPacket DEF Inv, Removing
<1> QED
  BY <1>1, <1>2, <1>7, <1>8 DEF Inv

LEMMA SystemPowerIsSetKeeps == ASSUME Inv, NEW r \in Irps, SystemPowerIsSet(r) PROVE Inv'
<1>1. /\ irp[r].kind = "system" /\ irp[r].pc = "below" /\ Release /\ Complete(r)
      /\ dev' = [dev EXCEPT !.system = irp[r].to]
      /\ UNCHANGED <<excused, stage, reported, misled>>
  BY DEF SystemPowerIsSet
<1>2. irp[r] \in Packet /\ PcOfKind(irp[r]) /\ Packets /\ Counting /\ dev \in DevType
  BY OfPackets DEF Inv
<1>3. /\ dev' \in DevType /\ dev'.device = dev.device /\ dev'.started = dev.started
      /\ dev'.configured = dev.configured /\ dev'.filter = dev.filter
      /\ dev'.initial = dev.initial
  BY <1>1, <1>2 DEF DevType, Packet
<1>4. Packets' /\ Moves(r, Idle)
  <2>1. CASE dev.filter \/ dev.disallow
    <3>1. UNCHANGED posted
      BY <2>1 DEF SystemPowerIsSet
    <3> QED
      BY <1>1, <1>2, <3>1, Completes
  <2>2. CASE ~(dev.filter \/ dev.disallow)
    <3>1. PICK to : to = DevicePowerState(irp[r].to)
      OBVIOUS
    <3>2. posted' = Append(posted, [to |-> to, by |-> NoIrp])
      BY <2>2, <3>1 DEF SystemPowerIsSet
    <3>3. to \in Int
      BY <3>1 DEF DevicePowerState, Unspecified, D0, D3
    <3>4. irp[r].by = NoIrp
      BY <1>1, <1>2 DEF PcOfKind
    <3> QED
      BY <1>1, <1>2, <3>2, <3>3, <3>4, CompletesAndPosts
  <2> QED
    BY <2>1, <2>2
<1>5. Counting'
  <2>1. irp[r].pc \in Using /\ irp[r].pc \notin {"idle", "wait"} /\ Idle.pc \notin Using
    BY <1>1, IdleIsPacket DEF Using, Holding
  <2>2. remove_lock_release /\ late' = late
    BY <1>1 DEF Release
  <2> QED
    BY <1>1, <1>2, <1>4, <2>1, <2>2, LockReleases, IdleIsPacket
<1>6. Powering'
  BY <1>1, <1>2, <1>3, <1>4, PowerKeeps, IdleIsPacket DEF Inv, AtDevice
<1>7. Configuring'
  BY <1>1, <1>3, <1>4, ConfigKeeps, IdleIsPacket DEF Inv, Removing
<1> QED
  BY <1>1, <1>3, <1>4, <1>5, <1>6, <1>7 DEF Inv

LEMMA PostedPowerIsLostKeeps == ASSUME Inv, PostedPowerIsLost PROVE Inv'
<1>1. stage = "absent" /\ UNCHANGED <<dev, excused, stage, usage, pending, event, late, reported, misled>>
  BY DEF PostedPowerIsLost, lockVars
<1>2. Packets' /\ \A q \in Irps : irp'[q] = irp[q] \/ (irp[q].pc = "power" /\ irp'[q] = Idle)
  BY PostedPowerIsLostKeepsPackets DEF Inv
<1>3. \A q \in Irps : /\ irp'[q].pc \in Using <=> irp[q].pc \in Using
                      /\ irp'[q].pc \in Holding <=> irp[q].pc \in Holding
                      /\ irp'[q] = irp[q] \/ (irp'[q].pc = "idle" /\ irp'[q].kind = "none")
  BY <1>2, IdleIsPacket DEF Using, Holding
<1>4. Users' = Users /\ Holders' = Holders
  BY <1>3 DEF Users, Holders
<1>5. Own' = Own
  BY <1>1 DEF Own
<1>6. Counting'
  <2>1. Counting /\ usage = Own + Cardinality(Users) - late
    BY DEF Inv, Counting
  <2>2. usage' = Own' + Cardinality(Users)' - late'
    BY <1>1, <1>4, <1>5, <2>1
  <2>3. event' => pending' /\ Cardinality(Holders)' <= late'
    BY <1>1, <1>4, <2>1 DEF Counting
  <2> QED
    BY <1>1, <1>3, <2>1, <2>2, <2>3 DEF Counting, PnpKinds
<1>7. Powering'
  BY <1>1 DEF Powering
<1>8. Configuring'
  BY <1>1, <1>3 DEF Inv, Configuring, Fit, StartedIsConfigured, Removing
<1> QED
  BY <1>1, <1>2, <1>6, <1>7, <1>8 DEF Inv

(***************************************************************************)
(* The beginning, and every step.                                          *)
(***************************************************************************)
LEMMA NewDeviceIsTyped ==
    ASSUME NEW d \in Device
    PROVE  NewDevice(d) \in DevType /\ ~NewDevice(d).started /\ NewDevice(d).device = D0
<1>1. IsFilter(d) \in BOOLEAN /\ d.wdf \in BOOLEAN /\ d.key \in BOOLEAN
  BY DEF IsFilter, Device
<1> QED
  BY <1>1 DEF NewDevice, DevType, reg_get_properties, D0, Working

\* A device that has not been used.
LEMMA NewIsSound ==
    ASSUME \A r \in Irps : irp[r] = Idle, Packets, dev \in DevType, ~dev.started,
           reported = dev.device, reported \in Int, stage \in Stages,
           usage = IF stage = "absent" THEN 0 ELSE 1, late = 0,
           pending = FALSE, event = FALSE
    PROVE  Inv
<1>1. \A r \in Irps : irp[r].pc = "idle" /\ irp[r].kind = "none"
  BY IdleIsPacket
<1>2. Users = {} /\ Holders = {}
  BY <1>1 DEF Users, Holders, Using, Holding
<1>3. Cardinality(Users) = 0 /\ Own = IF stage = "absent" THEN 0 ELSE 1
  BY <1>1, <1>2, FS_EmptySet DEF Own
<1>4. Counting
  <2>1. ~event /\ ~pending /\ event \in BOOLEAN /\ pending \in BOOLEAN
    OBVIOUS
  <2>2. usage \in Int /\ late \in Nat /\ usage = Own + Cardinality(Users) - late
    BY <1>3
  <2> QED
    BY <1>1, <2>1, <2>2 DEF Counting, PnpKinds
<1>5. Powering
  <2>1. dev.device \in Int
    BY DEF DevType
  <2> QED
    BY <1>1, <2>1 DEF Powering, AtDevice
<1>6. Configuring
  BY <1>1 DEF Configuring, StartedIsConfigured, Removing
<1> QED
  BY <1>4, <1>5, <1>6 DEF Inv

LEMMA InitIsSound == Init => Inv
<1> SUFFICES ASSUME Init PROVE Inv
  OBVIOUS
<1>1. /\ \A r \in Irps : irp[r] = Idle
      /\ irp = [r \in Irps |-> Idle] /\ posted = <<>>
  BY DEF Init
<1>2. Packets
  <2>1. irp \in [Irps -> Packet] /\ posted \in Seq(PostedType) /\ DOMAIN posted = {}
    BY <1>1, IdleIsPacket
  <2>2. \A r \in Irps : PcOfKind(irp[r]) /\ irp[r].by = NoIrp
    BY <1>1, IdleIsPacket
  <2>3. \A r, s \in Irps : ~Exclude(irp[r], irp[s])
    BY <1>1, IdleIsPacket
  <2> QED
    BY <2>1, <2>2, <2>3 DEF Packets, References
<1>3. Nothing \in Device
  BY DEF Nothing, Device
<1>4. dev \in DevType /\ ~dev.started /\ dev.device = D0
  BY <1>3, NewDeviceIsTyped DEF Init
<1> QED
  <2>1. reported = D0 /\ reported \in Int
    BY DEF Init, D0
  <2>2. stage = "absent" /\ stage \in Stages
    BY DEF Init, Stages
  <2>3. usage = (IF stage = "absent" THEN 0 ELSE 1) /\ late = 0
    BY DEF Init
  <2>4. pending = FALSE /\ event = FALSE
    BY DEF Init
  <2> QED
    BY <1>1, <1>2, <1>4, <2>1, <2>2, <2>3, <2>4, NewIsSound

LEMMA AttachKeeps == ASSUME Inv, Attach PROVE Inv'
<1>1. PICK d \in Devices : AddDevice(d)
  BY DEF Attach
<1>2. d \in Device
  BY DevicesAssumption
<1>3. /\ dev' = NewDevice(d) /\ stage' = "added" /\ usage' = 1 /\ pending' = FALSE
      /\ event' = FALSE /\ reported' = D0 /\ late' = 0 /\ UNCHANGED <<irp, posted>>
      /\ \A r \in Irps : irp[r] = Idle
  BY <1>1 DEF AddDevice
<1>4. dev' \in DevType /\ ~dev'.started /\ dev'.device = D0
  BY <1>2, <1>3, NewDeviceIsTyped
<1>5. Packets'
  BY <1>3 DEF Inv, Packets, References
<1>6. \A r \in Irps : irp'[r].pc = "idle" /\ irp'[r].kind = "none"
  BY <1>3, IdleIsPacket
<1>7. Users' = {} /\ Holders' = {}
  BY <1>6 DEF Users, Holders, Using, Holding
<1>8. Cardinality(Users') = 0 /\ Own' = 1
  BY <1>3, <1>6, <1>7, FS_EmptySet DEF Own
<1>9. Counting'
  <2>1. ~event' /\ ~pending' /\ event' \in BOOLEAN /\ pending' \in BOOLEAN
    BY <1>3
  <2>2. usage' \in Int /\ late' \in Nat /\ usage' = Own' + Cardinality(Users)' - late'
    BY <1>3, <1>8
  <2> QED
    BY <1>3, <1>6, <2>1, <2>2 DEF Counting
<1>10. Powering'
  BY <1>3, <1>4, <1>6 DEF Powering, AtDevice, D0
<1>11. Configuring'
  BY <1>4, <1>6 DEF Configuring, StartedIsConfigured, Removing
<1> QED
  BY <1>3, <1>4, <1>5, <1>9, <1>10, <1>11 DEF Inv, Stages, D0

LEMMA NextKeeps == Inv /\ [Next]_vars => Inv'
<1> SUFFICES ASSUME Inv, [Next]_vars PROVE Inv'
  OBVIOUS
<1>1. CASE Attach
  BY <1>1, AttachKeeps
<1>2. CASE PostedPowerIsLost
  BY <1>2, PostedPowerIsLostKeeps
<1>3. ASSUME NEW r \in Irps, Arrival(r) \/ PostedPowerArrives(r) PROVE Inv'
  BY <1>3, ArrivalStepKeeps, PostedPowerArrivesKeeps
<1>4. ASSUME NEW r \in Irps, Lock(r) PROVE Inv'
  BY <1>4, LockStepKeeps
<1>5. ASSUME NEW r \in Irps, IoctlConfigures(r) \/ IoctlEnds(r) PROVE Inv'
  BY <1>5, IoctlConfiguresKeeps, IoctlEndsKeeps
<1>6. ASSUME NEW r \in Irps, Pnp(r) PROVE Inv'
  BY <1>6, PnpStepKeeps
<1>7. ASSUME NEW r \in Irps, Power(r) PROVE Inv'
  BY <1>7, SetPowerPassesDownKeeps, DevicePowerKeeps, SystemPowerFailsKeeps,
     SystemPowerIsSetKeeps DEF Power, DevicePowerIsSet
<1>8. CASE UNCHANGED vars
  BY <1>8 DEF vars, lockVars, powerVars, Inv, Packets, References, Counting, Own, Users,
     Holders, Powering, AtDevice, Configuring, Fit,
     StartedIsConfigured
<1> QED
  BY <1>1, <1>2, <1>3, <1>4, <1>5, <1>6, <1>7, <1>8 DEF Next

(***************************************************************************)
(* The theorems.                                                           *)
(***************************************************************************)
\* What the count protects: when the event has come, or the device is gone,
\* no more requests are in their handlers than ioctls have released too much.
LEMMA InvWaits == Inv => RemoveWaitsBarLate
<1> SUFFICES ASSUME Inv PROVE RemoveWaitsBarLate
  OBVIOUS
<1>1. CASE event
  BY <1>1 DEF Inv, Counting, RemoveWaitsBarLate
<1>2. CASE ~event /\ stage = "absent"
  <2>1. \A r \in Irps : irp[r].pc = "idle"
    BY <1>2 DEF Inv, Counting
  <2>2. Holders = {}
    BY <2>1 DEF Holders, Holding
  <2>3. Cardinality(Holders) = 0 /\ late \in Nat
    BY <2>2, FS_EmptySet DEF Inv, Counting
  <2> QED
    BY <2>3 DEF RemoveWaitsBarLate
<1> QED
  BY <1>1, <1>2 DEF RemoveWaitsBarLate

\* "wait until all outstanding requests are finished" (pnp.c): the device is
\* deleted below a request only where an ioctl has released a lock it did not
\* have.
THEOREM RemovalWaits == Spec => []RemoveWaitsBarLate
<1>1. Init => Inv
  BY InitIsSound
<1>2. Inv /\ [Next]_vars => Inv'
  BY NextKeeps
<1>3. Inv => RemoveWaitsBarLate
  BY InvWaits
<1> QED
  BY <1>1, <1>2, <1>3, PTL DEF Spec

\* The power manager never takes the device for one with more power than the
\* driver has saved, and knows that state unless a request that would change it
\* is at the lower driver or a power-down has failed since (power.c).
THEOREM PowerIsReported == Spec => []PowerReported
<1>1. Init => Inv
  BY InitIsSound
<1>2. Inv /\ [Next]_vars => Inv'
  BY NextKeeps
<1>3. Inv => PowerReported
  BY DEF Inv, Powering, PowerReported, AtDevice
<1> QED
  BY <1>1, <1>2, <1>3, PTL DEF Spec

\* Requests are let into a device the driver is not a filter of, and that asks
\* for a configuration, only while one is selected, unless selecting it has
\* failed or a program has taken it back (pnp.c, on_start_complete).
THEOREM StartedMeansConfigured == Spec => []StartedIsConfigured
<1>1. Init => Inv
  BY InitIsSound
<1>2. Inv /\ [Next]_vars => Inv'
  BY NextKeeps
<1>3. Inv => StartedIsConfigured
  BY DEF Inv, Configuring
<1> QED
  BY <1>1, <1>2, <1>3, PTL DEF Spec
=============================================================================
