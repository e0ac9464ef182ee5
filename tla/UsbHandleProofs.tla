------------------------- MODULE UsbHandleProofs -------------------------
(***************************************************************************)
(* Theorems about UsbHandle, for every set of programs, every device and   *)
(* every set of control messages.                                          *)
(***************************************************************************)
EXTENDS UsbHandle, TLAPS

(* TypeOK without the bounds that only keep the instances finite.          *)
HandleType ==
    [open : BOOLEAN, config : Nat, interface : Interfaces \cup {-1}, altsetting : Int]
DriverType ==
    [value : Nat, valid : SUBSET Interfaces, owner : [Interfaces -> Programs \cup {NoProgram}]]
ChipType == [config : Nat, alt : [Interfaces -> Nat]]

WellFormed ==
    /\ handle \in [Programs -> HandleType]
    /\ drv \in DriverType
    /\ chip \in ChipType
    /\ disturbed \subseteq Programs

(* A configured driver and its device agree; every claim, also one that    *)
(* the handle has forgotten, is of a program that has the device open.     *)
Agreement ==
    /\ drv.value # 0 => chip.config = drv.value
    /\ ClosedHoldsNothing

(* What HandleIsCurrent says of one handle.                                *)
Current(p) ==
    /\ handle[p].config = drv.value
    /\ handle[p].config # 0 => chip.config = handle[p].config
    /\ handle[p].interface >= 0 => drv.owner[handle[p].interface] = p

Inv == WellFormed /\ Agreement /\ HandleIsCurrent

LEMMA ConfigurationsAreNumbers ==
    /\ DOMAIN Configs \cup {0} \subseteq Nat
    /\ \A c \in DOMAIN Configs : DOMAIN Configs[c] \subseteq Interfaces
    /\ Interfaces \subseteq Nat
BY ConfigsAssumption DEF Interfaces

\* The handle of one program changes.
LEMMA HandleChanges ==
    ASSUME handle \in [Programs -> HandleType], NEW p \in Programs, NEW h \in HandleType,
           handle' = [handle EXCEPT ![p] = h]
    PROVE  /\ handle' \in [Programs -> HandleType]
           /\ \A q \in Programs : handle'[q] = IF q = p THEN h ELSE handle[q]
OBVIOUS

LEMMA HandleIsTyped ==
    ASSUME NEW c \in Nat, NEW n \in Interfaces \cup {-1}, NEW alt \in Int
    PROVE  /\ Handle(c, n, alt) \in HandleType
           /\ Handle(c, n, alt).open
           /\ Handle(c, n, alt).config = c
           /\ Handle(c, n, alt).interface = n
BY DEF Handle, HandleType

LEMMA ClosedIsTyped == Closed \in HandleType /\ ~Closed.open
BY DEF Closed, HandleType

LEMMA InitHolds == Init => Inv
<1> SUFFICES ASSUME Init PROVE Inv
  OBVIOUS
<1>1. PICK c \in DOMAIN Configs :
        /\ drv = [value |-> c, valid |-> DOMAIN Configs[c], owner |-> Unclaimed]
        /\ chip = [config |-> c, alt |-> ZeroSettings]
  BY DEF Init
<1>2. \A p \in Programs : handle[p] = Closed
  BY DEF Init
<1>3. WellFormed
  <2>1. drv \in DriverType /\ chip \in ChipType
    BY <1>1, ConfigurationsAreNumbers DEF DriverType, ChipType, Unclaimed, ZeroSettings
  <2>2. handle \in [Programs -> HandleType]
    BY ClosedIsTyped DEF Init
  <2> QED
    BY <2>1, <2>2 DEF Init, WellFormed
<1>4. Agreement
  BY <1>1 DEF Agreement, ClosedHoldsNothing, Unclaimed
<1>5. HandleIsCurrent
  BY <1>2, ClosedIsTyped DEF HandleIsCurrent
<1> QED
  BY <1>3, <1>4, <1>5 DEF Inv

-----------------------------------------------------------------------------
(* The requests of the driver.                                             *)

\* A configuration is selected: no claim survives it, unless nothing changes.
LEMMA Selection ==
    ASSUME WellFormed, Agreement, NEW c \in DOMAIN Configs \cup {0}, set_configuration(c)
    PROVE  /\ drv' \in DriverType /\ chip' \in ChipType
           /\ drv'.value = c
           /\ c # 0 => chip'.config = c
           /\ \/ drv' = drv /\ c = drv.value
              \/ drv'.owner = Unclaimed
<1>1. CASE c = drv.value /\ c > 0
  BY <1>1 DEF set_configuration, WellFormed, Agreement
<1>2. CASE ~(c = drv.value /\ c > 0)
  <2>1. /\ drv' = [value |-> c, valid |-> IF c = 0 THEN {} ELSE DOMAIN Configs[c],
                   owner |-> Unclaimed]
        /\ chip' = [config |-> c, alt |-> ZeroSettings]
    BY <1>2 DEF set_configuration
  <2>2. (IF c = 0 THEN {} ELSE DOMAIN Configs[c]) \in SUBSET Interfaces
    BY ConfigurationsAreNumbers
  <2> QED
    BY <2>1, <2>2, ConfigurationsAreNumbers DEF DriverType, ChipType, Unclaimed, ZeroSettings
<1> QED
  BY <1>1, <1>2

\* An interface gets another owner, or none.
LEMMA OwnerChanges ==
    ASSUME drv \in DriverType, NEW n \in Interfaces, NEW p \in Programs \cup {NoProgram},
           drv' = [drv EXCEPT !.owner[n] = p]
    PROVE  /\ drv' \in DriverType /\ drv'.value = drv.value
           /\ \A m \in Interfaces : drv'.owner[m] = IF m = n THEN p ELSE drv.owner[m]
BY DEF DriverType

-----------------------------------------------------------------------------
(* The calls of the library, one after the other.                          *)

LEMMA OpenKeepsInv ==
    ASSUME Inv, NEW p \in Programs, usb_open(p)
    PROVE  Inv'
<1>1. /\ handle' = [handle EXCEPT ![p] = Handle(drv.value, -1, -1)]
      /\ disturbed' = disturbed \ {p} /\ drv' = drv /\ chip' = chip
  BY DEF usb_open
<1>2. drv.value \in Nat
  BY DEF Inv, WellFormed, DriverType
<1>3. /\ handle' \in [Programs -> HandleType]
      /\ \A q \in Programs : handle'[q] = IF q = p THEN Handle(drv.value, -1, -1) ELSE handle[q]
  BY <1>1, <1>2, HandleIsTyped, HandleChanges DEF Inv, WellFormed
<1>4. WellFormed'
  BY <1>1, <1>3 DEF Inv, WellFormed
<1>5. \A q \in Programs : handle[q].open => handle'[q].open
  BY <1>3 DEF Handle
<1>6. Agreement'
  BY <1>1, <1>5 DEF Inv, WellFormed, DriverType, Agreement, ClosedHoldsNothing
<1>7. ASSUME NEW q \in Programs \ disturbed', handle'[q].open PROVE Current(q)'
  <2>1. CASE q = p
    BY <1>1, <1>2, <1>3, <2>1, HandleIsTyped DEF Inv, Agreement, Current
  <2>2. CASE q # p
    BY <1>1, <1>3, <1>7, <2>2 DEF Inv, HandleIsCurrent, Current
  <2> QED
    BY <2>1, <2>2
<1> QED
  BY <1>4, <1>6, <1>7 DEF Inv, HandleIsCurrent, Current

LEMMA CloseKeepsInv ==
    ASSUME Inv, NEW p \in Programs, usb_close(p)
    PROVE  Inv'
<1>1. /\ drv' = [drv EXCEPT !.owner = [n \in Interfaces |->
                     IF drv.owner[n] = p THEN NoProgram ELSE drv.owner[n]]]
      /\ handle' = [handle EXCEPT ![p] = Closed]
      /\ chip' = chip /\ disturbed' = disturbed
  BY DEF usb_close, release_all_interfaces
<1>2. /\ \A n \in Interfaces :
           drv'.owner[n] = IF drv.owner[n] = p THEN NoProgram ELSE drv.owner[n]
      /\ drv'.value = drv.value /\ drv' \in DriverType
  BY <1>1 DEF Inv, WellFormed, DriverType
<1>3. /\ handle' \in [Programs -> HandleType]
      /\ \A q \in Programs : handle'[q] = IF q = p THEN Closed ELSE handle[q]
  BY <1>1, ClosedIsTyped, HandleChanges DEF Inv, WellFormed
<1>4. WellFormed'
  BY <1>1, <1>2, <1>3 DEF Inv, WellFormed
<1>5. Agreement'
  BY <1>1, <1>2, <1>3, ProgramsAssumption
     DEF Inv, WellFormed, DriverType, Agreement, ClosedHoldsNothing
<1>6. ASSUME NEW q \in Programs \ disturbed, handle'[q].open PROVE Current(q)'
  <2>1. q # p /\ handle'[q] = handle[q]
    BY <1>3, <1>6, ClosedIsTyped
  <2>2. handle[q].interface >= 0 => handle[q].interface \in Interfaces
    BY DEF Inv, WellFormed, HandleType
  <2> QED
    BY <1>1, <1>2, <1>6, <2>1, <2>2 DEF Inv, HandleIsCurrent, Current
<1> QED
  BY <1>1, <1>4, <1>5, <1>6 DEF Inv, HandleIsCurrent, Current

\* A selection by a program or by a control message: those who do not know of
\* it are disturbed, or it has changed nothing.
LEMMA SelectionKeepsCurrent ==
    ASSUME Inv, NEW c \in DOMAIN Configs \cup {0}, set_configuration(c),
           NEW q \in Programs \ disturbed, handle[q].open, drv' = drv, handle'[q] = handle[q]
    PROVE  Current(q)'
<1>1. handle[q].config = drv.value /\ c = drv.value
  BY Selection DEF Inv, HandleIsCurrent
<1>2. handle[q].config # 0 => chip'.config = handle[q].config
  BY <1>1, Selection DEF Inv
<1> QED
  BY <1>1, <1>2 DEF Inv, HandleIsCurrent, Current

\* Claims that are all given up are of open files, and so are unchanged ones.
LEMMA SelectionKeepsAgreement ==
    ASSUME Inv, NEW c \in DOMAIN Configs \cup {0}, set_configuration(c),
           \A q \in Programs : handle[q].open => handle'[q].open
    PROVE  Agreement'
<1>1. drv'.value # 0 => chip'.config = drv'.value
  BY Selection DEF Inv
<1>2. CASE drv' = drv
  BY <1>1, <1>2 DEF Inv, WellFormed, DriverType, Agreement, ClosedHoldsNothing
<1>3. CASE drv'.owner = Unclaimed
  BY <1>1, <1>3 DEF Agreement, ClosedHoldsNothing, Unclaimed
<1> QED
  BY <1>2, <1>3, Selection DEF Inv

LEMMA SetConfigurationKeepsInv ==
    ASSUME Inv, NEW p \in Programs, NEW c \in DOMAIN Configs \cup {0},
           usb_set_configuration(p, c)
    PROVE  Inv'
<1>1. /\ handle[p].config # c /\ set_configuration(c)
      /\ handle' = [handle EXCEPT ![p] = Handle(c, -1, -1)]
      /\ disturbed' = IF drv' = drv THEN disturbed ELSE disturbed \cup (Programs \ {p})
  BY DEF usb_set_configuration
<1>2. c \in Nat
  BY ConfigurationsAreNumbers
<1>3. /\ handle' \in [Programs -> HandleType]
      /\ \A q \in Programs : handle'[q] = IF q = p THEN Handle(c, -1, -1) ELSE handle[q]
  BY <1>1, <1>2, HandleIsTyped, HandleChanges DEF Inv, WellFormed
<1>4. WellFormed'
  BY <1>1, <1>3, Selection DEF Inv, WellFormed
<1>5. Agreement'
  BY <1>1, <1>2, <1>3, HandleIsTyped, SelectionKeepsAgreement
<1>6. ASSUME NEW q \in Programs \ disturbed', handle'[q].open PROVE Current(q)'
  <2>1. CASE q = p
    BY <1>1, <1>2, <1>3, <2>1, HandleIsTyped, Selection DEF Inv, Current
  <2>2. CASE q # p
    <3>1. drv' = drv /\ disturbed' = disturbed
      BY <1>1, <1>6, <2>2
    <3> QED
      BY <1>1, <1>3, <1>6, <2>2, <3>1, SelectionKeepsCurrent
  <2> QED
    BY <2>1, <2>2
<1> QED
  BY <1>4, <1>5, <1>6 DEF Inv, HandleIsCurrent, Current

LEMMA ControlSetConfigurationKeepsInv ==
    ASSUME Inv, NEW p \in Programs, NEW c \in DOMAIN Configs \cup {0},
           ControlSetConfiguration(p, c)
    PROVE  Inv'
<1>1. /\ set_configuration(c) /\ handle' = handle
      /\ disturbed' = IF drv' = drv THEN disturbed ELSE Programs
  BY DEF ControlSetConfiguration
<1>2. WellFormed'
  BY <1>1, Selection DEF Inv, WellFormed
<1>3. Agreement'
  BY <1>1, SelectionKeepsAgreement
<1>4. ASSUME NEW q \in Programs \ disturbed', handle'[q].open PROVE Current(q)'
  BY <1>1, <1>4, SelectionKeepsCurrent
<1> QED
  BY <1>2, <1>3, <1>4 DEF Inv, HandleIsCurrent, Current

LEMMA ClaimKeepsInv ==
    ASSUME Inv, NEW p \in Programs, NEW n \in Interfaces, usb_claim_interface(p, n)
    PROVE  Inv'
<1>1. /\ handle[p].open /\ drv.owner[n] \in {p, NoProgram}
      /\ drv' = [drv EXCEPT !.owner[n] = p]
      /\ handle' = [handle EXCEPT ![p] = Handle(handle[p].config, n, 0)]
      /\ chip' = chip /\ disturbed' = disturbed
  BY DEF usb_claim_interface, claim_interface
<1>2. handle[p].config \in Nat
  BY DEF Inv, WellFormed, HandleType
<1>3. /\ handle' \in [Programs -> HandleType]
      /\ \A q \in Programs :
           handle'[q] = IF q = p THEN Handle(handle[p].config, n, 0) ELSE handle[q]
  BY <1>1, <1>2, HandleIsTyped, HandleChanges DEF Inv, WellFormed
<1>4. /\ drv' \in DriverType /\ drv'.value = drv.value
      /\ \A m \in Interfaces : drv'.owner[m] = IF m = n THEN p ELSE drv.owner[m]
  BY <1>1, OwnerChanges DEF Inv, WellFormed
<1>5. WellFormed'
  BY <1>1, <1>3, <1>4 DEF Inv, WellFormed
<1>6. Agreement'
  <2>1. \A q \in Programs : handle[q].open => handle'[q].open
    BY <1>2, <1>3, HandleIsTyped
  <2> QED
    BY <1>1, <1>4, <2>1
       DEF Inv, WellFormed, DriverType, Agreement, ClosedHoldsNothing
<1>7. ASSUME NEW q \in Programs \ disturbed, handle'[q].open PROVE Current(q)'
  <2>1. CASE q = p
    BY <1>1, <1>2, <1>3, <1>4, <1>7, <2>1, HandleIsTyped DEF Inv, HandleIsCurrent, Current
  <2>2. CASE q # p
    <3>1. handle'[q] = handle[q]
      BY <1>3, <2>2
    <3>2. handle[q].interface >= 0 => handle[q].interface \in Interfaces \ {n}
      BY <1>1, <1>7, <2>2, <3>1, ProgramsAssumption
         DEF Inv, WellFormed, HandleType, HandleIsCurrent
    <3> QED
      BY <1>1, <1>4, <1>7, <2>2, <3>1, <3>2 DEF Inv, HandleIsCurrent, Current
  <2> QED
    BY <2>1, <2>2
<1> QED
  BY <1>1, <1>5, <1>6, <1>7 DEF Inv, HandleIsCurrent, Current

LEMMA ReleaseKeepsInv ==
    ASSUME Inv, NEW p \in Programs, NEW n \in Interfaces, usb_release_interface(p, n)
    PROVE  Inv'
<1>1. /\ handle[p].open /\ drv.owner[n] = p
      /\ drv' = [drv EXCEPT !.owner[n] = NoProgram]
      /\ handle' = [handle EXCEPT ![p] = Handle(handle[p].config, -1, -1)]
      /\ chip' = chip /\ disturbed' = disturbed
  BY DEF usb_release_interface, release_interface
<1>2. handle[p].config \in Nat
  BY DEF Inv, WellFormed, HandleType
<1>3. /\ handle' \in [Programs -> HandleType]
      /\ \A q \in Programs :
           handle'[q] = IF q = p THEN Handle(handle[p].config, -1, -1) ELSE handle[q]
  BY <1>1, <1>2, HandleIsTyped, HandleChanges DEF Inv, WellFormed
<1>4. /\ drv' \in DriverType /\ drv'.value = drv.value
      /\ \A m \in Interfaces : drv'.owner[m] = IF m = n THEN NoProgram ELSE drv.owner[m]
  BY <1>1, OwnerChanges DEF Inv, WellFormed
<1>5. WellFormed'
  BY <1>1, <1>3, <1>4 DEF Inv, WellFormed
<1>6. Agreement'
  <2>1. \A q \in Programs : handle[q].open => handle'[q].open
    BY <1>3 DEF Handle
  <2> QED
    <3>1. ClosedHoldsNothing'
      <4> SUFFICES ASSUME NEW m \in Interfaces, drv'.owner[m] # NoProgram
                   PROVE  handle'[drv'.owner[m]].open
        BY DEF ClosedHoldsNothing
      <4>1. drv'.owner[m] = drv.owner[m] /\ drv.owner[m] \in Programs
        BY <1>4 DEF Inv, WellFormed, DriverType
      <4> QED
        BY <2>1, <4>1 DEF Inv, Agreement, ClosedHoldsNothing
    <3> QED
      BY <1>1, <1>4, <3>1 DEF Inv, Agreement
<1>7. ASSUME NEW q \in Programs \ disturbed, handle'[q].open PROVE Current(q)'
  <2>1. CASE q = p
    BY <1>1, <1>2, <1>3, <1>4, <1>7, <2>1, HandleIsTyped DEF Inv, HandleIsCurrent, Current
  <2>2. CASE q # p
    <3>1. handle'[q] = handle[q]
      BY <1>3, <2>2
    <3>2. handle[q].interface >= 0 => handle[q].interface \in Interfaces \ {n}
      BY <1>1, <1>7, <2>2, <3>1 DEF Inv, WellFormed, HandleType, HandleIsCurrent
    <3> QED
      BY <1>1, <1>4, <1>7, <2>2, <3>1, <3>2 DEF Inv, HandleIsCurrent, Current
  <2> QED
    BY <2>1, <2>2
<1> QED
  BY <1>1, <1>5, <1>6, <1>7 DEF Inv, HandleIsCurrent, Current

\* Alternate settings concern neither configurations nor claims.
LEMMA ChipSetting ==
    ASSUME chip \in ChipType, NEW n \in Interfaces, NEW alt \in 0 .. 1,
           chip' = [chip EXCEPT !.alt[n] = alt]
    PROVE  chip' \in ChipType /\ chip'.config = chip.config
BY DEF ChipType

LEMMA ControlSetInterfaceKeepsInv ==
    ASSUME Inv, NEW p \in Programs, NEW n \in Interfaces, NEW alt \in 0 .. 1,
           ControlSetInterface(p, n, alt)
    PROVE  Inv'
<1>1. /\ chip' = [chip EXCEPT !.alt[n] = alt]
      /\ handle' = handle /\ drv' = drv /\ disturbed' = disturbed
  BY DEF ControlSetInterface, set_interface
<1>2. chip' \in ChipType /\ chip'.config = chip.config
  BY <1>1, ChipSetting DEF Inv, WellFormed
<1> QED
  BY <1>1, <1>2 DEF Inv, WellFormed, Agreement, ClosedHoldsNothing, HandleIsCurrent

LEMMA SetAltinterfaceKeepsInv ==
    ASSUME Inv, NEW p \in Programs, NEW alt \in 0 .. 1, usb_set_altinterface(p, alt)
    PROVE  Inv'
<1> DEFINE h == Handle(handle[p].config, handle[p].interface, alt)
<1>1. /\ handle[p].open /\ handle[p].interface >= 0
      /\ chip' = [chip EXCEPT !.alt[handle[p].interface] = alt]
      /\ handle' = [handle EXCEPT ![p] = h]
      /\ drv' = drv /\ disturbed' = disturbed
  BY DEF usb_set_altinterface, set_interface
<1>2. handle[p].config \in Nat /\ handle[p].interface \in Interfaces
  BY <1>1 DEF Inv, WellFormed, HandleType
<1>3. chip' \in ChipType /\ chip'.config = chip.config
  BY <1>1, <1>2, ChipSetting DEF Inv, WellFormed
<1>4. /\ h \in HandleType /\ h.open
      /\ h.config = handle[p].config /\ h.interface = handle[p].interface
  BY <1>2, HandleIsTyped
<1>5. /\ handle' \in [Programs -> HandleType]
      /\ \A q \in Programs : handle'[q] = IF q = p THEN h ELSE handle[q]
  BY <1>1, <1>4, HandleChanges DEF Inv, WellFormed
<1> HIDE DEF h
<1>6. \A q \in Programs : /\ handle'[q].open = handle[q].open
                         /\ handle'[q].config = handle[q].config
                         /\ handle'[q].interface = handle[q].interface
  BY <1>1, <1>4, <1>5
<1>7. WellFormed' /\ Agreement'
  BY <1>1, <1>3, <1>5, <1>6 DEF Inv, WellFormed, DriverType, Agreement, ClosedHoldsNothing
<1>8. HandleIsCurrent'
  BY <1>1, <1>3, <1>6 DEF Inv, HandleIsCurrent
<1> QED
  BY <1>7, <1>8 DEF Inv

LEMMA ResetKeepsInv ==
    ASSUME Inv, NEW p \in Programs, usb_reset(p)
    PROVE  Inv'
<1>1. /\ drv' = [drv EXCEPT !.value = 0] /\ chip' = [chip EXCEPT !.alt = ZeroSettings]
      /\ disturbed' = Programs /\ handle' = handle
  BY DEF usb_reset, reset_device
<1>2. drv' \in DriverType /\ chip' \in ChipType /\ drv'.value = 0 /\ drv'.owner = drv.owner
  BY <1>1 DEF Inv, WellFormed, DriverType, ChipType, ZeroSettings
<1> QED
  BY <1>1, <1>2 DEF Inv, WellFormed, Agreement, ClosedHoldsNothing, HandleIsCurrent

LEMMA StepKeepsInv == Inv /\ [Next]_vars => Inv'
<1> SUFFICES ASSUME Inv, [Next]_vars PROVE Inv'
  OBVIOUS
<1>1. CASE UNCHANGED vars
  BY <1>1 DEF vars, Inv, WellFormed, Agreement, ClosedHoldsNothing, HandleIsCurrent
<1>2. CASE Next
  BY <1>2, OpenKeepsInv, CloseKeepsInv, ResetKeepsInv, SetConfigurationKeepsInv,
     ControlSetConfigurationKeepsInv, ClaimKeepsInv, ReleaseKeepsInv,
     ControlSetInterfaceKeepsInv, SetAltinterfaceKeepsInv DEF Next
<1> QED
  BY <1>1, <1>2

(***************************************************************************)
(* Whatever the programs do in whatever order, through the handle or past  *)
(* it with control messages: a handle that nobody has disturbed names the  *)
(* configuration the driver and the device are in, and owns the interface  *)
(* it believes it has claimed (usb_set_configuration, usb_claim_interface, *)
(* usb_release_interface in windows.c).                                    *)
(***************************************************************************)
THEOREM HandlesAreCurrent == Spec => []HandleIsCurrent
<1>1. Inv => HandleIsCurrent
  BY DEF Inv
<1> QED
  BY <1>1, InitHolds, StepKeepsInv, PTL DEF Spec

(***************************************************************************)
(* No interface stays claimed for a program that has closed the device:    *)
(* the driver gives back all that a file had claimed, not only the last    *)
(* interface, which is all the handle remembers (release_all_interfaces).  *)
(***************************************************************************)
THEOREM ClosedHandlesHoldNothing == Spec => []ClosedHoldsNothing
<1>1. Inv => ClosedHoldsNothing
  BY DEF Inv, Agreement
<1> QED
  BY <1>1, InitHolds, StepKeepsInv, PTL DEF Spec

(***************************************************************************)
(* Control messages.                                                       *)
(***************************************************************************)
\* The two halves of the value of a message make the whole again.
LEMMA HalvesMakeWhole ==
    ASSUME NEW v \in Nat
    PROVE  UCHAR(v \div 256) * 256 + UCHAR(v) = USHORT(v)
BY DEF UCHAR, USHORT

LEMMA NothingToLose == USHORT(0) = 0
BY DEF USHORT

\* What dispatch_ioctl has let pass fits into the buffers of the message.
LEMMA IoctlFits ==
    ASSUME NEW m \in Messages, IsMeaningful(m), IsSupported(m),
           dispatch_ioctl(usb_control_msg(m))
    PROVE  LET r == usb_control_msg(m) IN
           /\ r.code \in {"GET_CONFIGURATION", "GET_INTERFACE"} => 1 <= m.length
           /\ r.code = "GET_STATUS" => 2 <= m.length
           /\ m.in => r.outLength = m.length
           /\ ~m.in => PayloadSize(r) = m.length
<1> DEFINE r == usb_control_msg(m)
<1>1. /\ m.in \in BOOLEAN /\ m.length \in Nat /\ RequestSize \in Nat /\ MaxReadWrite \in Nat
      /\ m.type \in {"standard", "class", "vendor", "reserved"}
  BY MessagesAssumption
<1>2. /\ r.inLength = IF m.in THEN RequestSize ELSE RequestSize + m.length
      /\ r.outLength = IF m.in THEN m.length ELSE 0
      /\ r.code = IF m.type = "standard" THEN m.request
                  ELSE IF m.in THEN "VENDOR_READ" ELSE "VENDOR_WRITE"
  BY DEF usb_control_msg
<1>3. r.outLength \in MinOut(r.code) .. MaxReadWrite
  BY DEF dispatch_ioctl
<1> HIDE DEF r
<1>4. r.code \in {"GET_CONFIGURATION", "GET_INTERFACE", "GET_STATUS"} => m.in
  BY <1>1, <1>2 DEF IsMeaningful
<1>5. r.code \in {"GET_CONFIGURATION", "GET_INTERFACE"} => MinOut(r.code) = 1
  BY DEF MinOut
<1>6. r.code = "GET_STATUS" => MinOut(r.code) = 2
  BY DEF MinOut
<1>7. r.code \in {"GET_CONFIGURATION", "GET_INTERFACE"} => 1 <= m.length
  BY <1>1, <1>2, <1>3, <1>4, <1>5
<1>8. r.code = "GET_STATUS" => 2 <= m.length
  BY <1>1, <1>2, <1>3, <1>4, <1>6
<1>9. ~m.in => PayloadSize(r) = m.length
  BY <1>1, <1>2 DEF PayloadSize
<1>10. m.in => r.outLength = m.length
  BY <1>2
<1> QED
  BY <1>7, <1>8, <1>9, <1>10 DEF r

(* A packet that is the message, but may be shorter.                       *)
Carries(urb, m) ==
    \E n \in Nat :
        /\ n <= m.length
        /\ urb = Packet(m.type, m.in, m.recipient, m.request, USHORT(m.value), USHORT(m.index), n)

LEMMA CarriesWhole ==
    ASSUME NEW m \in Messages, NEW n \in Nat, n <= m.length
    PROVE  Carries(Packet(m.type, m.in, m.recipient, m.request, USHORT(m.value),
                          USHORT(m.index), n), m)
BY DEF Carries

\* Each handler, one after the other.
LEMMA PacketCarriesMessage ==
    ASSUME NEW m \in Messages, IsMeaningful(m), NEW urb \in Sent(m)
    PROVE  Carries(urb, m)
<1>1. PICK r : r = usb_control_msg(m)
  OBVIOUS
<1>2. IsSupported(m) /\ dispatch_ioctl(usb_control_msg(m)) /\ urb \in Urbs(r)
  BY <1>1 DEF Sent
<1>3. /\ m.in \in BOOLEAN /\ m.length \in Nat /\ m.value \in Nat
      /\ m.type \in {"standard", "class", "vendor", "reserved"}
  BY MessagesAssumption
<1>4. /\ r.code = IF m.type = "standard" THEN m.request
                  ELSE IF m.in THEN "VENDOR_READ" ELSE "VENDOR_WRITE"
      /\ r.recipient = m.recipient /\ r.request = m.request /\ r.feature = m.value
      /\ r.type = IF m.type = "standard" THEN UCHAR(m.value \div 256) ELSE m.type
      /\ r.descriptor = UCHAR(m.value) /\ r.configuration = m.value
      /\ r.altsetting = m.value /\ r.value = m.value /\ r.index = m.index
  BY <1>1 DEF usb_control_msg
<1>5. /\ r.code \in {"GET_CONFIGURATION", "GET_INTERFACE"} => 1 <= m.length
      /\ r.code = "GET_STATUS" => 2 <= m.length
      /\ m.in => r.outLength = m.length
      /\ ~m.in => PayloadSize(r) = m.length
  BY <1>1, <1>2, IoctlFits
<1>6. \A n \in Nat : n <= m.length =>
        Carries(Packet(m.type, m.in, m.recipient, m.request, USHORT(m.value), USHORT(m.index), n), m)
  BY CarriesWhole
<1>7. CASE m.type # "standard"
  <2>1. urb = Packet(m.type, m.in, m.recipient, m.request, USHORT(m.value), USHORT(m.index), m.length)
    <3>1. CASE m.in
      <4>1. r.code = "VENDOR_READ" /\ r.type = m.type /\ r.outLength = m.length
        BY <1>4, <1>5, <1>7, <3>1
      <4>2. Urbs(r) = vendor_class_request(r, TRUE, r.outLength)
        BY <4>1 DEF Urbs
      <4> QED
        BY <1>2, <1>4, <3>1, <4>1, <4>2 DEF vendor_class_request, If
    <3>2. CASE ~m.in
      <4>1. r.code = "VENDOR_WRITE" /\ r.type = m.type /\ PayloadSize(r) = m.length
        BY <1>4, <1>5, <1>7, <3>2
      <4>2. Urbs(r) = vendor_class_request(r, FALSE, PayloadSize(r))
        BY <4>1 DEF Urbs
      <4>3. m.in = FALSE
        BY <1>3, <3>2
      <4> QED
        BY <1>2, <1>4, <4>1, <4>2, <4>3 DEF vendor_class_request, If
    <3> QED
      BY <3>1, <3>2
  <2> QED
    BY <1>3, <1>6, <2>1
<1>8. CASE m.type = "standard"
  <2>1. r.code = m.request /\ m.request \in StandardRequests
    BY <1>2, <1>4, <1>8 DEF IsSupported
  <2>2. m.in = (m.request \in {"GET_STATUS", "GET_DESCRIPTOR", "GET_CONFIGURATION",
                               "GET_INTERFACE"})
    BY <1>8 DEF IsMeaningful
  <2>3. r.type * 256 + r.descriptor = USHORT(m.value)
    BY <1>3, <1>4, <1>8, HalvesMakeWhole
  <2> DEFINE Whole(n) == Packet(m.type, m.in, m.recipient, m.request, USHORT(m.value), USHORT(m.index), n)
  <2>4. CASE m.request = "GET_STATUS"
    <3>1. Urbs(r) = get_status(r)
      BY <2>1, <2>4 DEF Urbs
    <3>2. USHORT(m.value) = 0 /\ m.in = TRUE
      BY <1>8, <2>2, <2>4, NothingToLose DEF IsMeaningful
    <3>3. urb = Whole(2)
      BY <1>2, <1>4, <1>8, <2>4, <3>1, <3>2 DEF get_status, If, Standard
    <3> QED
      BY <1>5, <1>6, <2>1, <2>4, <3>3
  <2>5. CASE m.request = "SET_FEATURE"
    <3>1. Urbs(r) = set_feature(r)
      BY <2>1, <2>5 DEF Urbs
    <3>2. m.in = FALSE
      BY <1>3, <2>2, <2>5
    <3>3. urb = Whole(0)
      BY <1>2, <1>4, <1>8, <2>5, <3>1, <3>2 DEF set_feature, If, Standard
    <3> QED
      BY <1>3, <1>6, <3>3
  <2>6. CASE m.request = "CLEAR_FEATURE"
    <3>1. Urbs(r) = clear_feature(r)
      BY <2>1, <2>6 DEF Urbs
    <3>2. m.in = FALSE
      BY <1>3, <2>2, <2>6
    <3>3. urb = Whole(0)
      BY <1>2, <1>4, <1>8, <2>6, <3>1, <3>2 DEF clear_feature, If, Standard
    <3> QED
      BY <1>3, <1>6, <3>3
  <2>7. CASE m.request = "GET_DESCRIPTOR"
    <3>1. Urbs(r) = get_descriptor(r) /\ m.in = TRUE
      BY <2>1, <2>2, <2>7 DEF Urbs
    <3>2. urb = Whole(m.length)
      BY <1>2, <1>4, <1>5, <1>8, <2>3, <2>7, <3>1 DEF get_descriptor, If, Standard
    <3> QED
      BY <1>3, <1>6, <3>2
  <2>8. CASE m.request = "SET_DESCRIPTOR"
    <3>1. Urbs(r) = set_descriptor(r)
      BY <2>1, <2>8 DEF Urbs
    <3>2. m.in = FALSE
      BY <1>3, <2>2, <2>8
    <3>3. urb = Whole(m.length)
      BY <1>2, <1>4, <1>5, <1>8, <2>3, <2>8, <3>1, <3>2 DEF set_descriptor, If, Standard
    <3> QED
      BY <1>3, <1>6, <3>3
  <2>9. CASE m.request = "GET_CONFIGURATION"
    <3>1. Urbs(r) = get_configuration(r)
      BY <2>1, <2>9 DEF Urbs
    <3>2. USHORT(m.value) = 0 /\ m.recipient = 0 /\ USHORT(m.index) = 0 /\ m.in = TRUE
      BY <1>8, <2>2, <2>9, NothingToLose DEF IsMeaningful
    <3>3. urb = Whole(1)
      BY <1>2, <1>8, <2>9, <3>1, <3>2 DEF get_configuration, Standard
    <3> QED
      BY <1>5, <1>6, <2>1, <2>9, <3>3
  <2>10. CASE m.request = "SET_CONFIGURATION"
    <3>1. Urbs(r) = SetConfigurationUrb(r)
      BY <2>1, <2>10 DEF Urbs
    <3>2. m.in = FALSE
      BY <1>3, <2>2, <2>10
    <3>3. m.recipient = 0 /\ USHORT(m.index) = 0
      BY <1>8, <2>10, NothingToLose DEF IsMeaningful
    <3>4. m.value \in DOMAIN Configs \cup {0}
          /\ urb = Standard(FALSE, 0, "SET_CONFIGURATION", m.value, 0, 0)
      BY <1>2, <1>4, <3>1 DEF SetConfigurationUrb, If
    <3>5. USHORT(m.value) = m.value
      BY <3>4, ConfigsAssumption DEF USHORT
    <3>6. urb = Whole(0)
      BY <1>8, <2>10, <3>2, <3>3, <3>4, <3>5 DEF Standard
    <3> QED
      BY <1>3, <1>6, <3>6
  <2>11. CASE m.request = "GET_INTERFACE"
    <3>1. Urbs(r) = get_interface(r)
      BY <2>1, <2>11 DEF Urbs
    <3>2. USHORT(m.value) = 0 /\ m.recipient = 1 /\ m.in = TRUE
      BY <1>8, <2>2, <2>11, NothingToLose DEF IsMeaningful
    <3>3. urb = Whole(1)
      BY <1>2, <1>4, <1>8, <2>11, <3>1, <3>2 DEF get_interface, If, Standard
    <3> QED
      BY <1>5, <1>6, <2>1, <2>11, <3>3
  <2>12. CASE m.request = "SET_INTERFACE"
    <3>1. Urbs(r) = SetInterfaceUrb(r)
      BY <2>1, <2>12 DEF Urbs
    <3>2. m.in = FALSE
      BY <1>3, <2>2, <2>12
    <3>3. m.recipient = 1
      BY <1>8, <2>12 DEF IsMeaningful
    <3>4. urb = Whole(0)
      <4>1. /\ drv.value \in DOMAIN Configs /\ r.index \in DOMAIN Configs[drv.value]
            /\ r.altsetting < Configs[drv.value][r.index]
            /\ urb = Standard(FALSE, 1, "SET_INTERFACE", r.altsetting, r.index, 0)
        BY <1>2, <3>1 DEF SetInterfaceUrb, If
      <4>2. m.index \in 0 .. 255 /\ m.value \in 0 .. 255
        <5>1. Configs[drv.value][r.index] \in 1 .. 256 /\ r.index \in 0 .. 255
          BY <4>1, ConfigsAssumption
        <5> QED
          BY <1>3, <1>4, <4>1, <5>1
      <4>3. USHORT(m.value) = m.value /\ USHORT(m.index) = m.index
        BY <4>2 DEF USHORT
      <4> QED
        BY <1>4, <1>8, <2>12, <3>2, <3>3, <4>1, <4>3 DEF Standard
    <3> QED
      BY <1>3, <1>6, <3>4
  <2> QED
    BY <2>1, <2>4, <2>5, <2>6, <2>7, <2>8, <2>9, <2>10, <2>11, <2>12 DEF StandardRequests
<1> QED
  BY <1>7, <1>8

\* In every state of the driver a control message in the direction of its request
\* comes to the device as it was meant, and asks for no more than there is room for
\* (usb_control_msg, dispatch_ioctl and the handlers of the driver), whatever the
\* messages and the limits of the buffers.
THEOREM MessagesComeThrough == Spec => []MessagesAreTransparent
<1>1. MessagesAreTransparent
  <2> SUFFICES ASSUME NEW m \in Messages, IsMeaningful(m), NEW urb \in Sent(m)
               PROVE  /\ urb.type = m.type /\ urb.in = m.in
                      /\ urb.recipient = m.recipient /\ urb.request = m.request
                      /\ urb.value = USHORT(m.value) /\ urb.index = USHORT(m.index)
                      /\ urb.length <= m.length
    BY DEF MessagesAreTransparent
  <2>1. PICK n \in Nat :
           /\ n <= m.length
           /\ urb = Packet(m.type, m.in, m.recipient, m.request, USHORT(m.value),
                           USHORT(m.index), n)
    BY PacketCarriesMessage DEF Carries
  <2> QED
    BY <2>1 DEF Packet
<1> QED
  BY <1>1, PTL
=============================================================================
