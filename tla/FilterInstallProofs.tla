------------------------- MODULE FilterInstallProofs -------------------------
(***************************************************************************)
(* The installer, for every number of classes and devices, every set of    *)
(* commands and every list of filters of others, wherever a command is     *)
(* killed.                                                                 *)
(*                                                                         *)
(* The lists of filters are sequences, and what a change of one leaves in  *)
(* it is proved first; then what each action does to devices and command   *)
(* (Shape and the lemmas called ...Effect); then one invariant for each    *)
(* property: Loaded, Repairs, ServiceFirst and Kept.                       *)
(***************************************************************************)
EXTENDS FilterInstall, SequenceTheorems, WellFoundedInduction, TLAPS

(***************************************************************************)
(* Filter lists.                                                           *)
(***************************************************************************)
\* Every set of numbers has a least member: what an induction on the length of
\* a list rests on.
LEMMA LeastNumber ==
    ASSUME NEW T \in SUBSET Nat, T # {}
    PROVE  \E x \in T : \A y \in T : x <= y
<1> DEFINE R == OpToRel(<, Nat)
<1>1. IsWellFoundedOn(R, Nat)
  BY NatLessThanWellFounded
<1>2. R = {ss \in Nat \X Nat : ss[1] < ss[2]}
  BY DEF OpToRel
<1> HIDE DEF R
<1>3. PICK x \in T : \A y \in T : ~(<<y, x>> \in R)
  BY <1>1, WFMin
<1>4. ASSUME NEW y \in T PROVE x <= y
  <2>1. <<y, x>> \notin R
    BY <1>3
  <2> QED
    BY <2>1, <1>2
<1> QED
  BY <1>3, <1>4

\* What mz_remove has kept of the first n drivers: h, if h follows its steps.
LEMMA RemoveFollowsSteps ==
    ASSUME NEW list, Len(list) \in Nat, NEW h,
           h = [n \in 0 .. Len(list) |->
                  IF n = 0 THEN <<>>
                  ELSE IF list[n] = libusb0 THEN h[n - 1] ELSE Append(h[n - 1], list[n])]
    PROVE  mz_remove(list) = h[Len(list)]
<1> DEFINE F(g) == [n \in 0 .. Len(list) |->
                  IF n = 0 THEN <<>>
                  ELSE IF list[n] = libusb0 THEN g[n - 1] ELSE Append(g[n - 1], list[n])]
           upto == CHOOSE g : g = F(g)
<1>1. mz_remove(list) = upto[Len(list)]
  BY DEF mz_remove
<1>2. upto = F(upto)
  <2>1. h = F(h)
    OBVIOUS
  <2> HIDE DEF F
  <2> QED
    BY <2>1
<1> HIDE DEF upto
<1>3. \A n \in 0 .. Len(list) : upto[n] = h[n]
  <2> DEFINE Differ == {n \in 0 .. Len(list) : upto[n] # h[n]}
  <2> SUFFICES ASSUME Differ # {} PROVE FALSE
    OBVIOUS
  <2>1. Differ \in SUBSET Nat
    OBVIOUS
  <2>2. PICK x \in Differ : \A y \in Differ : x <= y
    <3> HIDE DEF Differ
    <3> QED
      BY <2>1, LeastNumber
  <2>3. x # 0
    BY <1>2
  <2>4. x - 1 \in 0 .. Len(list) /\ x - 1 \notin Differ
    BY <2>2, <2>3
  <2>5. upto[x - 1] = h[x - 1]
    BY <2>4
  <2>6. /\ upto[x] = IF list[x] = libusb0 THEN upto[x - 1] ELSE Append(upto[x - 1], list[x])
        /\ h[x] = IF list[x] = libusb0 THEN h[x - 1] ELSE Append(h[x - 1], list[x])
    BY <1>2, <2>3
  <2> QED
    BY <2>5, <2>6
<1> QED
  BY <1>1, <1>3

Foreigners == Seq(STRING \ {libusb0})

LEMMA FrontGrows ==
    ASSUME NEW S, NEW list \in Seq(S), NEW n \in 1 .. Len(list)
    PROVE  SubSeq(list, 1, n) = Append(SubSeq(list, 1, n - 1), list[n])
<1>1. n \in Nat /\ n - 1 \in Nat /\ n >= 1 /\ n <= Len(list) /\ Len(list) \in Nat
  OBVIOUS
<1>2. SubSeq(list, 1, n) = [i \in 1 .. n |-> list[i]]
  BY <1>1
<1>3. SubSeq(list, 1, n - 1) = [i \in 1 .. n - 1 |-> list[i]]
  BY <1>1
<1> QED
  BY <1>1, <1>2, <1>3

\* Where there is no libusb0 nothing is taken out.
LEMMA RemoveKeepsForeigners ==
    ASSUME NEW list \in Foreigners
    PROVE  mz_remove(list) = list /\ ~mz_find(list)
<1> DEFINE h == [n \in 0 .. Len(list) |-> SubSeq(list, 1, n)]
<1>1. Len(list) \in Nat /\ list \in Seq(STRING)
  BY DEF Foreigners
<1>2. \A n \in 1 .. Len(list) : list[n] # libusb0
  BY DEF Foreigners
<1>3. h = [n \in 0 .. Len(list) |->
             IF n = 0 THEN <<>>
             ELSE IF list[n] = libusb0 THEN h[n - 1] ELSE Append(h[n - 1], list[n])]
  <2>1. ASSUME NEW n \in 0 .. Len(list), n # 0
        PROVE  h[n] = Append(h[n - 1], list[n])
    <3>1. n \in 1 .. Len(list) /\ n - 1 \in 0 .. Len(list)
      BY <1>1, <2>1
    <3> QED
      BY <1>1, <3>1, FrontGrows
  <2>2. h[0] = <<>>
    BY <1>1
  <2> HIDE DEF h
  <2>3. h = [n \in 0 .. Len(list) |-> h[n]]
    BY DEF h
  <2>4. \A n \in 0 .. Len(list) :
          h[n] = IF n = 0 THEN <<>>
                 ELSE IF list[n] = libusb0 THEN h[n - 1] ELSE Append(h[n - 1], list[n])
    <3>1. ASSUME NEW n \in 0 .. Len(list), n # 0
          PROVE  list[n] # libusb0 /\ h[n] = Append(h[n - 1], list[n])
      <4>1. n \in 1 .. Len(list)
        BY <1>1, <3>1
      <4> QED
        BY <1>2, <2>1, <3>1, <4>1
    <3> QED
      BY <2>2, <3>1
  <2> QED
    BY <2>3, <2>4
<1>4. h[Len(list)] = list
  BY <1>1
<1> HIDE DEF h
<1>5. mz_remove(list) = list
  BY <1>1, <1>3, <1>4, RemoveFollowsSteps
<1>6. ~mz_find(list)
  <2>1. mz_find(list) <=> \E n \in 1 .. Len(list) : list[n] = libusb0
    BY DEF mz_find, Contains
  <2> QED
    BY <1>2, <2>1
<1> QED
  BY <1>5, <1>6

Names == (STRING \ {libusb0}) \cup {libusb0}

LEMMA ForeignersAreNames ==
    ASSUME NEW list \in Foreigners
    PROVE  list \in Seq(Names) /\ Len(list) \in Nat /\ libusb0 \in Names
<1>1. STRING \ {libusb0} \subseteq Names
  BY DEF Names
<1> QED
  BY <1>1, SeqMonotonic DEF Foreigners, Names

\* A list with libusb0 in one place.
LEMMA InsertedIsThere ==
    ASSUME NEW list \in Foreigners, NEW i \in 1 .. Len(list) + 1
    PROVE  LET s == InsertAt(list, i, libusb0) IN
           /\ s \in Seq(Names) /\ Len(s) = Len(list) + 1
           /\ \A n \in 1 .. Len(list) + 1 :
                s[n] = IF n < i THEN list[n] ELSE IF n = i THEN libusb0 ELSE list[n - 1]
<1>1. list \in Seq(Names) /\ i \in Nat /\ Len(list) \in Nat /\ libusb0 \in Names
  BY ForeignersAreNames
<1> DEFINE a == SubSeq(list, 1, i - 1)
           b == SubSeq(list, i, Len(list))
           c == a \o <<libusb0>>
           s == c \o b
<1>2. a \in Seq(Names) /\ Len(a) = i - 1 /\ \A n \in 1 .. i - 1 : a[n] = list[n]
  <2>1. \A n \in 1 .. i - 1 : list[n] \in Names
    BY <1>1
  <2> QED
    BY <1>1, <2>1, SubSeqProperties
<1>3. /\ b \in Seq(Names) /\ Len(b) = Len(list) - i + 1
      /\ \A n \in 1 .. Len(list) - i + 1 : b[n] = list[i + n - 1]
  <2>1. \A n \in i .. Len(list) : list[n] \in Names
    BY <1>1
  <2> QED
    BY <1>1, <2>1, SubSeqProperties
<1>4. InsertAt(list, i, libusb0) = s
  BY DEF InsertAt
<1> HIDE DEF a, b
<1>5. <<libusb0>> \in Seq(Names) /\ Len(<<libusb0>>) = 1 /\ <<libusb0>>[1] = libusb0
  BY <1>1
<1>6. /\ c \in Seq(Names) /\ Len(c) = i
      /\ \A n \in 1 .. i : c[n] = IF n < i THEN list[n] ELSE libusb0
  <2>1. /\ c \in Seq(Names) /\ Len(c) = Len(a) + 1
        /\ \A n \in 1 .. Len(a) + 1 :
             c[n] = IF n <= Len(a) THEN a[n] ELSE <<libusb0>>[n - Len(a)]
    BY <1>2, <1>5, ConcatProperties
  <2> QED
    BY <1>1, <1>2, <1>5, <2>1
<1> HIDE DEF c
<1>7. /\ s \in Seq(Names) /\ Len(s) = Len(c) + Len(b)
      /\ \A n \in 1 .. Len(c) + Len(b) : s[n] = IF n <= Len(c) THEN c[n] ELSE b[n - Len(c)]
  BY <1>3, <1>6, ConcatProperties
<1> HIDE DEF s
<1>8. ASSUME NEW n \in 1 .. Len(list) + 1
      PROVE  s[n] = IF n < i THEN list[n] ELSE IF n = i THEN libusb0 ELSE list[n - 1]
  <2>1. CASE n <= i
    BY <1>1, <1>3, <1>6, <1>7, <2>1
  <2>2. CASE n > i
    <3>1. n - i \in 1 .. Len(list) - i + 1 /\ i + (n - i) - 1 = n - 1
      BY <1>1, <2>2
    <3>2. s[n] = b[n - i]
      BY <1>1, <1>3, <1>6, <1>7, <2>2
    <3> QED
      BY <1>1, <1>3, <2>2, <3>1, <3>2
  <2> QED
    BY <1>1, <2>1, <2>2
<1> QED
  BY <1>1, <1>3, <1>4, <1>6, <1>7, <1>8

\* It is found there, and it is all that is taken out.
LEMMA RemoveTakesInsertedOut ==
    ASSUME NEW list \in Foreigners, NEW i \in 1 .. Len(list) + 1
    PROVE  LET s == InsertAt(list, i, libusb0) IN mz_remove(s) = list /\ mz_find(s)
<1> DEFINE s == InsertAt(list, i, libusb0)
<1>1. /\ i \in Nat /\ Len(list) \in Nat /\ Len(s) = Len(list) + 1
      /\ \A n \in 1 .. Len(s) :
           s[n] = IF n < i THEN list[n] ELSE IF n = i THEN libusb0 ELSE list[n - 1]
  BY InsertedIsThere, ForeignersAreNames
<1> HIDE DEF s
<1>2. \A n \in 1 .. Len(list) : list[n] # libusb0
  BY DEF Foreigners
<1> DEFINE h == [n \in 0 .. Len(s) |-> SubSeq(list, 1, IF n < i THEN n ELSE n - 1)]
<1>3. ASSUME NEW n \in 0 .. Len(s)
      PROVE  h[n] = IF n = 0 THEN <<>>
                    ELSE IF s[n] = libusb0 THEN h[n - 1] ELSE Append(h[n - 1], s[n])
  <2>1. CASE n = 0
    BY <1>1, <2>1
  <2>2. CASE n \in 1 .. i - 1
    <3>1. n \in 1 .. Len(list) /\ s[n] = list[n] /\ n - 1 \in 0 .. Len(s)
      BY <1>1, <2>2
    <3>2. h[n] = SubSeq(list, 1, n) /\ h[n - 1] = SubSeq(list, 1, n - 1)
      BY <1>1, <2>2, <3>1
    <3>3. SubSeq(list, 1, n) = Append(SubSeq(list, 1, n - 1), list[n])
      BY <3>1, FrontGrows DEF Foreigners
    <3> HIDE DEF h
    <3> QED
      BY <1>2, <2>2, <3>1, <3>2, <3>3
  <2>3. CASE n = i
    <3>1. s[n] = libusb0 /\ n # 0 /\ n - 1 \in 0 .. Len(s)
      BY <1>1, <2>3
    <3>2. h[n] = SubSeq(list, 1, n - 1) /\ h[n - 1] = SubSeq(list, 1, n - 1)
      BY <1>1, <2>3, <3>1
    <3> HIDE DEF h
    <3> QED
      BY <3>1, <3>2
  <2>4. CASE n > i
    <3>1. /\ n - 1 \in 1 .. Len(list) /\ s[n] = list[n - 1] /\ n - 1 \in 0 .. Len(s) /\ n # 0
          /\ n - 1 - 1 = n - 2
      BY <1>1, <2>4
    <3>2. h[n] = SubSeq(list, 1, n - 1) /\ h[n - 1] = SubSeq(list, 1, n - 1 - 1)
      BY <1>1, <2>4, <3>1
    <3>3. SubSeq(list, 1, n - 1) = Append(SubSeq(list, 1, n - 1 - 1), list[n - 1])
      BY <3>1, FrontGrows DEF Foreigners
    <3> HIDE DEF h
    <3> QED
      BY <1>2, <3>1, <3>2, <3>3
  <2> HIDE DEF h
  <2>5. n = 0 \/ n \in 1 .. i - 1 \/ n = i \/ n > i
    BY <1>1
  <2> QED
    BY <2>1, <2>2, <2>3, <2>4, <2>5
<1>4. h = [n \in 0 .. Len(s) |-> h[n]]
  OBVIOUS
<1>5. h[Len(s)] = list
  <2>1. h[Len(s)] = SubSeq(list, 1, Len(list))
    BY <1>1
  <2> QED
    BY <2>1, SubSeqFull DEF Foreigners
<1> HIDE DEF h
<1>6. h = [n \in 0 .. Len(s) |->
             IF n = 0 THEN <<>> ELSE IF s[n] = libusb0 THEN h[n - 1] ELSE Append(h[n - 1], s[n])]
  BY <1>3, <1>4
<1>7. mz_remove(s) = list
  <2>1. Len(s) \in Nat
    BY <1>1
  <2>2. mz_remove(s) = h[Len(s)]
    BY <1>6, <2>1, RemoveFollowsSteps
  <2> QED
    BY <1>5, <2>2
<1>8. mz_find(s)
  BY <1>1 DEF mz_find, Contains
<1> QED
  BY <1>7, <1>8 DEF s

(***************************************************************************)
(* Shapes of the state.                                                    *)
(***************************************************************************)
Places == {"service", "upper", "lower", "class"}
DeviceShape(lists) ==
    [service : Drivers, upper : lists, lower : lists, present : BOOLEAN, enabled : BOOLEAN,
     reinstall : BOOLEAN, loaded : SUBSET Places, missed : BOOLEAN]
IsDevice(r) == r \in DeviceShape({r.upper, r.lower})

Pcs == {"idle", "old", "stop", "service", "start", "insert_devices", "insert_classes",
        "remove_devices", "remove_classes", "inf", "done"}
CommandShape ==
    [pc : Pcs, c : CommandType, i : Nat, keys : SUBSET Classes, modified : BOOLEAN,
     ret : Int, stage : {"service", "inf"}, listed : SUBSET Devices]

Shape ==
    /\ dev = [d \in Devices |-> dev[d]] /\ \A d \in Devices : IsDevice(dev[d])
    /\ uppers = [k \in Classes |-> uppers[k]]
    /\ cmd \in CommandShape
    /\ service \in BOOLEAN /\ hurt \in BOOLEAN

LEMMA ShapeOfDevice ==
    ASSUME NEW lists, NEW r \in DeviceShape(lists)
    PROVE  IsDevice(r)
BY DEF DeviceShape, IsDevice

\* What a device keeps whatever becomes of its drivers, that its stack is what the
\* registry says, and that it runs: unless it missed a change of its state.
Alike(r, t) ==
    t.service = r.service /\ t.upper = r.upper /\ t.lower = r.lower /\ t.present = r.present
IsFresh(d, r) == r.present /\ r.enabled /\ ~r.missed => r.loaded = InEffect(d, r)
IsRunning(d, r) == r.present /\ ~r.missed => r.enabled /\ r.loaded = InEffect(d, r)

LEMMA RestartedIsDevice ==
    ASSUME NEW d \in Devices, NEW r, IsDevice(r)
    PROVE  LET t == Restarted(d, r) IN
           /\ IsDevice(t) /\ Alike(r, t)
           /\ t.enabled = r.enabled /\ t.reinstall = r.reinstall
           /\ IsFresh(d, t)
           /\ t = r \/ IsRunning(d, t)
           /\ r.present /\ ~r.enabled => t = r
<1> DEFINE e == InEffect(d, r)
           off == FALSE
           t == [r EXCEPT !.loaded = e, !.missed = off]
<1>1. e \subseteq Places /\ off \in BOOLEAN
  BY DEF InEffect, Places
<1>2. Restarted(d, r) = IF r.present /\ r.enabled THEN t ELSE r
  BY DEF Restarted
<1> HIDE DEF e, off
<1>3. /\ IsDevice(t)
      /\ t.service = r.service /\ t.upper = r.upper /\ t.lower = r.lower
      /\ t.present = r.present /\ t.enabled = r.enabled /\ t.reinstall = r.reinstall
      /\ t.loaded = e
  BY <1>1 DEF IsDevice, DeviceShape
<1> HIDE DEF t
<1>4. InEffect(d, t) = InEffect(d, r)
  BY <1>3 DEF InEffect
<1>5. CASE r.present /\ r.enabled
  BY <1>2, <1>3, <1>4, <1>5 DEF e, Alike, IsFresh, IsRunning
<1>6. CASE ~(r.present /\ r.enabled)
  BY <1>2, <1>6 DEF Alike, IsFresh
<1> QED
  BY <1>5, <1>6

\* A change of the state of a device: it succeeds, or the device misses it.
LEMMA StateIsDevice ==
    ASSUME NEW r, IsDevice(r), NEW new, NEW ok \in BOOLEAN
    PROVE  LET t == State(ok, r, new) IN
           \/ t = new
           \/ /\ IsDevice(t) /\ Alike(r, t) /\ t.enabled = r.enabled
              /\ t.present => t.missed
<1> DEFINE on == TRUE
           m == [r EXCEPT !.missed = on]
<1>1. on \in BOOLEAN
  OBVIOUS
<1>2. State(ok, r, new) = IF ok THEN new ELSE IF r.present THEN m ELSE r
  BY DEF State
<1> HIDE DEF on
<1>3. /\ IsDevice(m)
      /\ m.service = r.service /\ m.upper = r.upper /\ m.lower = r.lower
      /\ m.present = r.present /\ m.enabled = r.enabled /\ m.missed = on
  BY <1>1 DEF IsDevice, DeviceShape
<1> HIDE DEF m
<1> QED
  BY <1>2, <1>3 DEF Alike, on

LEMMA StoppedIsDevice ==
    ASSUME NEW r, IsDevice(r)
    PROVE  LET t == Stopped(r) IN IsDevice(t) /\ Alike(r, t) /\ ~t.enabled
<1> DEFINE off == FALSE
           t == [r EXCEPT !.enabled = off, !.loaded = {}, !.missed = off]
<1>1. {} \in SUBSET Places /\ off \in BOOLEAN /\ Stopped(r) = t
  BY DEF Stopped
<1> HIDE DEF off
<1>2. /\ IsDevice(t)
      /\ t.service = r.service /\ t.upper = r.upper /\ t.lower = r.lower
      /\ t.present = r.present /\ t.enabled = off
  BY <1>1 DEF IsDevice, DeviceShape
<1> HIDE DEF t
<1> QED
  BY <1>1, <1>2 DEF off, Alike

LEMMA StartedIsDevice ==
    ASSUME NEW d \in Devices, NEW r, IsDevice(r)
    PROVE  LET t == Started(d, r) IN
           /\ IsDevice(t) /\ Alike(r, t)
           /\ (t.enabled /\ t = r) \/ IsRunning(d, t)
<1> DEFINE on == TRUE
           s == [r EXCEPT !.enabled = on]
<1>1. on \in BOOLEAN
  OBVIOUS
<1> HIDE DEF on
<1>2. /\ IsDevice(s) /\ s.service = r.service /\ s.upper = r.upper /\ s.lower = r.lower
      /\ s.present = r.present /\ s.enabled = on
  BY <1>1 DEF IsDevice, DeviceShape
<1> HIDE DEF s
<1>3. Started(d, r) = IF r.enabled THEN r ELSE Restarted(d, s)
  BY DEF Started, s, on
<1>4. CASE r.enabled
  BY <1>3, <1>4 DEF Alike
<1>5. CASE ~r.enabled
  <2> DEFINE t == Restarted(d, s)
  <2>1. IsDevice(t) /\ Alike(s, t) /\ t.enabled = s.enabled /\ IsFresh(d, t)
    BY <1>2, RestartedIsDevice
  <2> HIDE DEF t
  <2>2. IsRunning(d, t)
    BY <1>2, <2>1 DEF IsFresh, IsRunning, on
  <2> QED
    BY <1>2, <1>3, <1>5, <2>1, <2>2 DEF t, Alike
<1> QED
  BY <1>4, <1>5

\* A restart that is asked for, of a device that may have changed.
LEMMA RestartIsDevice ==
    ASSUME NEW d \in Devices, NEW r, IsDevice(r), NEW ok \in BOOLEAN
    PROVE  LET t == State(ok, r, Restarted(d, r)) IN
           /\ IsDevice(t) /\ Alike(r, t) /\ t.enabled = r.enabled
           /\ IsFresh(d, t)
           /\ t = r \/ IsRunning(d, t)
<1> DEFINE new == Restarted(d, r)
           t == State(ok, r, new)
<1>1. /\ IsDevice(new) /\ Alike(r, new) /\ new.enabled = r.enabled /\ IsFresh(d, new)
      /\ new = r \/ IsRunning(d, new)
  BY RestartedIsDevice
<1> HIDE DEF new
<1>2. \/ t = new
      \/ IsDevice(t) /\ Alike(r, t) /\ t.enabled = r.enabled /\ (t.present => t.missed)
  BY StateIsDevice
<1> HIDE DEF t
<1>3. (t.present => t.missed) => IsFresh(d, t) /\ IsRunning(d, t)
  BY DEF IsFresh, IsRunning
<1> QED
  BY <1>1, <1>2, <1>3 DEF t, new

LEMMA MayIsBoolean ==
    StateMaySucceed \subseteq BOOLEAN /\ WriteMaySucceed \subseteq BOOLEAN
BY DEF StateMaySucceed, WriteMaySucceed

LEMMA RestartedAloneIsDevice ==
    ASSUME NEW d \in Devices, NEW r, IsDevice(r), NEW ok \in BOOLEAN
    PROVE  LET t == RestartedAlone(ok, d, r) IN
           IsDevice(t) /\ Alike(r, t) /\ (cmd.keys = {} => IsFresh(d, t))
<1>1. Alike(r, r)
  BY DEF Alike
<1> QED
  BY <1>1, RestartIsDevice DEF RestartedAlone

LEMMA UpperChanges ==
    ASSUME NEW r, IsDevice(r), NEW upper
    PROVE  LET t == [r EXCEPT !.upper = upper] IN
           /\ IsDevice(t) /\ t.service = r.service /\ t.upper = upper /\ t.lower = r.lower
           /\ t.present = r.present /\ t.enabled = r.enabled
<1> DEFINE lists == {r.upper, r.lower, upper}
           t == [r EXCEPT !.upper = upper]
<1>1. /\ t \in DeviceShape(lists) /\ t.service = r.service /\ t.upper = upper
      /\ t.lower = r.lower /\ t.present = r.present /\ t.enabled = r.enabled
  BY DEF IsDevice, DeviceShape
<1> HIDE DEF t, lists
<1>2. IsDevice(t)
  BY <1>1, ShapeOfDevice
<1> QED
  BY <1>1, <1>2 DEF t

LEMMA LowerChanges ==
    ASSUME NEW r, IsDevice(r), NEW lower
    PROVE  LET t == [r EXCEPT !.lower = lower] IN
           /\ IsDevice(t) /\ t.service = r.service /\ t.upper = r.upper /\ t.lower = lower
           /\ t.present = r.present /\ t.enabled = r.enabled
<1> DEFINE lists == {r.upper, r.lower, lower}
           t == [r EXCEPT !.lower = lower]
<1>1. /\ t \in DeviceShape(lists) /\ t.service = r.service /\ t.upper = r.upper
      /\ t.lower = lower /\ t.present = r.present /\ t.enabled = r.enabled
  BY DEF IsDevice, DeviceShape
<1> HIDE DEF t, lists
<1>2. IsDevice(t)
  BY <1>1, ShapeOfDevice
<1> QED
  BY <1>1, <1>2 DEF t

\* A device gets another driver, and is restarted with it.
LEMMA DrivenIsDevice ==
    ASSUME NEW d \in Devices, NEW r, IsDevice(r), NEW done \in BOOLEAN, NEW s \in Drivers
    PROVE  LET t == Driven(done, d, s, r) IN
           /\ IsDevice(t) /\ t.upper = r.upper /\ t.lower = r.lower /\ t.service = s
           /\ IsFresh(d, t)
<1> DEFINE new == [r EXCEPT !.service = s]
<1>1. /\ IsDevice(new) /\ new.service = s /\ new.upper = r.upper /\ new.lower = r.lower
  BY DEF IsDevice, DeviceShape
<1> HIDE DEF new
<1>2. Driven(done, d, s, r) = State(done, new, Restarted(d, new))
  BY DEF Driven, new
<1> QED
  BY <1>1, <1>2, RestartIsDevice DEF Alike

\* Installation of the driver, with or without the device.
LEMMA UpdatedIsDevice ==
    ASSUME NEW d \in Devices, NEW r, IsDevice(r), NEW done \in BOOLEAN
    PROVE  LET t == Updated(done, d, r) IN
           /\ IsDevice(t) /\ t.upper = r.upper /\ t.lower = r.lower
           /\ t.service = IF r.present THEN libusb0 ELSE r.service
           /\ IsFresh(d, t)
<1>1. CASE r.present
  <2>1. libusb0 \in Drivers
    BY DEF Drivers
  <2>2. Updated(done, d, r) = Driven(done, d, libusb0, r)
    BY <1>1 DEF Updated
  <2> QED
    BY <1>1, <2>1, <2>2, DrivenIsDevice
<1>2. CASE ~r.present
  <2> DEFINE on == TRUE
             t == [r EXCEPT !.reinstall = on]
  <2>1. on \in BOOLEAN
    OBVIOUS
  <2>2. Updated(done, d, r) = t
    BY <1>2 DEF Updated
  <2> HIDE DEF on
  <2>3. /\ IsDevice(t) /\ t.upper = r.upper /\ t.lower = r.lower /\ t.present = r.present
        /\ t.service = r.service
    BY <2>1 DEF IsDevice, DeviceShape
  <2> HIDE DEF t
  <2> QED
    BY <1>2, <2>2, <2>3 DEF IsFresh
<1> QED
  BY <1>1, <1>2

LEMMA UninstalledIsDevice ==
    ASSUME NEW s \in Drivers, NEW r, IsDevice(r)
    PROVE  LET t == UninstalledAs(s, r) IN
           /\ IsDevice(t) /\ t.service = s /\ t.upper = <<>> /\ t.lower = <<>>
           /\ t.present = r.present
<1> DEFINE lists == {r.upper, r.lower, <<>>}
           t == UninstalledAs(s, r)
<1>1. /\ t \in DeviceShape(lists) /\ t.service = s /\ t.upper = <<>> /\ t.lower = <<>>
      /\ t.present = r.present
  BY DEF UninstalledAs, IsDevice, DeviceShape
<1> HIDE DEF t, lists
<1>2. IsDevice(t)
  BY <1>1, ShapeOfDevice
<1> QED
  BY <1>1, <1>2 DEF t

(***************************************************************************)
(* What each action does.                                                  *)
(***************************************************************************)
SameRest == /\ cmd'.c = cmd.c /\ cmd'.keys = cmd.keys /\ cmd'.ret = cmd.ret
            /\ cmd'.stage = cmd.stage

LEMMA StepMoves ==
    ASSUME Shape, Step
    PROVE  /\ cmd' \in CommandShape /\ cmd'.pc = cmd.pc /\ cmd'.i = cmd.i + 1
           /\ cmd'.modified = cmd.modified /\ cmd'.listed = cmd.listed /\ SameRest
BY DEF Shape, CommandShape, Step, SameRest

\* The devices listed are those present.
ListsPresent(listed) ==
    listed \in SUBSET Devices /\ \A d \in Devices \ listed : ~dev[d].present

LEMMA ListedForIsPresent ==
    ASSUME NEW pc
    PROVE  /\ ListedFor(pc) \in SUBSET Devices
           /\ pc \in {"stop", "start"} => ListsPresent(ListedFor(pc))
BY DEF ListedFor, ListsPresent

LEMMA GotoMoves ==
    ASSUME Shape, NEW pc \in Pcs, Goto(pc)
    PROVE  /\ cmd' \in CommandShape /\ cmd'.pc = pc /\ cmd'.i = 0
           /\ cmd'.modified = cmd.modified /\ SameRest
           /\ pc \in {"stop", "start"} => ListsPresent(cmd'.listed)
<1> DEFINE listed == ListedFor(pc)
<1>1. listed \in SUBSET Devices /\ (pc \in {"stop", "start"} => ListsPresent(listed))
  BY ListedForIsPresent
<1>2. cmd' = [cmd EXCEPT !.pc = pc, !.i = 0, !.listed = listed]
  BY DEF Goto
<1> HIDE DEF listed
<1> QED
  BY <1>1, <1>2 DEF Shape, CommandShape, SameRest

LEMMA ItemIsNext ==
    ASSUME Shape, NEW pc, NEW n \in Nat, At(pc, n)
    PROVE  cmd.pc = pc /\ Item \in 1 .. n /\ Item = cmd.i + 1 /\ cmd.i \in Nat
BY DEF Shape, CommandShape, At, Item

LEMMA NoCommandIsShaped ==
    /\ NoCommand \in CommandShape /\ NoCommand.pc = "idle" /\ ~NoCommand.modified
    /\ NoCommand.keys = {} /\ NoCommand.c = EmptyLine
<1>1. EmptyLine \in CommandType
  BY DEF EmptyLine, CommandType
<1> HIDE DEF EmptyLine
<1>2. "idle" \in Pcs
  BY DEF Pcs
<1> QED
  BY <1>1, <1>2 DEF NoCommand, CommandShape

\* One device changes.
LEMMA DeviceChanges ==
    ASSUME Shape, NEW i \in Devices, NEW t, dev' = [dev EXCEPT ![i] = t]
    PROVE  /\ dev' = [d \in Devices |-> dev'[d]]
           /\ \A d \in Devices : dev'[d] = IF d = i THEN t ELSE dev[d]
           /\ IsDevice(t) => \A d \in Devices : IsDevice(dev'[d])
BY DEF Shape

Fresh(d) == IsFresh(d, dev[d])

LEMMA FreshNext ==
    ASSUME UNCHANGED uppers, NEW d \in Devices
    PROVE  Fresh(d)' <=> IsFresh(d, dev'[d])
BY DEF Fresh, IsFresh, InEffect

\* stop_libusb_devices: a device is stopped, or it misses that, or it is left alone.
LEMMA StopEffect ==
    ASSUME Shape, stop_libusb_devices
    PROVE  /\ Shape' /\ UNCHANGED <<uppers, service, hurt>>
           /\ cmd.pc = "stop" /\ cmd'.pc = cmd.pc /\ cmd'.modified = cmd.modified /\ SameRest
           /\ cmd'.i = cmd.i + 1 /\ cmd.i \in Nat /\ cmd'.listed = cmd.listed
           /\ \A d \in Devices :
                /\ Alike(dev[d], dev'[d])
                /\ \/ dev'[d] = dev[d]
                      /\ (d = cmd.i + 1 => d \notin cmd.listed \/ dev[d].service # libusb0)
                   \/ ~dev'[d].enabled
                   \/ dev'[d].present => dev'[d].missed
<1> DEFINE r == dev[Item]
<1>1. /\ At("stop", NumDevices) /\ Step /\ UNCHANGED <<uppers, service, hurt>>
  BY DEF stop_libusb_devices
<1>2. cmd.pc = "stop" /\ Item \in Devices /\ Item = cmd.i + 1 /\ cmd.i \in Nat
  BY <1>1, ItemIsNext, SizesAssumption DEF Devices
<1>3. IsDevice(r)
  BY <1>2 DEF Shape
<1>4. PICK ok \in BOOLEAN :
        dev' = [dev EXCEPT ![Item] =
            IF Item \in cmd.listed /\ @.service = libusb0 THEN State(ok, @, Stopped(@)) ELSE @]
  BY MayIsBoolean DEF stop_libusb_devices
<1> DEFINE new == Stopped(r)
           t == IF Item \in cmd.listed /\ r.service = libusb0 THEN State(ok, r, new) ELSE r
<1>5. dev' = [dev EXCEPT ![Item] = t]
  BY <1>4
<1>6. IsDevice(new) /\ Alike(r, new) /\ ~new.enabled
  BY <1>3, StoppedIsDevice
<1> HIDE DEF new
<1>7. /\ IsDevice(t) /\ Alike(r, t)
      /\ \/ t = r /\ (Item \notin cmd.listed \/ r.service # libusb0)
         \/ ~t.enabled
         \/ t.present => t.missed
  BY <1>3, <1>6, StateIsDevice DEF Alike
<1> HIDE DEF t
<1>8. /\ dev' = [d \in Devices |-> dev'[d]]
      /\ \A d \in Devices : dev'[d] = IF d = Item THEN t ELSE dev[d]
      /\ \A d \in Devices : IsDevice(dev'[d])
  BY <1>2, <1>5, <1>7, DeviceChanges
<1>9. Shape'
  BY <1>1, <1>8, StepMoves DEF Shape
<1>10. \A d \in Devices : Alike(dev[d], dev[d])
  BY DEF Alike
<1> QED
  BY <1>1, <1>2, <1>7, <1>8, <1>9, <1>10, StepMoves

\* start_libusb_devices: a device of libusb0 is enabled and started, or it misses that.
LEMMA StartEffect ==
    ASSUME Shape, start_libusb_devices
    PROVE  /\ Shape' /\ UNCHANGED <<uppers, service, hurt>>
           /\ cmd.pc = "start" /\ cmd'.pc = cmd.pc /\ cmd'.i = cmd.i + 1 /\ cmd.i \in Nat
           /\ cmd'.modified = cmd.modified /\ SameRest /\ cmd'.listed = cmd.listed
           /\ \A d \in Devices :
                /\ Alike(dev[d], dev'[d])
                /\ dev'[d] = dev[d] \/ IsRunning(d, dev'[d])
                /\ d = cmd.i + 1 /\ d \in cmd.listed /\ dev[d].service = libusb0 =>
                     dev'[d].enabled \/ IsRunning(d, dev'[d])
<1> DEFINE r == dev[Item]
<1>1. /\ At("start", NumDevices) /\ Step /\ UNCHANGED <<uppers, service, hurt>>
  BY DEF start_libusb_devices
<1>2. cmd.pc = "start" /\ Item \in Devices /\ Item = cmd.i + 1 /\ cmd.i \in Nat
  BY <1>1, ItemIsNext, SizesAssumption DEF Devices
<1>3. IsDevice(r)
  BY <1>2 DEF Shape
<1>4. PICK ok \in BOOLEAN :
        dev' = [dev EXCEPT ![Item] =
            IF Item \in cmd.listed /\ @.service = libusb0
            THEN State(ok, @, Started(Item, @)) ELSE @]
  BY MayIsBoolean DEF start_libusb_devices
<1> DEFINE new == Started(Item, r)
           t == IF Item \in cmd.listed /\ r.service = libusb0 THEN State(ok, r, new) ELSE r
<1>5. dev' = [dev EXCEPT ![Item] = t]
  BY <1>4
<1>6. /\ IsDevice(new) /\ Alike(r, new)
      /\ (new.enabled /\ new = r) \/ IsRunning(Item, new)
  BY <1>2, <1>3, StartedIsDevice
<1> HIDE DEF new
<1>7. /\ IsDevice(t) /\ Alike(r, t) /\ (t = r \/ IsRunning(Item, t))
      /\ Item \in cmd.listed /\ r.service = libusb0 => t.enabled \/ IsRunning(Item, t)
  <2>1. CASE Item \in cmd.listed /\ r.service = libusb0
    <3>1. t = State(ok, r, new)
      BY <2>1
    <3> HIDE DEF t, r
    <3>2. \/ t = new
          \/ IsDevice(t) /\ Alike(r, t) /\ (t.present => t.missed)
      BY <1>3, <3>1, StateIsDevice
    <3>3. (t.present => t.missed) => IsRunning(Item, t)
      BY DEF IsRunning
    <3> QED
      BY <1>6, <3>2, <3>3
  <2>2. CASE ~(Item \in cmd.listed /\ r.service = libusb0)
    BY <1>3, <2>2 DEF Alike
  <2> QED
    BY <2>1, <2>2
<1> HIDE DEF t
<1>8. /\ dev' = [d \in Devices |-> dev'[d]]
      /\ \A d \in Devices : dev'[d] = IF d = Item THEN t ELSE dev[d]
      /\ \A d \in Devices : IsDevice(dev'[d])
  BY <1>2, <1>5, <1>7, DeviceChanges
<1>9. Shape'
  BY <1>1, <1>8, StepMoves DEF Shape
<1>10. \A d \in Devices : Alike(dev[d], dev[d])
  BY DEF Alike
<1> QED
  BY <1>1, <1>2, <1>7, <1>8, <1>9, <1>10, StepMoves

\* insert_device_filters: a device of another driver gets the upper filter.
LEMMA InsertDeviceEffect ==
    ASSUME Shape, insert_device_filters
    PROVE  /\ Shape' /\ UNCHANGED <<uppers, service, hurt>>
           /\ cmd.pc = "insert_devices" /\ cmd'.pc = cmd.pc /\ cmd'.modified = cmd.modified
           /\ SameRest
           /\ \A d \in Devices :
                \/ dev'[d] = dev[d]
                \/ /\ dev'[d].service = dev[d].service /\ dev'[d].lower = dev[d].lower
                   /\ dev'[d].upper = Inserted(dev[d].upper) /\ dev'[d].present = dev[d].present
                   /\ dev[d].service # libusb0 /\ match_filter_device(d)
                   /\ cmd.keys = {} => IsFresh(d, dev'[d])
<1>1. /\ At("insert_devices", NumDevices) /\ Step /\ UNCHANGED <<uppers, service, hurt>>
  BY DEF insert_device_filters
<1>2. cmd.pc = "insert_devices" /\ Item \in Devices
  BY <1>1, ItemIsNext, SizesAssumption DEF Devices
<1> DEFINE r == dev[Item]
           upper == Inserted(r.upper)
           s == [r EXCEPT !.upper = upper]
<1>3. IsDevice(r)
  BY <1>2 DEF Shape
<1>a. PICK ok, done \in BOOLEAN :
        dev' = [dev EXCEPT ![Item] =
            IF ok /\ HasService(Item) /\ ~is_service_or_filter_libusb(Item)
                  /\ match_filter_device(Item)
            THEN RestartedAlone(done, Item, s) ELSE r]
  BY MayIsBoolean DEF insert_device_filters
<1>4. PICK t : /\ dev' = [dev EXCEPT ![Item] = t]
               /\ \/ t = r
                  \/ /\ t = RestartedAlone(done, Item, s) /\ match_filter_device(Item)
                     /\ ~is_service_or_filter_libusb(Item)
  BY <1>a
<1>5. r.service # libusb0 \/ is_service_or_filter_libusb(Item)
  BY DEF is_service_or_filter_libusb, is_service_libusb
<1> HIDE DEF r, upper
<1>6. /\ IsDevice(s) /\ s.service = r.service /\ s.upper = upper /\ s.lower = r.lower
      /\ s.present = r.present
  BY <1>3, UpperChanges
<1> HIDE DEF s
<1>7. /\ IsDevice(t)
      /\ \/ t = r
         \/ /\ t.service = r.service /\ t.lower = r.lower /\ t.upper = upper
            /\ t.present = r.present /\ r.service # libusb0 /\ match_filter_device(Item)
            /\ cmd.keys = {} => IsFresh(Item, t)
  BY <1>2, <1>3, <1>4, <1>5, <1>6, RestartedAloneIsDevice DEF Alike
<1>8. /\ dev' = [d \in Devices |-> dev'[d]]
      /\ \A d \in Devices : dev'[d] = IF d = Item THEN t ELSE dev[d]
      /\ \A d \in Devices : IsDevice(dev'[d])
  BY <1>2, <1>4, <1>7, DeviceChanges
<1>9. Shape'
  BY <1>1, <1>8, StepMoves DEF Shape
<1> QED
  BY <1>1, <1>2, <1>7, <1>8, <1>9, StepMoves DEF r, upper

LEMMA UpperRemovedIsDevice ==
    ASSUME NEW d \in Devices, NEW r, IsDevice(r), NEW ok \in BOOLEAN, NEW done \in BOOLEAN
    PROVE  LET t == UpperRemoved(ok, done, d, r) IN
           /\ IsDevice(t) /\ t.service = r.service /\ t.upper \in {r.upper, Removed(r.upper)}
           /\ t.lower = r.lower /\ t.present = r.present
           /\ t = r \/ (cmd.keys = {} => IsFresh(d, t))
<1> DEFINE upper == Removed(r.upper)
           s == IF ok THEN [r EXCEPT !.upper = upper] ELSE r
           t == RestartedAlone(done, d, s)
<1>1. UpperRemoved(ok, done, d, r) = IF mz_find(Buffer(r.upper)) THEN t ELSE r
  BY DEF UpperRemoved
<1> HIDE DEF upper
<1>2. /\ IsDevice(s) /\ s.service = r.service /\ s.upper \in {r.upper, upper}
      /\ s.lower = r.lower /\ s.present = r.present
  BY UpperChanges
<1> HIDE DEF s
<1>3. IsDevice(t) /\ Alike(s, t) /\ (cmd.keys = {} => IsFresh(d, t))
  BY <1>2, RestartedAloneIsDevice
<1> HIDE DEF t
<1> QED
  BY <1>1, <1>2, <1>3 DEF Alike, upper

LEMMA LowerRemovedIsDevice ==
    ASSUME NEW d \in Devices, NEW r, IsDevice(r), NEW ok \in BOOLEAN, NEW done \in BOOLEAN
    PROVE  LET t == LowerRemoved(ok, done, d, r) IN
           /\ IsDevice(t) /\ t.service = r.service /\ t.lower \in {r.lower, Removed(r.lower)}
           /\ t.upper = r.upper /\ t.present = r.present
           /\ t = r \/ (cmd.keys = {} => IsFresh(d, t))
<1> DEFINE lower == Removed(r.lower)
           s == IF ok THEN [r EXCEPT !.lower = lower] ELSE r
           t == RestartedAlone(done, d, s)
<1>1. LowerRemoved(ok, done, d, r) = IF mz_find(Buffer(r.lower)) THEN t ELSE r
  BY DEF LowerRemoved
<1> HIDE DEF lower
<1>2. /\ IsDevice(s) /\ s.service = r.service /\ s.lower \in {r.lower, lower}
      /\ s.upper = r.upper /\ s.present = r.present
  BY LowerChanges
<1> HIDE DEF s
<1>3. IsDevice(t) /\ Alike(s, t) /\ (cmd.keys = {} => IsFresh(d, t))
  BY <1>2, RestartedAloneIsDevice
<1> HIDE DEF t
<1> QED
  BY <1>1, <1>2, <1>3 DEF Alike, lower

\* remove_device_filter: it is taken out of one list or the other.
LEMMA RemoveDeviceEffect ==
    ASSUME Shape, remove_device_filter
    PROVE  /\ Shape' /\ UNCHANGED <<uppers, service, hurt>>
           /\ cmd.pc = "remove_devices" /\ cmd'.pc = cmd.pc /\ cmd'.modified = cmd.modified
           /\ SameRest
           /\ \A d \in Devices :
                \/ dev'[d] = dev[d]
                \/ /\ dev'[d].service = dev[d].service /\ dev'[d].present = dev[d].present
                   /\ dev'[d].upper \in {dev[d].upper, Removed(dev[d].upper)}
                   /\ dev'[d].lower \in {dev[d].lower, Removed(dev[d].lower)}
                   /\ cmd.c.allDevices \/ match_filter_device(d)
                   /\ cmd.keys = {} => IsFresh(d, dev'[d])
<1>1. /\ At("remove_devices", NumDevices) /\ Step /\ UNCHANGED <<uppers, service, hurt>>
  BY DEF remove_device_filter
<1>2. cmd.pc = "remove_devices" /\ Item \in Devices
  BY <1>1, ItemIsNext, SizesAssumption DEF Devices
<1> DEFINE r == dev[Item]
           upper == Removed(r.upper)
<1>3. IsDevice(r)
  BY <1>2 DEF Shape
<1>4. PICK ok1, ok2, done1, done2 \in BOOLEAN :
        dev' = [dev EXCEPT ![Item] =
            IF cmd.c.allDevices \/ match_filter_device(Item)
            THEN LowerRemoved(ok2, done2, Item, UpperRemoved(ok1, done1, Item, @)) ELSE @]
  BY MayIsBoolean DEF remove_device_filter
<1> DEFINE r1 == UpperRemoved(ok1, done1, Item, r)
           lower == Removed(r1.lower)
           r2 == LowerRemoved(ok2, done2, Item, r1)
           t == IF cmd.c.allDevices \/ match_filter_device(Item) THEN r2 ELSE r
<1>5. dev' = [dev EXCEPT ![Item] = t]
  BY <1>4
<1> HIDE DEF r
<1>6. /\ IsDevice(r1) /\ r1.service = r.service /\ r1.upper \in {r.upper, upper}
      /\ r1.lower = r.lower /\ r1.present = r.present
      /\ r1 = r \/ (cmd.keys = {} => IsFresh(Item, r1))
  BY <1>2, <1>3, UpperRemovedIsDevice
<1> HIDE DEF r1, upper
<1>7. /\ IsDevice(r2) /\ r2.service = r1.service /\ r2.upper = r1.upper
      /\ r2.lower \in {r1.lower, lower} /\ r2.present = r1.present
      /\ r2 = r1 \/ (cmd.keys = {} => IsFresh(Item, r2))
  BY <1>2, <1>6, LowerRemovedIsDevice
<1>8. lower = Removed(r.lower)
  BY <1>6
<1> HIDE DEF r2, lower
<1>9. /\ IsDevice(t)
      /\ \/ t = r
         \/ /\ t.service = r.service /\ t.present = r.present /\ t.upper \in {r.upper, upper}
            /\ t.lower \in {r.lower, lower} /\ (cmd.c.allDevices \/ match_filter_device(Item))
            /\ cmd.keys = {} => IsFresh(Item, t)
  BY <1>3, <1>6, <1>7
<1> HIDE DEF t
<1>10. /\ dev' = [d \in Devices |-> dev'[d]]
       /\ \A d \in Devices : dev'[d] = IF d = Item THEN t ELSE dev[d]
       /\ \A d \in Devices : IsDevice(dev'[d])
  BY <1>2, <1>5, <1>9, DeviceChanges
<1>11. Shape'
  BY <1>1, <1>10, StepMoves DEF Shape
<1> QED
  BY <1>1, <1>2, <1>8, <1>9, <1>10, <1>11, StepMoves DEF r, upper

\* An action that leaves devices and classes alone.
LEMMA Quiet ==
    ASSUME Shape, UNCHANGED <<uppers, dev>>, cmd' \in CommandShape,
           service' \in BOOLEAN, hurt' \in BOOLEAN
    PROVE  Shape' /\ \A d \in Devices : Fresh(d)' <=> Fresh(d)
BY DEF Shape, Fresh, IsFresh, InEffect

LEMMA BeginEffect ==
    ASSUME Shape, NEW c \in Commands, Begin(c)
    PROVE  /\ Shape' /\ UNCHANGED <<uppers, dev, service, hurt>>
           /\ cmd'.pc \in {"old", "stop", "inf"} /\ ~cmd'.modified /\ cmd'.c = c
           /\ cmd'.keys = ClassKeys(c) /\ cmd.pc = "idle" /\ cmd'.ret = 0
           /\ cmd'.pc = "old" <=> c.mode = "remove"
           /\ cmd'.i = 0 /\ (cmd'.pc = "stop" => ListsPresent(cmd'.listed))
<1> DEFINE keys == ClassKeys(c)
           pc == FirstPart(c)
           listed == ListedFor(pc)
<1>1. keys \subseteq Classes
  <2>1. c.classes \subseteq Classes
    BY CommandsAssumption DEF CommandType
  <2> QED
    BY <2>1, SizesAssumption
       DEF ClassKeys, named_class_keys, get_usb_class_keys, get_all_class_keys
<1>2. pc \in Pcs /\ pc \in {"old", "stop", "inf"} /\ (pc = "old" <=> c.mode = "remove")
  BY DEF Pcs, FirstPart
<1>3. /\ cmd' = [NoCommand EXCEPT !.c = c, !.keys = keys, !.pc = pc, !.listed = listed]
      /\ UNCHANGED <<uppers, dev, service, hurt>> /\ cmd.pc = "idle"
  BY DEF Begin
<1>4. /\ c \in CommandType /\ listed \in SUBSET Devices
      /\ pc \in {"stop", "start"} => ListsPresent(listed)
  BY CommandsAssumption, ListedForIsPresent
<1> HIDE DEF keys, pc, listed
<1>5. /\ cmd' \in CommandShape /\ cmd'.pc = pc /\ ~cmd'.modified /\ cmd'.c = c
      /\ cmd'.keys = keys /\ cmd'.ret = 0 /\ cmd'.i = 0 /\ cmd'.listed = listed
  <2>1. NoCommand.ret = 0 /\ NoCommand.i = 0
    BY DEF NoCommand
  <2> HIDE DEF NoCommand
  <2> QED
    BY <1>1, <1>2, <1>3, <1>4, <2>1, NoCommandIsShaped DEF CommandShape
<1>6. Shape'
  BY <1>3, <1>5, Quiet DEF Shape
<1> QED
  BY <1>2, <1>3, <1>4, <1>5, <1>6 DEF keys

\* The actions that only go on to another part of the command.
Moves ==
    \/ DevicesStopped \/ service_create \/ DevicesStarted \/ DeviceFiltersInserted
    \/ old_service_removed \/ DeviceFiltersRemoved \/ InfInstalled
LEMMA MovesEffect ==
    ASSUME Shape, Moves
    PROVE  /\ Shape' /\ UNCHANGED <<uppers, dev, hurt>> /\ cmd'.modified = cmd.modified
           /\ service => service'
           /\ cmd'.i = 0 /\ cmd'.c = cmd.c /\ cmd'.keys = cmd.keys /\ cmd'.ret = cmd.ret
           /\ cmd'.pc \in {"stop", "start"} => ListsPresent(cmd'.listed)
           /\ \/ /\ cmd.pc = "stop" /\ cmd.i = NumDevices /\ UNCHANGED service
                 /\ cmd'.pc = IF cmd.stage = "service" THEN "service" ELSE "start"
                 /\ cmd'.stage = cmd.stage
              \/ /\ cmd.pc = "service" /\ cmd'.pc = "start" /\ cmd'.stage = cmd.stage
                 /\ service => service'
                 /\ service' \/ "CreateFails" \in Env
              \/ /\ cmd.pc = "start" /\ cmd.i = NumDevices /\ UNCHANGED service
                 /\ cmd'.pc = IF cmd.stage = "service" THEN "insert_devices" ELSE "done"
                 /\ cmd'.stage = cmd.stage
              \/ /\ cmd.pc = "insert_devices" /\ cmd'.pc = "insert_classes"
                 /\ UNCHANGED service /\ cmd'.stage = cmd.stage
              \/ /\ cmd.pc = "old" /\ cmd'.pc = "remove_devices" /\ UNCHANGED service
                 /\ cmd'.stage = cmd.stage
              \/ /\ cmd.pc = "remove_devices" /\ cmd'.pc = "remove_classes"
                 /\ UNCHANGED service /\ cmd'.stage = cmd.stage
              \/ /\ cmd.pc = "inf" /\ cmd'.pc = "stop" /\ cmd'.stage = "inf"
                 /\ UNCHANGED service /\ cmd.c.mode = "install"
<1>0. /\ "stop" \in Pcs /\ "service" \in Pcs /\ "start" \in Pcs /\ "insert_devices" \in Pcs
      /\ "insert_classes" \in Pcs /\ "remove_devices" \in Pcs /\ "remove_classes" \in Pcs
      /\ "done" \in Pcs
  BY DEF Pcs
<1>1. service \in BOOLEAN /\ hurt \in BOOLEAN
  BY DEF Shape
<1>2. CASE DevicesStopped
  <2> DEFINE pc == IF cmd.stage = "service" THEN "service" ELSE "start"
  <2>1. /\ cmd.pc = "stop" /\ cmd.i = NumDevices /\ Goto(pc)
        /\ UNCHANGED <<uppers, dev, service, hurt>>
    BY <1>2 DEF DevicesStopped, EndOf
  <2>2. pc \in Pcs
    BY <1>0
  <2> HIDE DEF pc
  <2>3. /\ cmd' \in CommandShape /\ cmd'.pc = pc /\ cmd'.i = 0
        /\ cmd'.modified = cmd.modified /\ SameRest
        /\ pc \in {"stop", "start"} => ListsPresent(cmd'.listed)
    BY <2>1, <2>2, GotoMoves
  <2> QED
    BY <1>1, <2>1, <2>3, Quiet DEF pc, SameRest
<1>3. CASE service_create
  <2>1. /\ cmd.pc = "service" /\ Goto("start") /\ UNCHANGED <<uppers, dev, hurt>>
        /\ (service => service') /\ (service' \/ "CreateFails" \in Env)
        /\ service' \in BOOLEAN
    BY <1>1, <1>3 DEF service_create
  <2> QED
    BY <1>0, <1>1, <2>1, GotoMoves, Quiet DEF SameRest
<1>4. CASE DevicesStarted
  <2> DEFINE pc == IF cmd.stage = "service" THEN "insert_devices" ELSE "done"
  <2>1. /\ cmd.pc = "start" /\ cmd.i = NumDevices /\ Goto(pc)
        /\ UNCHANGED <<uppers, dev, service, hurt>>
    BY <1>4 DEF DevicesStarted, EndOf
  <2>2. pc \in Pcs
    BY <1>0
  <2> HIDE DEF pc
  <2>3. /\ cmd' \in CommandShape /\ cmd'.pc = pc /\ cmd'.i = 0
        /\ cmd'.modified = cmd.modified /\ SameRest
        /\ pc \in {"stop", "start"} => ListsPresent(cmd'.listed)
    BY <2>1, <2>2, GotoMoves
  <2> QED
    BY <1>1, <2>1, <2>3, Quiet DEF pc, SameRest
<1>5. CASE DeviceFiltersInserted
  BY <1>0, <1>1, <1>5, GotoMoves, Quiet DEF DeviceFiltersInserted, EndOf, SameRest
<1>6. CASE old_service_removed
  BY <1>0, <1>1, <1>6, GotoMoves, Quiet DEF old_service_removed, SameRest
<1>7. CASE DeviceFiltersRemoved
  BY <1>0, <1>1, <1>7, GotoMoves, Quiet DEF DeviceFiltersRemoved, EndOf, SameRest
<1>8. CASE InfInstalled
  <2>1. /\ cmd.pc = "inf" /\ cmd.c.mode = "install" /\ UNCHANGED <<uppers, dev, service, hurt>>
        /\ cmd' = [cmd EXCEPT !.pc = "stop", !.i = 0, !.stage = "inf",
                              !.listed = ListedFor("stop")]
    BY <1>8 DEF InfInstalled, EndOf
  <2> DEFINE listed == ListedFor("stop")
  <2>2. listed \in SUBSET Devices /\ ListsPresent(listed)
    BY ListedForIsPresent
  <2>3. cmd' = [cmd EXCEPT !.pc = "stop", !.i = 0, !.stage = "inf", !.listed = listed]
    BY <2>1
  <2> HIDE DEF listed
  <2>4. /\ cmd' \in CommandShape /\ cmd'.pc = "stop" /\ cmd'.i = 0 /\ cmd'.stage = "inf"
        /\ cmd'.modified = cmd.modified /\ cmd'.c = cmd.c /\ cmd'.keys = cmd.keys
        /\ cmd'.ret = cmd.ret /\ cmd'.listed = listed
    BY <1>0, <2>2, <2>3 DEF Shape, CommandShape
  <2> QED
    BY <1>1, <2>1, <2>2, <2>4, Quiet
<1> QED
  BY <1>2, <1>3, <1>4, <1>5, <1>6, <1>7, <1>8 DEF Moves

\* A failure, the end and a kill; the wait for the old service.
Ends == service_fails \/ inf_fails \/ OldServiceStops \/ Done \/ Killed
LEMMA EndsEffect ==
    ASSUME Shape, Ends
    PROVE  /\ Shape' /\ UNCHANGED <<uppers, dev, service>>
           /\ \/ /\ cmd.pc \in {"service", "inf"} /\ cmd'.pc = "done" /\ cmd'.ret = -1
                 /\ cmd'.modified = cmd.modified /\ cmd'.c = cmd.c /\ cmd'.keys = cmd.keys
                 /\ hurt' = hurt
              \/ UNCHANGED <<cmd, hurt>>
              \/ /\ cmd' = NoCommand
                 /\ hurt' \/ (~hurt /\ cmd.pc = "done" /\ cmd.ret = 0)
<1>1. service \in BOOLEAN /\ hurt \in BOOLEAN /\ "done" \in Pcs
  BY DEF Shape, Pcs
<1>2. CASE service_fails \/ inf_fails
  <2>1. /\ cmd' = [cmd EXCEPT !.pc = "done", !.ret = -1] /\ cmd.pc \in {"service", "inf"}
        /\ UNCHANGED <<uppers, dev, service, hurt>>
    BY <1>2 DEF service_fails, inf_fails
  <2>2. /\ cmd' \in CommandShape /\ cmd'.pc = "done" /\ cmd'.ret = -1
        /\ cmd'.modified = cmd.modified /\ cmd'.c = cmd.c /\ cmd'.keys = cmd.keys
    <3> DEFINE error == -1
    <3>1. error \in Int /\ cmd' = [cmd EXCEPT !.pc = "done", !.ret = error]
      BY <2>1
    <3> HIDE DEF error
    <3>2. /\ cmd' \in CommandShape /\ cmd'.pc = "done" /\ cmd'.ret = error
          /\ cmd'.modified = cmd.modified /\ cmd'.c = cmd.c /\ cmd'.keys = cmd.keys
      BY <1>1, <3>1 DEF Shape, CommandShape
    <3> QED
      BY <3>2 DEF error
  <2> QED
    BY <1>1, <2>1, <2>2, Quiet
<1>3. CASE OldServiceStops
  <2>1. UNCHANGED <<uppers, dev, service, cmd, hurt>>
    BY <1>3 DEF OldServiceStops
  <2>2. cmd' \in CommandShape
    BY <2>1 DEF Shape
  <2> QED
    BY <2>1, <2>2, <1>1, Quiet
<1>4. CASE Done
  <2>1. /\ cmd.pc = "done" /\ cmd' = NoCommand /\ UNCHANGED <<uppers, dev, service>>
        /\ hurt' = (hurt \/ cmd.ret # 0)
    BY <1>4 DEF Done
  <2>2. hurt' \in BOOLEAN /\ (hurt' \/ (~hurt /\ cmd.ret = 0))
    BY <1>1, <2>1
  <2> QED
    BY <1>1, <2>1, <2>2, NoCommandIsShaped, Quiet
<1>5. CASE Killed
  <2>1. cmd' = NoCommand /\ UNCHANGED <<uppers, dev, service>> /\ hurt' = TRUE
    BY <1>5 DEF Killed
  <2> QED
    BY <1>1, <2>1, NoCommandIsShaped, Quiet
<1> QED
  BY <1>2, <1>3, <1>4, <1>5 DEF Ends

\* insert_class_filter and remove_class_filter: one list may change, and only if
\* that is noted.
LEMMA ClassEffect ==
    ASSUME Shape, insert_class_filter \/ remove_class_filter
    PROVE  /\ Shape' /\ UNCHANGED <<dev, service, hurt>>
           /\ cmd.pc \in {"insert_classes", "remove_classes"} /\ cmd'.pc = cmd.pc /\ SameRest
           /\ cmd.modified => cmd'.modified
           /\ uppers' = uppers \/ cmd'.modified
           /\ \A k \in Classes :
                \/ uppers'[k] = uppers[k]
                \/ cmd.pc = "insert_classes" /\ uppers'[k] = Inserted(uppers[k])
                \/ cmd.pc = "remove_classes" /\ uppers'[k] = Removed(uppers[k])
<1>1. service \in BOOLEAN /\ hurt \in BOOLEAN /\ NumClasses \in Nat
  BY SizesAssumption DEF Shape
<1>2. ASSUME NEW flag \in BOOLEAN, NEW k \in Classes, NEW list,
             uppers' = IF flag THEN [uppers EXCEPT ![k] = list] ELSE uppers
      PROVE  /\ uppers' = [n \in Classes |-> uppers'[n]]
             /\ \A n \in Classes : uppers'[n] = uppers[n] \/ (flag /\ n = k /\ uppers'[n] = list)
  <2>1. uppers = [n \in Classes |-> uppers[n]]
    BY DEF Shape
  <2> QED
    BY <1>2, <2>1
<1>3. CASE insert_class_filter
  <2> DEFINE list == Inserted(uppers[Item])
  <2>1. At("insert_classes", NumClasses) /\ UNCHANGED <<dev, service, hurt>>
    BY <1>3 DEF insert_class_filter
  <2>2. PICK flag \in BOOLEAN :
          /\ uppers' = IF flag THEN [uppers EXCEPT ![Item] = list] ELSE uppers
          /\ cmd' = [cmd EXCEPT !.i = @ + 1, !.modified = @ \/ flag]
    <3>1. PICK ok \in WriteMaySucceed :
            LET changes == Item \in cmd.keys /\ ok /\ ~mz_find(Buffer(uppers[Item])) IN
            /\ uppers' = IF changes THEN [uppers EXCEPT ![Item] = Inserted(@)] ELSE uppers
            /\ cmd' = [cmd EXCEPT !.i = @ + 1, !.modified = @ \/ changes]
      BY <1>3 DEF insert_class_filter
    <3> WITNESS (Item \in cmd.keys /\ ok /\ ~mz_find(Buffer(uppers[Item]))) \in BOOLEAN
    <3> QED
      BY <3>1
  <2>3. cmd.pc = "insert_classes" /\ Item \in Classes
    BY <1>1, <2>1, ItemIsNext DEF Classes
  <2> HIDE DEF list
  <2>4. /\ uppers' = [n \in Classes |-> uppers'[n]]
        /\ \A n \in Classes : uppers'[n] = uppers[n] \/ (flag /\ n = Item /\ uppers'[n] = list)
    BY <1>2, <2>2, <2>3
  <2>5. /\ cmd' \in CommandShape /\ cmd'.pc = cmd.pc /\ SameRest
        /\ cmd'.modified = (cmd.modified \/ flag)
    <3> DEFINE noted == cmd.modified \/ flag
               next == cmd.i + 1
    <3>1. noted \in BOOLEAN /\ cmd' = [cmd EXCEPT !.i = next, !.modified = noted]
      BY <2>2
    <3>2. next \in Nat /\ cmd \in CommandShape
      BY DEF Shape, CommandShape
    <3> HIDE DEF noted, next
    <3>3. /\ cmd' \in CommandShape /\ cmd'.pc = cmd.pc /\ SameRest
          /\ cmd'.modified = noted
      BY <3>1, <3>2 DEF CommandShape, SameRest
    <3> QED
      BY <3>3 DEF noted
  <2>6. Shape'
    BY <2>1, <2>4, <2>5 DEF Shape
  <2>7. uppers' = uppers \/ flag
    BY <2>2
  <2> QED
    BY <2>1, <2>3, <2>4, <2>5, <2>6, <2>7 DEF list
<1>4. CASE remove_class_filter
  <2> DEFINE list == Removed(uppers[Item])
  <2>1. At("remove_classes", NumClasses) /\ UNCHANGED <<dev, service, hurt>>
    BY <1>4 DEF remove_class_filter
  <2>2. PICK found \in BOOLEAN, ok \in BOOLEAN :
          /\ uppers' = IF found /\ ok THEN [uppers EXCEPT ![Item] = list] ELSE uppers
          /\ cmd' = [cmd EXCEPT !.i = @ + 1, !.modified = @ \/ found]
    <3>1. PICK ok \in WriteMaySucceed :
            LET found == Item \in cmd.keys /\ mz_find(Buffer(uppers[Item])) IN
            /\ uppers' = IF found /\ ok THEN [uppers EXCEPT ![Item] = Removed(@)] ELSE uppers
            /\ cmd' = [cmd EXCEPT !.i = @ + 1, !.modified = @ \/ found]
      BY <1>4 DEF remove_class_filter
    <3>2. ok \in BOOLEAN
      BY DEF WriteMaySucceed
    <3> WITNESS (Item \in cmd.keys /\ mz_find(Buffer(uppers[Item]))) \in BOOLEAN
    <3> WITNESS ok \in BOOLEAN
    <3> QED
      BY <3>1
  <2>3. cmd.pc = "remove_classes" /\ Item \in Classes
    BY <1>1, <2>1, ItemIsNext DEF Classes
  <2> HIDE DEF list
  <2>4. /\ uppers' = [n \in Classes |-> uppers'[n]]
        /\ \A n \in Classes :
             uppers'[n] = uppers[n] \/ (found /\ ok /\ n = Item /\ uppers'[n] = list)
    <3>1. (found /\ ok) \in BOOLEAN
      OBVIOUS
    <3> QED
      BY <1>2, <2>2, <2>3, <3>1
  <2>5. /\ cmd' \in CommandShape /\ cmd'.pc = cmd.pc /\ SameRest
        /\ cmd'.modified = (cmd.modified \/ found)
    <3> DEFINE noted == cmd.modified \/ found
               next == cmd.i + 1
    <3>1. noted \in BOOLEAN /\ cmd' = [cmd EXCEPT !.i = next, !.modified = noted]
      BY <2>2
    <3>2. next \in Nat /\ cmd \in CommandShape
      BY DEF Shape, CommandShape
    <3> HIDE DEF noted, next
    <3>3. /\ cmd' \in CommandShape /\ cmd'.pc = cmd.pc /\ SameRest
          /\ cmd'.modified = noted
      BY <3>1, <3>2 DEF CommandShape, SameRest
    <3> QED
      BY <3>3 DEF noted
  <2>6. Shape'
    BY <2>1, <2>4, <2>5 DEF Shape
  <2>7. uppers' = uppers \/ found
    BY <2>2
  <2> QED
    BY <2>1, <2>3, <2>4, <2>5, <2>6, <2>7 DEF list
<1> QED
  BY <1>3, <1>4

\* Every device is restarted but those that miss it, or none is.
LEMMA RestartsEffect ==
    ASSUME Shape, UNCHANGED uppers, AllRestarted
    PROVE  /\ dev' = [d \in Devices |-> dev'[d]] /\ \A d \in Devices : IsDevice(dev'[d])
           /\ \A d \in Devices :
                /\ Alike(dev[d], dev'[d])
                /\ dev'[d] = dev[d] \/ IsRunning(d, dev'[d])
                /\ cmd.modified => IsFresh(d, dev'[d])
<1>1. \A d \in Devices : IsDevice(dev[d])
  BY DEF Shape
<1>2. PICK missing :
        dev' = [d \in Devices |->
            IF cmd.modified THEN State(d \notin missing, dev[d], Restarted(d, dev[d])) ELSE dev[d]]
  BY DEF AllRestarted
<1>3. ASSUME NEW d \in Devices
      PROVE  LET t == State(d \notin missing, dev[d], Restarted(d, dev[d])) IN
             /\ IsDevice(t) /\ Alike(dev[d], t) /\ IsFresh(d, t)
             /\ t = dev[d] \/ IsRunning(d, t)
  <2>1. (d \notin missing) \in BOOLEAN
    OBVIOUS
  <2> QED
    BY <1>1, <2>1, RestartIsDevice
<1>4. \A d \in Devices : Alike(dev[d], dev[d])
  BY DEF Alike
<1>5. /\ \A d \in Devices :
           dev'[d] = IF cmd.modified THEN State(d \notin missing, dev[d], Restarted(d, dev[d]))
                     ELSE dev[d]
      /\ dev' = [d \in Devices |-> dev'[d]]
  BY <1>2
<1> QED
  BY <1>1, <1>3, <1>4, <1>5

LEMMA RestartAllEffect ==
    ASSUME Shape, restart_all_devices
    PROVE  /\ Shape' /\ UNCHANGED <<uppers, service, hurt>>
           /\ cmd.pc \in {"insert_classes", "remove_classes"} /\ ~cmd'.modified
           /\ cmd'.pc \in {"inf", "done"} /\ SameRest
           /\ \A d \in Devices :
                /\ Alike(dev[d], dev'[d])
                /\ dev'[d] = dev[d] \/ IsRunning(d, dev'[d])
                /\ cmd.modified => IsFresh(d, dev'[d])
<1> DEFINE pc == IF cmd.c.inf # {} THEN "inf" ELSE "done"
           off == FALSE
<1>1. /\ AllRestarted
      /\ cmd' = [cmd EXCEPT !.pc = pc, !.i = 0, !.modified = off]
      /\ UNCHANGED <<uppers, service, hurt>>
      /\ cmd.pc \in {"insert_classes", "remove_classes"}
  BY DEF restart_all_devices, EndOf
<1>2. pc \in Pcs /\ pc \in {"inf", "done"} /\ off \in BOOLEAN /\ cmd.modified \in BOOLEAN
  BY DEF Pcs, Shape, CommandShape
<1> HIDE DEF pc, off
<1>3. /\ cmd' \in CommandShape /\ cmd'.modified = off /\ cmd'.pc = pc /\ SameRest
  BY <1>1, <1>2 DEF Shape, CommandShape, SameRest
<1>4. /\ dev' = [d \in Devices |-> dev'[d]] /\ \A d \in Devices : IsDevice(dev'[d])
      /\ \A d \in Devices :
                /\ Alike(dev[d], dev'[d])
                /\ dev'[d] = dev[d] \/ IsRunning(d, dev'[d])
                /\ cmd.modified => IsFresh(d, dev'[d])
  BY <1>1, RestartsEffect
<1>5. Shape'
  BY <1>1, <1>3, <1>4 DEF Shape
<1> QED
  BY <1>1, <1>2, <1>3, <1>4, <1>5 DEF off

LEMMA InfRemovedEffect ==
    ASSUME Shape, InfRemoved
    PROVE  /\ Shape' /\ UNCHANGED <<uppers, service, hurt>>
           /\ cmd.pc = "inf" /\ cmd'.pc = "done" /\ SameRest /\ cmd.c.mode = "remove"
           /\ \A d \in Devices :
                /\ Alike(dev[d], dev'[d])
                /\ dev'[d] = dev[d] \/ IsRunning(d, dev'[d])
                /\ cmd.modified => IsFresh(d, dev'[d])
<1>1. /\ AllRestarted /\ Goto("done") /\ UNCHANGED <<uppers, service, hurt>>
      /\ cmd.pc = "inf" /\ cmd.c.mode = "remove"
  BY DEF InfRemoved, EndOf
<1>2. "done" \in Pcs /\ cmd.modified \in BOOLEAN
  BY DEF Pcs, Shape, CommandShape
<1>3. /\ dev' = [d \in Devices |-> dev'[d]] /\ \A d \in Devices : IsDevice(dev'[d])
      /\ \A d \in Devices :
                /\ Alike(dev[d], dev'[d])
                /\ dev'[d] = dev[d] \/ IsRunning(d, dev'[d])
                /\ cmd.modified => IsFresh(d, dev'[d])
  BY <1>1, <1>2, RestartsEffect
<1>4. cmd' \in CommandShape /\ cmd'.pc = "done" /\ SameRest
  BY <1>1, <1>2, GotoMoves
<1>5. Shape'
  BY <1>1, <1>3, <1>4 DEF Shape
<1> QED
  BY <1>1, <1>3, <1>4, <1>5

LEMMA RebootEffect ==
    ASSUME Shape, Reboot
    PROVE  /\ Shape' /\ UNCHANGED <<uppers, service, cmd>> /\ cmd.pc = "idle"
           /\ \A d \in Devices : Alike(dev[d], dev'[d]) /\ IsFresh(d, dev'[d])
<1>1. /\ dev' = [d \in Devices |-> Restarted(d, dev[d])] /\ hurt' \in BOOLEAN
      /\ UNCHANGED <<uppers, service, cmd>> /\ cmd.pc = "idle"
  BY DEF Reboot
<1>2. \A d \in Devices : IsDevice(dev[d])
  BY DEF Shape
<1>3. /\ dev' = [d \in Devices |-> dev'[d]] /\ \A d \in Devices : IsDevice(dev'[d])
      /\ \A d \in Devices : Alike(dev[d], dev'[d]) /\ IsFresh(d, dev'[d])
  BY <1>1, <1>2, RestartedIsDevice
<1>4. Shape'
  BY <1>1, <1>3 DEF Shape
<1> QED
  BY <1>1, <1>3, <1>4

LEMMA InstallInfEffect ==
    ASSUME Shape, install_inf
    PROVE  /\ Shape' /\ UNCHANGED <<uppers, hurt>>
           /\ cmd.pc = "inf" /\ cmd'.pc = cmd.pc /\ cmd'.modified = cmd.modified
           /\ cmd.c.mode = "install" /\ SameRest /\ (service => service')
           /\ \A d \in Devices :
                \/ dev'[d] = dev[d]
                \/ /\ dev'[d].upper = dev[d].upper /\ dev'[d].lower = dev[d].lower
                   /\ \/ dev'[d].service = dev[d].service
                      \/ dev'[d].service = libusb0 /\ service'
                   /\ IsFresh(d, dev'[d])
<1>0. PICK ok \in BOOLEAN, done \in BOOLEAN :
        /\ dev' = [dev EXCEPT ![Item] =
                IF ok /\ Item \in cmd.c.inf THEN Updated(done, Item, @) ELSE @]
        /\ service' = (service \/ (ok /\ Item \in cmd.c.inf /\ dev[Item].present))
  BY MayIsBoolean DEF install_inf, InfMaySucceed
<1> DEFINE r == dev[Item]
           t == IF ok /\ Item \in cmd.c.inf THEN Updated(done, Item, r) ELSE r
<1>1. /\ At("inf", NumDevices) /\ Step /\ UNCHANGED <<uppers, hurt>>
      /\ dev' = [dev EXCEPT ![Item] = t] /\ cmd.c.mode = "install"
      /\ service' = (service \/ (ok /\ Item \in cmd.c.inf /\ r.present))
  BY <1>0 DEF install_inf
<1>2. cmd.pc = "inf" /\ Item \in Devices /\ service \in BOOLEAN
  BY <1>1, ItemIsNext, SizesAssumption DEF Devices, Shape
<1>3. IsDevice(r)
  BY <1>2 DEF Shape
<1>4. r.present \in BOOLEAN
  BY <1>3 DEF IsDevice, DeviceShape
<1>5. /\ IsDevice(t)
      /\ \/ t = r
         \/ /\ t.upper = r.upper /\ t.lower = r.lower
            /\ t.service = r.service \/ (t.service = libusb0 /\ service')
            /\ IsFresh(Item, t)
  <2>1. CASE ok /\ Item \in cmd.c.inf
    <3>1. t = Updated(done, Item, r)
      BY <2>1
    <3> HIDE DEF t, r
    <3>2. /\ IsDevice(t) /\ t.upper = r.upper /\ t.lower = r.lower
          /\ t.service = IF r.present THEN libusb0 ELSE r.service
          /\ IsFresh(Item, t)
      BY <1>2, <1>3, <3>1, UpdatedIsDevice
    <3> QED
      BY <1>1, <2>1, <3>2
  <2>2. CASE ~(ok /\ Item \in cmd.c.inf)
    BY <1>3, <2>2
  <2> QED
    BY <2>1, <2>2
<1> HIDE DEF t
<1>6. /\ dev' = [d \in Devices |-> dev'[d]]
      /\ \A d \in Devices : dev'[d] = IF d = Item THEN t ELSE dev[d]
      /\ \A d \in Devices : IsDevice(dev'[d])
  BY <1>1, <1>2, <1>5, DeviceChanges
<1>7. service' \in BOOLEAN /\ (service => service')
  BY <1>1, <1>2, <1>4
<1>8. Shape'
  BY <1>1, <1>6, <1>7, StepMoves DEF Shape
<1> QED
  BY <1>1, <1>2, <1>5, <1>6, <1>7, <1>8, StepMoves

LEMMA RemoveInfEffect ==
    ASSUME Shape, remove_inf
    PROVE  /\ Shape' /\ UNCHANGED <<uppers, service, hurt>>
           /\ cmd.pc = "inf" /\ cmd'.pc = cmd.pc /\ (cmd.modified => cmd'.modified)
           /\ cmd.c.mode = "remove" /\ SameRest
           /\ (\A d \in Devices : dev'[d] = dev[d] \/ IsFresh(d, dev'[d])) \/ cmd'.modified
           /\ \A d \in Devices :
                \/ dev'[d] = dev[d]
                \/ /\ dev'[d].upper = dev[d].upper /\ dev'[d].lower = dev[d].lower
                   /\ dev'[d].service = "other"
                \/ /\ d \in cmd.c.inf /\ dev'[d].upper = <<>> /\ dev'[d].lower = <<>>
                   /\ service \/ dev'[d].service # libusb0
<1>1. /\ At("inf", NumDevices) /\ UNCHANGED <<uppers, service, hurt>> /\ cmd.c.mode = "remove"
  BY DEF remove_inf
<1>2. cmd.pc = "inf" /\ Item \in Devices /\ cmd.modified \in BOOLEAN
  BY <1>1, ItemIsNext, SizesAssumption DEF Devices, Shape, CommandShape
<1> DEFINE r == dev[Item]
<1>3. IsDevice(r) /\ \A d \in Devices : IsDevice(dev[d])
  BY <1>2 DEF Shape
<1>4. CASE dev' = dev /\ Step
  <2>1. cmd' \in CommandShape /\ cmd'.pc = cmd.pc /\ cmd'.modified = cmd.modified /\ SameRest
    BY <1>4, StepMoves
  <2>2. Shape'
    BY <1>1, <1>4, <2>1 DEF Shape
  <2> QED
    BY <1>1, <1>2, <1>4, <2>1, <2>2
<1>5. CASE /\ \E done \in BOOLEAN :
                dev' = [dev EXCEPT ![Item] =
                          IF Item \in cmd.c.inf THEN RolledBack(done, Item, @) ELSE @]
           /\ Step
  <2>0. PICK done \in BOOLEAN :
          dev' = [dev EXCEPT ![Item] =
                    IF Item \in cmd.c.inf THEN RolledBack(done, Item, @) ELSE @]
    BY <1>5
  <2> DEFINE t == IF Item \in cmd.c.inf THEN RolledBack(done, Item, r) ELSE r
  <2>1. dev' = [dev EXCEPT ![Item] = t]
    BY <2>0
  <2>2. /\ IsDevice(t)
        /\ \/ t = r
           \/ /\ t.upper = r.upper /\ t.lower = r.lower /\ t.service = "other"
              /\ IsFresh(Item, t)
    <3>1. "other" \in Drivers
      BY DEF Drivers
    <3> QED
      BY <1>2, <1>3, <3>1, DrivenIsDevice DEF RolledBack
  <2> HIDE DEF t
  <2>3. /\ dev' = [d \in Devices |-> dev'[d]]
        /\ \A d \in Devices : dev'[d] = IF d = Item THEN t ELSE dev[d]
        /\ \A d \in Devices : IsDevice(dev'[d])
    BY <1>2, <2>1, <2>2, DeviceChanges
  <2>4. cmd' \in CommandShape /\ cmd'.pc = cmd.pc /\ cmd'.modified = cmd.modified /\ SameRest
    BY <1>5, StepMoves
  <2>5. Shape'
    BY <1>1, <2>3, <2>4 DEF Shape
  <2> QED
    BY <1>1, <1>2, <2>2, <2>3, <2>4, <2>5
<1>6. CASE \E s \in IF service THEN Drivers ELSE Drivers \ {libusb0} :
             /\ Item \in cmd.c.inf
             /\ dev' = [dev EXCEPT ![Item] = UninstalledAs(s, @)]
             /\ cmd' = [cmd EXCEPT !.i = @ + 1, !.modified = TRUE]
  <2>1. PICK s \in Drivers :
          /\ service \/ s # libusb0
          /\ Item \in cmd.c.inf
          /\ dev' = [dev EXCEPT ![Item] = UninstalledAs(s, @)]
          /\ cmd' = [cmd EXCEPT !.i = @ + 1, !.modified = TRUE]
    BY <1>6
  <2> DEFINE t == UninstalledAs(s, r)
             on == TRUE
             next == cmd.i + 1
  <2>2. dev' = [dev EXCEPT ![Item] = t] /\ cmd' = [cmd EXCEPT !.i = next, !.modified = on]
    BY <2>1
  <2>3. IsDevice(t) /\ t.upper = <<>> /\ t.lower = <<>> /\ t.service = s
    BY <1>2, <1>3, UninstalledIsDevice
  <2> HIDE DEF t
  <2>4. /\ dev' = [d \in Devices |-> dev'[d]]
        /\ \A d \in Devices : dev'[d] = IF d = Item THEN t ELSE dev[d]
        /\ \A d \in Devices : IsDevice(dev'[d])
    BY <1>2, <2>2, <2>3, DeviceChanges
  <2>5. on \in BOOLEAN /\ next \in Nat
    BY DEF Shape, CommandShape
  <2> HIDE DEF on, next
  <2>6. cmd' \in CommandShape /\ cmd'.pc = cmd.pc /\ cmd'.modified = on /\ SameRest
    BY <2>2, <2>5 DEF Shape, CommandShape, SameRest
  <2>7. Shape'
    BY <1>1, <2>4, <2>6 DEF Shape
  <2> QED
    BY <1>1, <1>2, <2>1, <2>3, <2>4, <2>6, <2>7 DEF on
<1>7. \/ dev' = dev /\ Step
      \/ /\ \E done \in BOOLEAN :
              dev' = [dev EXCEPT ![Item] =
                        IF Item \in cmd.c.inf THEN RolledBack(done, Item, @) ELSE @]
         /\ Step
      \/ \E s \in IF service THEN Drivers ELSE Drivers \ {libusb0} :
             /\ Item \in cmd.c.inf
             /\ dev' = [dev EXCEPT ![Item] = UninstalledAs(s, @)]
             /\ cmd' = [cmd EXCEPT !.i = @ + 1, !.modified = TRUE]
  BY MayIsBoolean DEF remove_inf
<1> QED
  BY <1>4, <1>5, <1>6, <1>7

LEMMA PlugEffect ==
    ASSUME Shape, NEW i \in Devices, Plug(i) \/ Unplug(i)
    PROVE  /\ Shape' /\ UNCHANGED <<uppers, hurt, cmd>>
           /\ (service => service')
           /\ \A d \in Devices :
                \/ dev'[d] = dev[d]
                \/ /\ dev'[d].upper = dev[d].upper /\ dev'[d].lower = dev[d].lower
                   /\ \/ dev'[d].service = dev[d].service
                      \/ dev'[d].service = libusb0 /\ service'
                   /\ IsFresh(d, dev'[d])
                   /\ cmd.pc # "idle" => IsRunning(d, dev'[d])
<1> DEFINE r == dev[i]
<1>1. IsDevice(r) /\ r.reinstall \in BOOLEAN /\ service \in BOOLEAN
  BY DEF Shape, IsDevice, DeviceShape
<1>2. CASE Plug(i)
  <2> DEFINE driver == IF r.reinstall THEN libusb0 ELSE r.service
             on == TRUE
             off == FALSE
             busy == cmd.pc # "idle"
             s == [r EXCEPT !.present = on, !.reinstall = off, !.service = driver,
                            !.missed = busy]
             t == Restarted(i, s)
  <2>1. /\ dev' = [dev EXCEPT ![i] = t]
        /\ service' = (service \/ r.reinstall) /\ UNCHANGED <<uppers, cmd, hurt>>
    BY <1>2 DEF Plug
  <2>2. on \in BOOLEAN /\ off \in BOOLEAN /\ driver \in Drivers /\ busy \in BOOLEAN
    BY <1>1 DEF IsDevice, DeviceShape, Drivers
  <2>3. service' \in BOOLEAN /\ (service => service')
        /\ (driver = r.service \/ (driver = libusb0 /\ service'))
    BY <1>1, <2>1
  <2> HIDE DEF on, off, driver, busy, r
  <2>4. /\ IsDevice(s) /\ s.service = driver /\ s.upper = r.upper /\ s.lower = r.lower
        /\ s.missed = busy
    BY <1>1, <2>2 DEF IsDevice, DeviceShape
  <2> HIDE DEF s
  <2>5. /\ IsDevice(t) /\ t.service = driver /\ t.upper = r.upper /\ t.lower = r.lower
        /\ IsFresh(i, t) /\ (t = s \/ IsRunning(i, t))
    BY <2>4, RestartedIsDevice DEF Alike
  <2>8. t = s => (busy => IsRunning(i, t))
    BY <2>4 DEF IsRunning
  <2> HIDE DEF t
  <2>6. /\ dev' = [d \in Devices |-> dev'[d]]
        /\ \A d \in Devices : dev'[d] = IF d = i THEN t ELSE dev[d]
        /\ \A d \in Devices : IsDevice(dev'[d])
    BY <2>1, <2>5, DeviceChanges
  <2>7. Shape'
    BY <2>1, <2>3, <2>6 DEF Shape
  <2> QED
    BY <2>1, <2>3, <2>5, <2>6, <2>7, <2>8 DEF r, busy
<1>3. CASE Unplug(i)
  <2> DEFINE off == FALSE
             s == [r EXCEPT !.present = off]
             u == [s EXCEPT !.loaded = {}]
             t == [u EXCEPT !.missed = off]
  <2>1. dev' = [dev EXCEPT ![i].present = off, ![i].loaded = {}, ![i].missed = off]
        /\ UNCHANGED <<uppers, cmd, service, hurt>>
    BY <1>3 DEF Unplug
  <2>2. off \in BOOLEAN /\ {} \in SUBSET Places
    OBVIOUS
  <2>3. dev' = [dev EXCEPT ![i] = t]
    <3> HIDE DEF off
    <3> QED
      BY <2>1 DEF Shape
  <2> HIDE DEF off, r
  <2>4. /\ IsDevice(s) /\ s.service = r.service /\ s.upper = r.upper /\ s.lower = r.lower
        /\ s.present = off
    BY <1>1, <2>2 DEF IsDevice, DeviceShape
  <2> HIDE DEF s
  <2>8. /\ IsDevice(u) /\ u.service = r.service /\ u.upper = r.upper /\ u.lower = r.lower
        /\ u.present = off
    BY <2>2, <2>4 DEF IsDevice, DeviceShape
  <2> HIDE DEF u
  <2>5. /\ IsDevice(t) /\ t.service = r.service /\ t.upper = r.upper /\ t.lower = r.lower
        /\ t.present = off
    BY <2>2, <2>8 DEF IsDevice, DeviceShape
  <2> HIDE DEF t
  <2>6. /\ dev' = [d \in Devices |-> dev'[d]]
        /\ \A d \in Devices : dev'[d] = IF d = i THEN t ELSE dev[d]
        /\ \A d \in Devices : IsDevice(dev'[d])
    BY <2>3, <2>5, DeviceChanges
  <2>7. Shape'
    BY <2>1, <2>6 DEF Shape
  <2> QED
    BY <2>1, <2>5, <2>6, <2>7 DEF r, off, IsFresh, IsRunning
<1> QED
  BY <1>2, <1>3

LEMMA NextSplits ==
    ASSUME Next
    PROVE  \/ \E c \in Commands : Begin(c)
           \/ Moves
           \/ Ends
           \/ stop_libusb_devices \/ start_libusb_devices
           \/ insert_device_filters \/ remove_device_filter
           \/ insert_class_filter \/ remove_class_filter
           \/ restart_all_devices \/ install_inf \/ remove_inf \/ InfRemoved
           \/ \E d \in Devices : Plug(d) \/ Unplug(d)
           \/ Reboot
BY DEF Next, Install, Uninstall, Moves, Ends

LEMMA InitShape == Init => Shape
<1> SUFFICES ASSUME Init PROVE Shape
  OBVIOUS
<1>1. PICK s \in [Devices -> Drivers], low \in BOOLEAN :
         dev = [d \in Devices |->
             [service |-> s[d], upper |-> ForeignFilters[d],
              lower |-> IF low /\ s[d] # libusb0 THEN <<libusb0>> ELSE <<>>,
              present |-> FALSE, enabled |-> TRUE, reinstall |-> FALSE, loaded |-> {},
              missed |-> FALSE]]
  BY DEF Init
<1>2. ASSUME NEW d \in Devices PROVE IsDevice(dev[d])
  <2> DEFINE up == ForeignFilters[d]
             below == IF low /\ s[d] # libusb0 THEN <<libusb0>> ELSE <<>>
             on == TRUE
             off == FALSE
             r == [service |-> s[d], upper |-> up, lower |-> below,
                   present |-> off, enabled |-> on, reinstall |-> off, loaded |-> {},
                   missed |-> off]
  <2>1. dev[d] = r
    BY <1>1
  <2>2. on \in BOOLEAN /\ off \in BOOLEAN /\ {} \in SUBSET Places /\ s[d] \in Drivers
    OBVIOUS
  <2> HIDE DEF on, off, up, below
  <2>3. r \in DeviceShape({up, below})
    BY <2>2 DEF DeviceShape
  <2> HIDE DEF r
  <2> QED
    BY <2>1, <2>3, ShapeOfDevice
<1>3. dev = [d \in Devices |-> dev[d]]
  BY <1>1
<1>4. uppers = [k \in Classes |-> uppers[k]]
  <2>1. PICK before, behind \in SUBSET Classes :
         uppers = [k \in Classes |->
              IF k \in before THEN <<libusb0>> \o ForeignUppers[k]
              ELSE IF k \in behind THEN mz_insert(ForeignUppers[k]) ELSE ForeignUppers[k]]
    BY DEF Init
  <2> QED
    BY <2>1
<1>5. cmd \in CommandShape
  BY NoCommandIsShaped DEF Init
<1>6. service \in BOOLEAN /\ hurt \in BOOLEAN
  BY DEF Init
<1> QED
  BY <1>2, <1>3, <1>4, <1>5, <1>6 DEF Shape

LEMMA ShapeNext == Shape /\ [Next]_vars => Shape'
<1> SUFFICES ASSUME Shape, [Next]_vars PROVE Shape'
  OBVIOUS
<1>1. CASE Next
  BY <1>1, NextSplits, BeginEffect, MovesEffect, EndsEffect, StopEffect, StartEffect,
     InsertDeviceEffect, RemoveDeviceEffect, ClassEffect, RestartAllEffect, InstallInfEffect,
     RemoveInfEffect, InfRemovedEffect, PlugEffect, RebootEffect
<1>2. CASE UNCHANGED vars
  BY <1>2 DEF vars, Shape
<1> QED
  BY <1>1, <1>2

(***************************************************************************)
(* What runs is what the registry says.                                    *)
(***************************************************************************)
\* A change is still to be followed by the restart of everything, or the command
\* has failed and will say so.
Pending ==
    \/ cmd.pc = "done" /\ cmd.ret # 0
    \/ /\ cmd.modified
       /\ cmd.pc \in {"insert_classes", "remove_classes"} \/ (cmd.pc = "inf" /\ cmd.c.mode = "remove")
\* No command names both classes and devices.
Separate(c) == c.patterns # {} \/ c.allDevices => c.classes = {} /\ ~Switches(c)
SeparateCommands == \A c \in Commands : Separate(c)
Loaded ==
    /\ ~hurt => (\A d \in Devices : Fresh(d)) \/ Pending
    /\ cmd.keys = {} \/ (cmd.c.patterns = {} /\ ~cmd.c.allDevices)

LEMMA RunningIsFresh ==
    \A d \in Devices : IsRunning(d, dev'[d]) => IsFresh(d, dev'[d])
BY DEF IsRunning, IsFresh

LEMMA LoadedStays ==
    ASSUME Loaded, UNCHANGED <<uppers, hurt>>, ~Pending \/ Pending',
           \A d \in Devices : dev'[d] = dev[d] \/ IsFresh(d, dev'[d])
    PROVE  ~hurt' => (\A d \in Devices : Fresh(d)') \/ Pending'
<1> SUFFICES ASSUME ~hurt, ~Pending', NEW d \in Devices PROVE Fresh(d)'
  OBVIOUS
<1>1. Fresh(d)
  BY DEF Loaded
<1> QED
  BY <1>1, FreshNext DEF Fresh

LEMMA LoadedNext ==
    ASSUME SeparateCommands
    PROVE  Loaded /\ Shape /\ [Next]_vars => Loaded'
<1> SUFFICES ASSUME Loaded, Shape, [Next]_vars PROVE Loaded'
  OBVIOUS
<1> DEFINE Keys == cmd.keys = {} \/ (cmd.c.patterns = {} /\ ~cmd.c.allDevices)
           Now == ~hurt => (\A d \in Devices : Fresh(d)) \/ Pending
<1>0. Keys /\ Now
  BY DEF Loaded
<1>1. ASSUME NEW c \in Commands, Begin(c) PROVE Loaded'
  <2>1. ClassKeys(c) = {} \/ (c.patterns = {} /\ ~c.allDevices)
    BY DEF SeparateCommands, Separate, ClassKeys, named_class_keys, get_usb_class_keys,
           get_all_class_keys, IsDefault
  <2>2. Keys'
    BY <1>1, <2>1, BeginEffect
  <2>3. UNCHANGED <<uppers, dev, hurt>> /\ ~Pending
    BY <1>1, BeginEffect DEF Pending
  <2> QED
    BY <2>2, <2>3, LoadedStays DEF Loaded
<1>2. CASE Moves
  <2>1. /\ UNCHANGED <<uppers, dev, hurt>> /\ Keys'
        /\ ~Pending \/ Pending'
    BY <1>0, <1>2, MovesEffect DEF Pending
  <2> QED
    BY <2>1, LoadedStays DEF Loaded
<1>3. CASE Ends
  <2>1. Keys'
    BY <1>0, <1>3, EndsEffect, NoCommandIsShaped
  <2>2. UNCHANGED <<uppers, dev>> /\ (hurt' \/ (UNCHANGED hurt /\ (~Pending \/ Pending')))
    <3>1. hurt \in BOOLEAN /\ hurt' \in BOOLEAN
      BY <1>3, EndsEffect DEF Shape
    <3> QED
      BY <1>3, <3>1, EndsEffect DEF Pending
  <2> QED
    BY <2>1, <2>2, LoadedStays DEF Loaded
<1>4. CASE stop_libusb_devices
  <2>1. /\ UNCHANGED <<uppers, hurt>> /\ Keys' /\ ~Pending
        /\ \A d \in Devices :
             dev'[d] = dev[d] \/ ~dev'[d].enabled \/ (dev'[d].present => dev'[d].missed)
    BY <1>0, <1>4, StopEffect DEF Pending, SameRest
  <2>2. \A d \in Devices : dev'[d] = dev[d] \/ IsFresh(d, dev'[d])
    BY <2>1 DEF IsFresh
  <2> QED
    BY <2>1, <2>2, LoadedStays DEF Loaded
<1>5. CASE start_libusb_devices
  <2>1. /\ UNCHANGED <<uppers, hurt>> /\ Keys' /\ ~Pending
        /\ \A d \in Devices : dev'[d] = dev[d] \/ IsFresh(d, dev'[d])
    BY <1>0, <1>5, RunningIsFresh, StartEffect DEF Pending, SameRest
  <2> QED
    BY <2>1, LoadedStays DEF Loaded
<1>6. CASE insert_device_filters
  <2>1. /\ UNCHANGED <<uppers, hurt>> /\ Keys' /\ ~Pending
        /\ \A d \in Devices :
             \/ dev'[d] = dev[d]
             \/ match_filter_device(d) /\ (cmd.keys = {} => IsFresh(d, dev'[d]))
    BY <1>0, <1>6, InsertDeviceEffect DEF Pending, SameRest
  <2>2. \A d \in Devices : match_filter_device(d) => cmd.c.patterns # {}
    BY DEF match_filter_device
  <2>3. \A d \in Devices : dev'[d] = dev[d] \/ IsFresh(d, dev'[d])
    BY <1>0, <2>1, <2>2
  <2> QED
    BY <2>1, <2>3, LoadedStays DEF Loaded
<1>7. CASE remove_device_filter
  <2>1. /\ UNCHANGED <<uppers, hurt>> /\ Keys' /\ ~Pending
        /\ \A d \in Devices :
             \/ dev'[d] = dev[d]
             \/ /\ cmd.c.allDevices \/ match_filter_device(d)
                /\ cmd.keys = {} => IsFresh(d, dev'[d])
    BY <1>0, <1>7, RemoveDeviceEffect DEF Pending, SameRest
  <2>2. \A d \in Devices : match_filter_device(d) => cmd.c.patterns # {}
    BY DEF match_filter_device
  <2>3. \A d \in Devices : dev'[d] = dev[d] \/ IsFresh(d, dev'[d])
    BY <1>0, <2>1, <2>2
  <2> QED
    BY <2>1, <2>3, LoadedStays DEF Loaded
<1>8. CASE insert_class_filter \/ remove_class_filter
  <2>1. /\ UNCHANGED <<dev, hurt>> /\ Keys' /\ (UNCHANGED uppers \/ cmd'.modified)
        /\ cmd.modified => cmd'.modified
        /\ cmd'.pc \in {"insert_classes", "remove_classes"} /\ cmd'.pc = cmd.pc
    BY <1>0, <1>8, ClassEffect DEF SameRest
  <2>2. CASE cmd'.modified
    BY <2>1, <2>2 DEF Loaded, Pending
  <2>3. CASE ~cmd'.modified
    BY <2>1, <2>3, LoadedStays DEF Loaded, Pending
  <2> QED
    BY <2>2, <2>3
<1>9. CASE restart_all_devices
  <2>1. /\ UNCHANGED <<uppers, hurt>> /\ Keys' /\ cmd.pc # "done"
        /\ \A d \in Devices : dev'[d] = dev[d] \/ IsFresh(d, dev'[d])
        /\ cmd.modified => \A d \in Devices : IsFresh(d, dev'[d])
    BY <1>0, <1>9, RunningIsFresh, RestartAllEffect DEF SameRest
  <2>2. CASE cmd.modified
    BY <2>1, <2>2, FreshNext DEF Loaded
  <2>3. CASE ~cmd.modified
    BY <2>1, <2>3, LoadedStays DEF Loaded, Pending
  <2> QED
    BY <2>2, <2>3
<1>10. CASE install_inf
  <2>1. /\ UNCHANGED <<uppers, hurt>> /\ Keys' /\ ~Pending
        /\ \A d \in Devices : dev'[d] = dev[d] \/ IsFresh(d, dev'[d])
    BY <1>0, <1>10, InstallInfEffect DEF Pending, SameRest
  <2> QED
    BY <2>1, LoadedStays DEF Loaded
<1>11. CASE remove_inf
  <2>1. /\ UNCHANGED <<uppers, hurt>> /\ Keys' /\ (~Pending \/ Pending')
        /\ (\A d \in Devices : dev'[d] = dev[d] \/ IsFresh(d, dev'[d])) \/ Pending'
    BY <1>0, <1>11, RemoveInfEffect DEF Pending, SameRest
  <2> QED
    BY <2>1, LoadedStays DEF Loaded
<1>12. CASE InfRemoved
  <2>1. /\ UNCHANGED <<uppers, hurt>> /\ Keys' /\ cmd.pc # "done"
        /\ \A d \in Devices : dev'[d] = dev[d] \/ IsFresh(d, dev'[d])
        /\ cmd.modified => \A d \in Devices : IsFresh(d, dev'[d])
    BY <1>0, <1>12, RunningIsFresh, InfRemovedEffect DEF SameRest
  <2>2. CASE cmd.modified
    BY <2>1, <2>2, FreshNext DEF Loaded
  <2>3. CASE ~cmd.modified
    BY <2>1, <2>3, LoadedStays DEF Loaded, Pending
  <2> QED
    BY <2>2, <2>3
<1>13. ASSUME NEW i \in Devices, Plug(i) \/ Unplug(i) PROVE Loaded'
  <2>1. /\ UNCHANGED <<uppers, hurt>> /\ Keys' /\ (~Pending \/ Pending')
        /\ \A d \in Devices : dev'[d] = dev[d] \/ IsFresh(d, dev'[d])
    BY <1>0, <1>13, PlugEffect DEF Pending
  <2> QED
    BY <2>1, LoadedStays DEF Loaded
<1>14. CASE Reboot
  <2>1. UNCHANGED uppers /\ Keys' /\ \A d \in Devices : IsFresh(d, dev'[d])
    BY <1>0, <1>14, RebootEffect
  <2> QED
    BY <2>1, FreshNext DEF Loaded
<1>15. CASE UNCHANGED vars
  <2>1. UNCHANGED <<uppers, dev, hurt, cmd>>
    BY <1>15 DEF vars
  <2>2. Keys' /\ (~Pending \/ Pending')
    BY <1>0, <2>1 DEF Pending
  <2> QED
    BY <2>1, <2>2, LoadedStays DEF Loaded
<1> QED
  BY <1>1, <1>2, <1>3, <1>4, <1>5, <1>6, <1>7, <1>8, <1>9, <1>10, <1>11, <1>12, <1>13,
     <1>14, <1>15, NextSplits

LEMMA InitLoaded == Init => Loaded
<1> SUFFICES ASSUME Init PROVE Loaded
  OBVIOUS
<1>1. \A d \in Devices : ~dev[d].present
  BY DEF Init
<1>2. cmd.keys = {}
  BY NoCommandIsShaped DEF Init
<1> QED
  BY <1>1, <1>2 DEF Loaded, Fresh, IsFresh

\* Between two commands, if none of them was killed or returned an error since the
\* system started, every device that runs has the filters in its stack that the
\* registry names, unless its restart itself has failed: no change goes without a
\* restart.  A command must not name both classes and devices: with a class in the
\* command a device is not restarted at once, and not later either if the class does
\* not change.
THEOREM LoadedIsRegistered ==
    ASSUME SeparateCommands
    PROVE  Spec => []LoadedMatchesRegistry
<1>1. Init => Shape /\ Loaded
  BY InitShape, InitLoaded
<1>2. Shape /\ Loaded /\ [Next]_vars => Shape' /\ Loaded'
  BY ShapeNext, LoadedNext
<1>3. Loaded => LoadedMatchesRegistry
  BY DEF Loaded, LoadedMatchesRegistry, Pending, Fresh, IsFresh
<1> QED
  BY <1>1, <1>2, <1>3, PTL DEF Spec

(***************************************************************************)
(* An installation starts what was left stopped.                           *)
(***************************************************************************)
\* A device of libusb0 that the loop over them has stopped, and one that the loop
\* over them has started.
IsHalted(r) ==
    r.present /\ r.service = libusb0 /\ ~r.missed => ~r.enabled \/ "service" \in r.loaded
IsRepaired(r) ==
    r.present /\ r.service = libusb0 /\ ~r.missed => r.enabled /\ "service" \in r.loaded
Halted(d) == IsHalted(dev[d])
Repaired(d) == IsRepaired(dev[d])

Stopping == \A d \in Devices : d <= cmd.i \/ d \notin cmd.listed => Halted(d)
Starting == \A d \in Devices : Halted(d) /\ (d <= cmd.i \/ d \notin cmd.listed => Repaired(d))
AllHalted == \A d \in Devices : Halted(d)
AllRepaired == \A d \in Devices : Repaired(d)
Filtering ==
    \/ cmd.pc \in {"insert_devices", "insert_classes"}
    \/ cmd.pc = "done" /\ cmd.c.mode = "install" /\ cmd.ret = 0

Repairs ==
    /\ cmd.pc = "stop" => Stopping
    /\ cmd.pc = "service" => AllHalted
    /\ cmd.pc = "start" => Starting
    /\ Filtering => AllRepaired
    /\ cmd.pc \in {"old", "remove_devices", "remove_classes"} => cmd.c.mode = "remove"

LEMMA RunningIsRepaired ==
    ASSUME NEW d \in Devices, IsRunning(d, dev'[d])
    PROVE  Repaired(d)'
<1>1. dev'[d].service = libusb0 => "service" \in InEffect(d, dev'[d])
  BY DEF InEffect
<1> QED
  BY <1>1 DEF IsRunning, Repaired, IsRepaired

LEMMA RepairedIsHalted ==
    ASSUME NEW d \in Devices
    PROVE  (Repaired(d) => Halted(d)) /\ (Repaired(d)' => Halted(d)')
BY DEF Repaired, Halted, IsRepaired, IsHalted

\* Where each device is as it was or runs, and the command goes on, all stays.
LEMMA RepairsStays ==
    ASSUME Repairs, cmd.pc # "idle", UNCHANGED <<cmd>>,
           \A d \in Devices : dev'[d] = dev[d] \/ IsRunning(d, dev'[d])
    PROVE  Repairs'
<1>1. \A d \in Devices : (Repaired(d) => Repaired(d)') /\ (Halted(d) => Halted(d)')
  <2> SUFFICES ASSUME NEW d \in Devices
               PROVE  (Repaired(d) => Repaired(d)') /\ (Halted(d) => Halted(d)')
    OBVIOUS
  <2>1. CASE dev'[d] = dev[d]
    BY <2>1 DEF Repaired, Halted
  <2>2. CASE IsRunning(d, dev'[d])
    BY <2>2, RunningIsRepaired, RepairedIsHalted
  <2> QED
    BY <2>1, <2>2
<1> QED
  BY <1>1 DEF Repairs, Stopping, Starting, AllHalted, AllRepaired, Filtering

LEMMA RepairsNext == Repairs /\ Shape /\ [Next]_vars => Repairs'
<1> SUFFICES ASSUME Repairs, Shape, [Next]_vars PROVE Repairs'
  OBVIOUS
<1>0. NumDevices \in Nat /\ \A d \in Devices : d \in Nat /\ ~(d <= 0) /\ d <= NumDevices
  BY SizesAssumption DEF Devices
\* The loops begin with what is listed; what is not listed is not there.
<1>a. ASSUME UNCHANGED dev, cmd'.i = 0, ListsPresent(cmd'.listed)
      PROVE  Stopping' /\ (AllHalted => Starting')
  <2>1. ASSUME NEW d \in Devices, d \notin cmd'.listed PROVE Halted(d)' /\ Repaired(d)'
    BY <1>a, <2>1 DEF ListsPresent, Halted, Repaired, IsHalted, IsRepaired
  <2>2. \A d \in Devices : Halted(d) => Halted(d)'
    BY <1>a DEF Halted
  <2> QED
    BY <1>0, <1>a, <2>1, <2>2 DEF Stopping, Starting, AllHalted
<1>1. ASSUME NEW c \in Commands, Begin(c) PROVE Repairs'
  BY <1>1, <1>a, BeginEffect DEF Repairs, Filtering
<1>2. CASE Moves
  <2>1. UNCHANGED dev /\ cmd'.i = 0 /\ cmd'.c = cmd.c
        /\ (cmd'.pc \in {"stop", "start"} => ListsPresent(cmd'.listed))
    BY <1>2, MovesEffect
  <2>2. cmd'.pc \in {"stop", "start"} => Stopping' /\ (AllHalted => Starting')
    BY <1>a, <2>1
  <2>3. (AllHalted => AllHalted') /\ (AllRepaired => AllRepaired')
    BY <2>1 DEF AllHalted, AllRepaired, Halted, Repaired
  <2>4. CASE cmd.pc = "stop"
    <3>1. cmd'.pc \in {"service", "start"} /\ cmd.i = NumDevices
      BY <1>2, <2>4, MovesEffect
    <3>2. AllHalted
      BY <1>0, <2>4, <3>1 DEF Repairs, Stopping, AllHalted
    <3> QED
      BY <2>2, <2>3, <3>1, <3>2 DEF Repairs, Filtering
  <2>5. CASE cmd.pc = "service"
    <3>1. cmd'.pc = "start" /\ AllHalted
      BY <1>2, <2>5, MovesEffect DEF Repairs
    <3> QED
      BY <2>2, <3>1 DEF Repairs, Filtering
  <2>6. CASE cmd.pc = "start"
    <3>1. cmd'.pc \in {"insert_devices", "done"} /\ cmd.i = NumDevices
      BY <1>2, <2>6, MovesEffect
    <3>2. AllRepaired
      BY <1>0, <2>6, <3>1 DEF Repairs, Starting, AllRepaired
    <3> QED
      BY <2>3, <3>1, <3>2 DEF Repairs, Filtering
  <2>7. CASE cmd.pc = "insert_devices"
    <3>1. cmd'.pc = "insert_classes" /\ AllRepaired
      BY <1>2, <2>7, MovesEffect DEF Repairs, Filtering
    <3> QED
      BY <2>3, <3>1 DEF Repairs, Filtering
  <2>8. CASE cmd.pc \in {"old", "remove_devices"}
    <3>1. cmd'.pc \in {"remove_devices", "remove_classes"} /\ cmd.c.mode = "remove"
      BY <1>2, <2>8, MovesEffect DEF Repairs
    <3> QED
      BY <2>1, <3>1 DEF Repairs, Filtering
  <2>9. CASE cmd.pc = "inf"
    <3>1. cmd'.pc = "stop"
      BY <1>2, <2>9, MovesEffect
    <3> QED
      BY <2>2, <3>1 DEF Repairs, Filtering
  <2> QED
    BY <1>2, <2>4, <2>5, <2>6, <2>7, <2>8, <2>9, MovesEffect
<1>3. CASE Ends
  <2>1. UNCHANGED dev
    BY <1>3, EndsEffect
  <2>2. CASE cmd' = cmd
    <3>1. \A d \in Devices : (Repaired(d)' <=> Repaired(d)) /\ (Halted(d)' <=> Halted(d))
      BY <2>1 DEF Repaired, Halted
    <3> QED
      BY <2>2, <3>1 DEF Repairs, Stopping, Starting, AllHalted, AllRepaired, Filtering
  <2>3. CASE cmd' # cmd
    <3>1. (cmd'.pc = "done" /\ cmd'.ret = -1) \/ cmd'.pc = "idle"
      BY <1>3, <2>3, EndsEffect, NoCommandIsShaped
    <3> QED
      BY <3>1 DEF Repairs, Filtering
  <2> QED
    BY <2>2, <2>3
<1>4. CASE stop_libusb_devices
  <2>1. /\ cmd.pc = "stop" /\ cmd'.pc = "stop" /\ cmd'.i = cmd.i + 1 /\ cmd.i \in Nat
        /\ cmd'.listed = cmd.listed
    BY <1>4, StopEffect
  <2>2. ASSUME NEW d \in Devices, d <= cmd'.i \/ d \notin cmd'.listed PROVE Halted(d)'
    <3>1. CASE ~dev'[d].enabled \/ (dev'[d].present => dev'[d].missed)
      BY <3>1 DEF Halted, IsHalted
    <3>2. CASE dev'[d] = dev[d] /\ (d <= cmd.i \/ d \notin cmd.listed)
      BY <2>1, <3>2 DEF Repairs, Stopping, Halted
    <3>3. CASE dev'[d] = dev[d] /\ d = cmd.i + 1 /\ dev[d].service # libusb0
      BY <3>3 DEF Halted, IsHalted
    <3>4. \/ dev'[d] = dev[d] /\ (d = cmd.i + 1 => d \notin cmd.listed \/ dev[d].service # libusb0)
          \/ ~dev'[d].enabled
          \/ dev'[d].present => dev'[d].missed
      BY <1>4, StopEffect
    <3>5. d <= cmd.i \/ d = cmd.i + 1 \/ d \notin cmd.listed
      BY <1>0, <2>1, <2>2
    <3> QED
      BY <3>1, <3>2, <3>3, <3>4, <3>5
  <2> QED
    BY <2>1, <2>2 DEF Repairs, Stopping, Filtering
<1>5. CASE start_libusb_devices
  <2>1. /\ cmd.pc = "start" /\ cmd'.pc = "start" /\ cmd'.i = cmd.i + 1 /\ cmd.i \in Nat
        /\ cmd'.listed = cmd.listed
    BY <1>5, StartEffect
  <2>2. ASSUME NEW d \in Devices
        PROVE  Halted(d)' /\ (d <= cmd'.i \/ d \notin cmd'.listed => Repaired(d)')
    <3>1. CASE IsRunning(d, dev'[d])
      BY <3>1, RunningIsRepaired, RepairedIsHalted
    <3>2. CASE dev'[d] = dev[d] /\ ~IsRunning(d, dev'[d])
      <4>1. Halted(d) /\ Halted(d)'
        BY <2>1, <3>2 DEF Repairs, Starting, Halted
      <4>2. CASE d <= cmd.i \/ d \notin cmd.listed
        BY <2>1, <3>2, <4>1, <4>2 DEF Repairs, Starting, Repaired
      <4>3. CASE d = cmd.i + 1 /\ d \in cmd.listed
        <5>1. dev[d].service = libusb0 => dev'[d].enabled
          BY <1>5, <3>2, <4>3, StartEffect
        <5>2. Repaired(d)'
          BY <3>2, <4>1, <5>1 DEF Halted, Repaired, IsHalted, IsRepaired
        <5> QED
          BY <4>1, <5>2
      <4>4. CASE d > cmd.i + 1 /\ d \in cmd.listed
        BY <1>0, <2>1, <4>1, <4>4
      <4> QED
        BY <1>0, <2>1, <4>2, <4>3, <4>4
    <3>3. dev'[d] = dev[d] \/ IsRunning(d, dev'[d])
      BY <1>5, StartEffect
    <3> QED
      BY <3>1, <3>2, <3>3
  <2> QED
    BY <2>1, <2>2 DEF Repairs, Starting, Filtering
<1>6. CASE insert_device_filters
  <2>1. ASSUME NEW d \in Devices PROVE Repaired(d) => Repaired(d)'
    <3>1. dev'[d] = dev[d] \/ (dev'[d].service = dev[d].service /\ dev[d].service # libusb0)
      BY <1>6, InsertDeviceEffect
    <3> QED
      BY <3>1 DEF Repaired, IsRepaired
  <2>2. cmd.pc = "insert_devices" /\ cmd'.pc = "insert_devices"
    BY <1>6, InsertDeviceEffect
  <2> QED
    BY <2>1, <2>2 DEF Repairs, Filtering, AllRepaired
<1>7. CASE remove_device_filter
  BY <1>7, RemoveDeviceEffect DEF SameRest, Repairs, Filtering
<1>8. CASE insert_class_filter \/ remove_class_filter
  <2>1. AllRepaired => AllRepaired'
    BY <1>8, ClassEffect DEF Repaired, AllRepaired
  <2>2. cmd.pc \in {"insert_classes", "remove_classes"} /\ cmd'.pc = cmd.pc /\ cmd'.c = cmd.c
    BY <1>8, ClassEffect DEF SameRest
  <2> QED
    BY <2>1, <2>2 DEF Repairs, Filtering
<1>9. CASE restart_all_devices
  <2>1. cmd.pc \in {"insert_classes", "remove_classes"}
        /\ cmd'.pc \in {"inf", "done"} /\ cmd'.c = cmd.c
    BY <1>9, RestartAllEffect DEF SameRest
  <2>2. ASSUME NEW d \in Devices PROVE Repaired(d) => Repaired(d)'
    <3>1. dev'[d] = dev[d] \/ IsRunning(d, dev'[d])
      BY <1>9, RestartAllEffect
    <3> QED
      BY <3>1, RunningIsRepaired DEF Repaired
  <2> QED
    BY <2>1, <2>2 DEF Repairs, Filtering, AllRepaired
<1>10. CASE install_inf
  BY <1>10, InstallInfEffect DEF Repairs, Filtering
<1>11. CASE remove_inf
  BY <1>11, RemoveInfEffect DEF Repairs, Filtering
<1>12. CASE InfRemoved
  BY <1>12, InfRemovedEffect DEF SameRest, Repairs, Filtering
<1>13. ASSUME NEW i \in Devices, Plug(i) \/ Unplug(i) PROVE Repairs'
  <2>1. CASE cmd.pc = "idle"
    BY <1>13, <2>1, PlugEffect DEF Repairs, Filtering
  <2>2. CASE cmd.pc # "idle"
    BY <1>13, <2>2, PlugEffect, RepairsStays
  <2> QED
    BY <2>1, <2>2
<1>14. CASE Reboot
  BY <1>14, RebootEffect DEF Repairs, Filtering
<1>15. CASE UNCHANGED vars
  BY <1>15 DEF vars, Repairs, Stopping, Starting, AllHalted, AllRepaired, Filtering, Halted,
     Repaired
<1> QED
  BY <1>1, <1>2, <1>3, <1>4, <1>5, <1>6, <1>7, <1>8, <1>9, <1>10, <1>11, <1>12, <1>13,
     <1>14, <1>15, NextSplits

\* An installation that returns 0 leaves every device of libusb0 that is there
\* enabled and running, those too that an earlier command has left stopped, in
\* whatever place that was killed: but a device whose change of state has failed,
\* or that came, disabled, when the devices to start were listed, may stay as it is.
THEOREM InstallationRepairs == Spec => []InstallRepairs
<1>1. Init => Shape /\ Repairs
  <2>1. Init => Repairs
    BY NoCommandIsShaped DEF Init, Repairs, Filtering
  <2> QED
    BY <2>1, InitShape
<1>2. Shape /\ Repairs /\ [Next]_vars => Shape' /\ Repairs'
  BY ShapeNext, RepairsNext
<1>3. Repairs => InstallRepairs
  BY DEF Repairs, InstallRepairs, Filtering, AllRepaired, Repaired, IsRepaired,
     is_service_libusb
<1> QED
  BY <1>1, <1>2, <1>3, PTL DEF Spec

(***************************************************************************)
(* Nothing depends on libusb0 before its service exists.                   *)
(***************************************************************************)
Depends ==
    \/ \E k \in Classes : mz_find(uppers[k])
    \/ \E d \in Devices :
         dev[d].service = libusb0 \/ mz_find(dev[d].upper) \/ mz_find(dev[d].lower)

LEMMA UsesIsDepends == UsesService <=> Depends
<1>1. \A d \in Devices : ClassOf[d] \in Classes
  BY SizesAssumption
<1>2. ASSUME NEW d \in Devices
      PROVE  /\ InEffect(d, dev[d]) # {} =>
                  \/ dev[d].service = libusb0 \/ mz_find(dev[d].upper) \/ mz_find(dev[d].lower)
                  \/ mz_find(uppers[ClassOf[d]])
             /\ dev[d].service = libusb0 \/ mz_find(dev[d].upper) \/ mz_find(dev[d].lower)
                  => InEffect(d, dev[d]) # {}
  BY DEF InEffect
<1> QED
  BY <1>1, <1>2 DEF UsesService, Depends

LEMMA NothingToRemove ==
    ASSUME NEW list, ~mz_find(list)
    PROVE  Removed(list) = list
<1>1. ~mz_find(<<>>)
  BY DEF mz_find, Contains
<1> QED
  BY <1>1 DEF Removed, Buffer

LEMMA EmptyDepends == ~mz_find(<<>>)
BY DEF mz_find, Contains

ServiceFirst ==
    /\ Depends => service
    /\ cmd.pc \in {"insert_devices", "insert_classes"} => service
    /\ cmd.pc = "start" /\ cmd.stage = "service" => service

\* Without a service what changes takes nothing from libusb0 but away.
LEMMA DependsLess ==
    ASSUME ServiceFirst, ~service, uppers' = uppers,
           \A d \in Devices :
             \/ dev'[d].service \in {dev[d].service, "other"} \/ dev'[d].service # libusb0
             \/ service',
           \A d \in Devices :
             /\ dev'[d].upper \in {dev[d].upper, Removed(dev[d].upper), <<>>}
             /\ dev'[d].lower \in {dev[d].lower, Removed(dev[d].lower), <<>>}
    PROVE  Depends' => service'
<1>1. ~Depends
  BY DEF ServiceFirst
<1>2. \A k \in Classes : ~mz_find(uppers[k])
  BY <1>1 DEF Depends
<1>3. ASSUME NEW d \in Devices
      PROVE  /\ dev[d].service # libusb0 /\ ~mz_find(dev'[d].upper) /\ ~mz_find(dev'[d].lower)
  BY <1>1, NothingToRemove, EmptyDepends DEF Depends
<1>4. \A d \in Devices : dev'[d].service = libusb0 => service'
  BY <1>3 DEF libusb0
<1> QED
  BY <1>2, <1>3, <1>4 DEF Depends, mz_find

LEMMA ServiceFirstNext ==
    ASSUME "CreateFails" \notin Env
    PROVE  ServiceFirst /\ Shape /\ [Next]_vars => ServiceFirst'
<1> SUFFICES ASSUME ServiceFirst, Shape, [Next]_vars PROVE ServiceFirst'
  OBVIOUS
<1>0. service \in BOOLEAN
  BY DEF Shape
<1>1. ASSUME NEW c \in Commands, Begin(c) PROVE ServiceFirst'
  BY <1>1, BeginEffect DEF ServiceFirst, Depends
<1>2. CASE Moves
  <2>1. UNCHANGED <<uppers, dev>> /\ (service => service')
    BY <1>2, MovesEffect
  <2>2. Depends' => service'
    BY <2>1 DEF ServiceFirst, Depends
  <2>3. CASE cmd.pc = "service"
    BY <1>2, <2>2, <2>3, MovesEffect DEF ServiceFirst
  <2>4. CASE cmd.pc # "service"
    BY <1>2, <2>2, <2>4, MovesEffect DEF ServiceFirst
  <2> QED
    BY <2>3, <2>4
<1>3. CASE Ends
  <2>1. Depends' => service'
    BY <1>3, EndsEffect DEF ServiceFirst, Depends
  <2> QED
    BY <1>3, <2>1, EndsEffect, NoCommandIsShaped DEF ServiceFirst
<1>4. CASE service
  <2>1. service \in BOOLEAN /\ service' \in BOOLEAN
    BY ShapeNext DEF Shape
  <2>2. service'
    BY <1>1, <1>2, <1>3, <1>4, <2>1, NextSplits, BeginEffect, MovesEffect, EndsEffect, StopEffect,
       StartEffect, InsertDeviceEffect, RemoveDeviceEffect, ClassEffect, RestartAllEffect,
       InstallInfEffect, RemoveInfEffect, InfRemovedEffect, PlugEffect, RebootEffect
    DEF vars
  <2> QED
    BY <2>2 DEF ServiceFirst
<1>5. CASE ~service
  <2> USE <1>5
  <2>1. cmd.pc \notin {"insert_devices", "insert_classes"}
        /\ ~(cmd.pc = "start" /\ cmd.stage = "service")
    BY DEF ServiceFirst
  <2>2. ASSUME cmd'.pc \notin {"insert_devices", "insert_classes"},
               ~(cmd'.pc = "start" /\ cmd'.stage = "service"), Depends' => service'
        PROVE  ServiceFirst'
    BY <2>2 DEF ServiceFirst
  <2>3. CASE stop_libusb_devices
    <3>1. Depends' => service'
      <4>1. UNCHANGED uppers /\ \A d \in Devices : dev'[d] = dev[d] \/ Alike(dev[d], dev'[d])
        BY <2>3, StopEffect
      <4> QED
        BY <4>1, DependsLess DEF Alike
    <3> QED
      BY <2>2, <2>3, <3>1, StopEffect
  <2>4. CASE start_libusb_devices
    <3>1. UNCHANGED uppers /\ \A d \in Devices : Alike(dev[d], dev'[d])
      BY <2>4, StartEffect
    <3>2. Depends' => service'
      BY <3>1, DependsLess DEF Alike
    <3> QED
      BY <2>1, <2>2, <2>4, <3>2, StartEffect DEF SameRest
  <2>5. CASE insert_device_filters
    BY <2>1, <2>5, InsertDeviceEffect
  <2>6. CASE remove_device_filter
    <3>1. UNCHANGED uppers
          /\ \A d \in Devices :
               /\ dev'[d].service = dev[d].service
               /\ dev'[d].upper \in {dev[d].upper, Removed(dev[d].upper)}
               /\ dev'[d].lower \in {dev[d].lower, Removed(dev[d].lower)}
      BY <2>6, RemoveDeviceEffect
    <3>2. Depends' => service'
      BY <3>1, DependsLess
    <3> QED
      BY <2>2, <2>6, <3>2, RemoveDeviceEffect
  <2>7. CASE insert_class_filter \/ remove_class_filter
    <3>1. cmd.pc = "remove_classes" /\ cmd'.pc = cmd.pc /\ UNCHANGED dev
      BY <2>1, <2>7, ClassEffect
    <3>2. \A k \in Classes : uppers'[k] = uppers[k] \/ uppers'[k] = Removed(uppers[k])
      BY <2>7, <3>1, ClassEffect
    <3>3. ~Depends
      BY DEF ServiceFirst
    <3>4. \A k \in Classes : ~mz_find(uppers'[k])
      BY <3>2, <3>3, NothingToRemove DEF Depends
    <3>5. ~Depends'
      BY <3>1, <3>3, <3>4 DEF Depends, mz_find
    <3> QED
      BY <2>2, <3>1, <3>5
  <2>8. CASE restart_all_devices
    <3>1. UNCHANGED uppers /\ \A d \in Devices : Alike(dev[d], dev'[d])
      BY <2>8, RestartAllEffect
    <3>2. Depends' => service'
      BY <3>1, DependsLess DEF Alike
    <3> QED
      BY <2>2, <2>8, <3>2, RestartAllEffect
  <2>9. CASE install_inf
    <3>1. UNCHANGED uppers
          /\ \A d \in Devices :
               /\ dev'[d].upper = dev[d].upper /\ dev'[d].lower = dev[d].lower
               /\ dev'[d].service = dev[d].service \/ service'
      BY <2>9, InstallInfEffect
    <3>2. Depends' => service'
      BY <3>1, DependsLess
    <3> QED
      BY <2>2, <2>9, <3>2, InstallInfEffect
  <2>10. CASE remove_inf
    <3>1. UNCHANGED <<uppers, service>>
          /\ \A d \in Devices :
               /\ dev'[d].upper \in {dev[d].upper, <<>>} /\ dev'[d].lower \in {dev[d].lower, <<>>}
               /\ dev'[d].service \in {dev[d].service, "other"} \/ dev'[d].service # libusb0
      BY <2>10, RemoveInfEffect
    <3>2. Depends' => service'
      BY <3>1, DependsLess
    <3> QED
      BY <2>2, <2>10, <3>2, RemoveInfEffect
  <2>11. CASE InfRemoved
    <3>1. UNCHANGED uppers /\ \A d \in Devices : Alike(dev[d], dev'[d])
      BY <2>11, InfRemovedEffect
    <3>2. Depends' => service'
      BY <3>1, DependsLess DEF Alike
    <3> QED
      BY <2>2, <2>11, <3>2, InfRemovedEffect
  <2>12. ASSUME NEW i \in Devices, Plug(i) \/ Unplug(i) PROVE ServiceFirst'
    <3>1. UNCHANGED uppers
          /\ \A d \in Devices :
               /\ dev'[d].upper = dev[d].upper /\ dev'[d].lower = dev[d].lower
               /\ dev'[d].service = dev[d].service \/ service'
      BY <2>12, PlugEffect
    <3>2. Depends' => service'
      BY <3>1, DependsLess
    <3> QED
      BY <2>2, <2>12, <3>2, PlugEffect DEF ServiceFirst
  <2>13. CASE Reboot
    <3>1. UNCHANGED uppers /\ \A d \in Devices : Alike(dev[d], dev'[d])
      BY <2>13, RebootEffect
    <3>2. Depends' => service'
      BY <3>1, DependsLess DEF Alike
    <3> QED
      BY <2>2, <2>13, <3>2, RebootEffect
  <2>14. CASE UNCHANGED vars
    BY <2>14 DEF vars, ServiceFirst, Depends
  <2> QED
    BY <1>1, <1>2, <1>3, <2>3, <2>4, <2>5, <2>6, <2>7, <2>8, <2>9, <2>10, <2>11, <2>12,
       <2>13, <2>14, NextSplits
<1> QED
  BY <1>0, <1>4, <1>5

\* No class list and no device depends on libusb0 while its service does not exist,
\* whatever is killed or fails, as long as a service that was asked for is created.
THEOREM ServiceComesFirst ==
    ASSUME "CreateFails" \notin Env
    PROVE  Spec => []FilterHasService
<1>1. Init => Shape /\ ServiceFirst
  <2> SUFFICES ASSUME Init PROVE Shape /\ ServiceFirst
    OBVIOUS
  <2>1. Shape
    BY InitShape
  <2>2. UsesService => service
    BY DEF Init
  <2>3. cmd.pc = "idle"
    BY NoCommandIsShaped DEF Init
  <2> QED
    BY <2>1, <2>2, <2>3, UsesIsDepends DEF ServiceFirst
<1>2. Shape /\ ServiceFirst /\ [Next]_vars => Shape' /\ ServiceFirst'
  BY ShapeNext, ServiceFirstNext
<1>3. ServiceFirst => FilterHasService
  BY UsesIsDepends DEF ServiceFirst, FilterHasService
<1> QED
  BY <1>1, <1>2, <1>3, PTL DEF Spec

(***************************************************************************)
(* The filters of others.                                                  *)
(***************************************************************************)
\* One entry more than others have made fits into the buffer.
ListsFit ==
    /\ \A k \in Classes : Len(ForeignUppers[k]) < MaxEntries
    /\ \A d \in Devices : Len(ForeignFilters[d]) < MaxEntries
\* A removal uninstalls only devices without filters of others.
UninstallsItsOwn ==
    \A c \in Commands : c.mode = "remove" =>
        \A d \in c.inf \cap Devices : ForeignFilters[d] = <<>>
Kept ==
    /\ ForeignFiltersSurvive
    /\ cmd.c.mode = "remove" => \A d \in cmd.c.inf \cap Devices : ForeignFilters[d] = <<>>

\* What an installation and a removal make of such a list.
LEMMA InsertedIsWith ==
    ASSUME NEW list \in Foreigners, Len(list) < MaxEntries, NEW s \in With(list)
    PROVE  Inserted(s) \in With(list)
<1>1. Len(list) \in Nat /\ MaxEntries \in Nat
  BY ForeignersAreNames, SizesAssumption
<1>2. CASE s = list
  <2>1. Inserted(s) = Append(list, libusb0)
    BY <1>1, <1>2, RemoveKeepsForeigners DEF Inserted, Buffer, IsRead, mz_insert
  <2>2. Append(list, libusb0) = InsertAt(list, Len(list) + 1, libusb0)
    <3> DEFINE t == InsertAt(list, Len(list) + 1, libusb0)
               u == Append(list, libusb0)
    <3>1. Len(list) + 1 \in 1 .. Len(list) + 1 /\ list \in Seq(Names) /\ libusb0 \in Names
      BY <1>1, ForeignersAreNames
    <3>2. /\ t \in Seq(Names) /\ Len(t) = Len(list) + 1
          /\ \A n \in 1 .. Len(list) + 1 :
               t[n] = IF n < Len(list) + 1 THEN list[n]
                      ELSE IF n = Len(list) + 1 THEN libusb0 ELSE list[n - 1]
      BY <3>1, InsertedIsThere
    <3>3. /\ u \in Seq(Names) /\ Len(u) = Len(list) + 1
          /\ \A n \in 1 .. Len(list) + 1 : u[n] = IF n <= Len(list) THEN list[n] ELSE libusb0
      BY <3>1, <1>1
    <3> HIDE DEF t, u
    <3>4. \A n \in 1 .. Len(list) + 1 : t[n] = u[n]
      BY <1>1, <3>2, <3>3
    <3>5. t = u
      BY <1>1, <3>2, <3>3, <3>4, SeqEqual
    <3> QED
      BY <3>5 DEF t, u
  <2> QED
    BY <1>1, <2>1, <2>2 DEF With
<1>3. CASE \E n \in 1 .. Len(list) + 1 : s = InsertAt(list, n, libusb0)
  <2>1. PICK n \in 1 .. Len(list) + 1 : s = InsertAt(list, n, libusb0)
    BY <1>3
  <2>2. mz_find(s) /\ Len(s) = Len(list) + 1
    BY <2>1, RemoveTakesInsertedOut, InsertedIsThere
  <2>3. Inserted(s) = s
    BY <1>1, <2>2 DEF Inserted, Buffer, IsRead
  <2> QED
    BY <2>3
<1> QED
  BY <1>2, <1>3 DEF With

LEMMA RemovedIsWith ==
    ASSUME NEW list \in Foreigners, NEW s \in With(list)
    PROVE  Removed(s) \in With(list)
<1>1. CASE s = list
  BY <1>1, RemoveKeepsForeigners, NothingToRemove DEF With
<1>2. CASE \E n \in 1 .. Len(list) + 1 : s = InsertAt(list, n, libusb0)
  <2>1. mz_remove(s) = list
    BY <1>2, RemoveTakesInsertedOut
  <2>2. Removed(s) \in {s, list}
    BY <2>1 DEF Removed
  <2> QED
    BY <2>2 DEF With
<1> QED
  BY <1>1, <1>2 DEF With

LEMMA ForeignersAre ==
    /\ \A k \in Classes : ForeignUppers[k] \in Foreigners
    /\ \A d \in Devices : ForeignFilters[d] \in Foreigners
    /\ <<>> \in Foreigners
BY ForeignAssumption DEF Foreigners

\* Where every list is as it was, or one that they make of it, all is kept.
LEMMA KeptStays ==
    ASSUME Kept, ListsFit,
           \A k \in Classes : uppers'[k] \in {uppers[k], Inserted(uppers[k]), Removed(uppers[k])},
           \A d \in Devices :
             \/ /\ dev'[d].upper \in {dev[d].upper, Inserted(dev[d].upper), Removed(dev[d].upper)}
                /\ dev'[d].lower \in {dev[d].lower, Removed(dev[d].lower)}
             \/ ForeignFilters[d] = <<>> /\ dev'[d].upper = <<>> /\ dev'[d].lower = <<>>
    PROVE  ForeignFiltersSurvive'
<1>1. ASSUME NEW k \in Classes PROVE uppers'[k] \in With(ForeignUppers[k])
  <2>1. uppers[k] \in With(ForeignUppers[k]) /\ ForeignUppers[k] \in Foreigners
    BY ForeignersAre DEF Kept, ForeignFiltersSurvive
  <2>2. Len(ForeignUppers[k]) < MaxEntries
    BY DEF ListsFit
  <2> QED
    BY <2>1, <2>2, InsertedIsWith, RemovedIsWith
<1>2. ASSUME NEW d \in Devices
      PROVE  dev'[d].upper \in With(ForeignFilters[d]) /\ dev'[d].lower \in With(<<>>)
  <2>1. /\ dev[d].upper \in With(ForeignFilters[d]) /\ ForeignFilters[d] \in Foreigners
        /\ dev[d].lower \in With(<<>>) /\ <<>> \in Foreigners
    BY ForeignersAre DEF Kept, ForeignFiltersSurvive
  <2>2. Len(ForeignFilters[d]) < MaxEntries
    BY DEF ListsFit
  <2>3. CASE /\ dev'[d].upper \in {dev[d].upper, Inserted(dev[d].upper), Removed(dev[d].upper)}
             /\ dev'[d].lower \in {dev[d].lower, Removed(dev[d].lower)}
    <3>1. Inserted(dev[d].upper) \in With(ForeignFilters[d])
      BY <2>1, <2>2, InsertedIsWith
    <3>2. Removed(dev[d].upper) \in With(ForeignFilters[d])
      BY <2>1, RemovedIsWith
    <3>3. Removed(dev[d].lower) \in With(<<>>)
      BY <2>1, RemovedIsWith
    <3> QED
      BY <2>1, <2>3, <3>1, <3>2, <3>3
  <2>4. CASE ForeignFilters[d] = <<>> /\ dev'[d].upper = <<>> /\ dev'[d].lower = <<>>
    BY <2>4 DEF With
  <2> QED
    BY <2>3, <2>4
<1> QED
  BY <1>1, <1>2 DEF ForeignFiltersSurvive

LEMMA KeptNext ==
    ASSUME ListsFit, UninstallsItsOwn
    PROVE  Kept /\ Shape /\ [Next]_vars => Kept'
<1> SUFFICES ASSUME Kept, Shape, [Next]_vars PROVE Kept'
  OBVIOUS
<1> DEFINE Own(c) == c.mode = "remove" =>
                       \A d \in c.inf \cap Devices : ForeignFilters[d] = <<>>
<1>0. Own(cmd.c)
  BY DEF Kept
<1>1. SUFFICES ForeignFiltersSurvive' /\ Own(cmd'.c)
  BY DEF Kept
<1>2. ASSUME NEW c \in Commands, Begin(c) PROVE ForeignFiltersSurvive' /\ Own(cmd'.c)
  BY <1>2, BeginEffect, KeptStays DEF UninstallsItsOwn
<1>3. CASE Moves
  BY <1>0, <1>3, MovesEffect, KeptStays
<1>4. CASE Ends
  <2>1. Own(EmptyLine)
    BY DEF EmptyLine
  <2> QED
    BY <1>0, <1>4, <2>1, EndsEffect, NoCommandIsShaped, KeptStays
<1>5. CASE stop_libusb_devices
  <2>1. UNCHANGED uppers /\ \A d \in Devices : dev'[d] = dev[d] \/ Alike(dev[d], dev'[d])
    BY <1>5, StopEffect
  <2> QED
    BY <1>0, <1>5, <2>1, StopEffect, KeptStays DEF SameRest, Alike
<1>6. CASE start_libusb_devices
  <2>1. UNCHANGED uppers /\ \A d \in Devices : Alike(dev[d], dev'[d])
    BY <1>6, StartEffect
  <2> QED
    BY <1>0, <1>6, <2>1, StartEffect, KeptStays DEF SameRest, Alike
<1>7. CASE insert_device_filters
  <2>1. UNCHANGED uppers
        /\ \A d \in Devices :
             /\ dev'[d].upper \in {dev[d].upper, Inserted(dev[d].upper)}
             /\ dev'[d].lower = dev[d].lower
    BY <1>7, InsertDeviceEffect
  <2> QED
    BY <1>0, <1>7, <2>1, InsertDeviceEffect, KeptStays DEF SameRest
<1>8. CASE remove_device_filter
  <2>1. UNCHANGED uppers
        /\ \A d \in Devices :
             /\ dev'[d].upper \in {dev[d].upper, Removed(dev[d].upper)}
             /\ dev'[d].lower \in {dev[d].lower, Removed(dev[d].lower)}
    BY <1>8, RemoveDeviceEffect
  <2> QED
    BY <1>0, <1>8, <2>1, RemoveDeviceEffect, KeptStays DEF SameRest
<1>9. CASE insert_class_filter \/ remove_class_filter
  <2>1. UNCHANGED dev
        /\ \A k \in Classes : uppers'[k] \in {uppers[k], Inserted(uppers[k]), Removed(uppers[k])}
    BY <1>9, ClassEffect
  <2> QED
    BY <1>0, <1>9, <2>1, ClassEffect, KeptStays DEF SameRest
<1>10. CASE restart_all_devices
  <2>1. UNCHANGED uppers /\ \A d \in Devices : Alike(dev[d], dev'[d])
    BY <1>10, RestartAllEffect
  <2> QED
    BY <1>0, <1>10, <2>1, RestartAllEffect, KeptStays DEF SameRest, Alike
<1>11. CASE install_inf
  <2>1. UNCHANGED uppers
        /\ \A d \in Devices : dev'[d].upper = dev[d].upper /\ dev'[d].lower = dev[d].lower
    BY <1>11, InstallInfEffect
  <2> QED
    BY <1>0, <1>11, <2>1, InstallInfEffect, KeptStays DEF SameRest
<1>12. CASE remove_inf
  <2>1. UNCHANGED uppers /\ SameRest /\ cmd.c.mode = "remove"
    BY <1>12, RemoveInfEffect
  <2>2. ASSUME NEW d \in Devices
        PROVE  \/ dev'[d].upper = dev[d].upper /\ dev'[d].lower = dev[d].lower
               \/ ForeignFilters[d] = <<>> /\ dev'[d].upper = <<>> /\ dev'[d].lower = <<>>
    BY <1>0, <1>12, <2>1, RemoveInfEffect
  <2> QED
    BY <1>0, <2>1, <2>2, KeptStays DEF SameRest
<1>13. CASE InfRemoved
  <2>1. UNCHANGED uppers /\ \A d \in Devices : Alike(dev[d], dev'[d])
    BY <1>13, InfRemovedEffect
  <2> QED
    BY <1>0, <1>13, <2>1, InfRemovedEffect, KeptStays DEF SameRest, Alike
<1>14. ASSUME NEW i \in Devices, Plug(i) \/ Unplug(i)
       PROVE  ForeignFiltersSurvive' /\ Own(cmd'.c)
  <2>1. UNCHANGED <<uppers, cmd>>
        /\ \A d \in Devices : dev'[d].upper = dev[d].upper /\ dev'[d].lower = dev[d].lower
    BY <1>14, PlugEffect
  <2> QED
    BY <1>0, <2>1, KeptStays
<1>15. CASE Reboot
  <2>1. UNCHANGED <<uppers, cmd>> /\ \A d \in Devices : Alike(dev[d], dev'[d])
    BY <1>15, RebootEffect
  <2> QED
    BY <1>0, <2>1, KeptStays DEF Alike
<1>16. CASE UNCHANGED vars
  BY <1>0, <1>16, KeptStays DEF vars
<1> QED
  BY <1>2, <1>3, <1>4, <1>5, <1>6, <1>7, <1>8, <1>9, <1>10, <1>11, <1>12, <1>13, <1>14,
     <1>15, <1>16, NextSplits

LEMMA InitKept == Init => Kept
<1> SUFFICES ASSUME Init PROVE Kept
  OBVIOUS
<1>1. ASSUME NEW list \in Foreigners
      PROVE  /\ <<libusb0>> \o list \in With(list)
             /\ Append(list, libusb0) \in With(list)
  <2> DEFINE last == Len(list) + 1
             first == InsertAt(list, 1, libusb0)
             final == InsertAt(list, last, libusb0)
             front == <<libusb0>> \o list
             back == Append(list, libusb0)
  <2>1. Len(list) \in Nat /\ list \in Seq(Names) /\ libusb0 \in Names
    BY ForeignersAreNames
  <2>2. 1 \in 1 .. Len(list) + 1 /\ last \in 1 .. Len(list) + 1
    BY <2>1
  <2>3. /\ first \in Seq(Names) /\ Len(first) = Len(list) + 1
        /\ \A n \in 1 .. Len(list) + 1 : first[n] = IF n = 1 THEN libusb0 ELSE list[n - 1]
    BY <2>1, <2>2, InsertedIsThere
  <2>4. /\ final \in Seq(Names) /\ Len(final) = Len(list) + 1
        /\ \A n \in 1 .. Len(list) + 1 : final[n] = IF n < last THEN list[n] ELSE libusb0
    BY <2>1, <2>2, InsertedIsThere
  <2>5. /\ front \in Seq(Names) /\ Len(front) = Len(list) + 1
        /\ \A n \in 1 .. Len(list) + 1 : front[n] = IF n = 1 THEN libusb0 ELSE list[n - 1]
    BY <2>1
  <2>6. /\ back \in Seq(Names) /\ Len(back) = Len(list) + 1
        /\ \A n \in 1 .. Len(list) + 1 : back[n] = IF n < last THEN list[n] ELSE libusb0
    BY <2>1
  <2> HIDE DEF first, final, front, back
  <2>7. first = front
    <3>1. \A n \in 1 .. Len(list) + 1 : first[n] = front[n]
      BY <2>3, <2>5
    <3> QED
      BY <2>1, <2>3, <2>5, <3>1, SeqEqual
  <2>8. final = back
    <3>1. \A n \in 1 .. Len(list) + 1 : final[n] = back[n]
      BY <2>4, <2>6
    <3> QED
      BY <2>1, <2>4, <2>6, <3>1, SeqEqual
  <2> QED
    BY <2>2, <2>7, <2>8 DEF With, first, final, front, back
<1>2. PICK before, behind \in SUBSET Classes :
        uppers = [k \in Classes |->
              IF k \in before THEN <<libusb0>> \o ForeignUppers[k]
              ELSE IF k \in behind THEN mz_insert(ForeignUppers[k]) ELSE ForeignUppers[k]]
  BY DEF Init
<1>3. ASSUME NEW k \in Classes PROVE uppers[k] \in With(ForeignUppers[k])
  BY <1>1, <1>2, ForeignersAre DEF With, mz_insert
<1>4. ASSUME NEW d \in Devices
      PROVE  dev[d].upper \in With(ForeignFilters[d]) /\ dev[d].lower \in With(<<>>)
  <2>1. dev[d].upper = ForeignFilters[d] /\ dev[d].lower \in {<<libusb0>>, <<>>}
    BY DEF Init
  <2>2. <<libusb0>> \in With(<<>>)
    <3>1. Append(<<>>, libusb0) = <<libusb0>>
      OBVIOUS
    <3>2. Append(<<>>, libusb0) \in With(<<>>)
      BY <1>1, ForeignersAre
    <3> QED
      BY <3>1, <3>2
  <2> QED
    BY <2>1, <2>2 DEF With
<1>5. cmd.c.mode = "remove" => \A d \in cmd.c.inf \cap Devices : ForeignFilters[d] = <<>>
  BY NoCommandIsShaped DEF Init, EmptyLine
<1> QED
  BY <1>3, <1>4, <1>5 DEF Kept, ForeignFiltersSurvive

\* Commands and kills in whatever order leave the filters of others in every list,
\* in their order, and libusb0 in it once at most.  A list must have room for one
\* entry more in the buffer it is read into, for one that cannot be read counts as
\* empty and is overwritten; and only a device without filters of others may be
\* uninstalled, for its lists go with it.
THEOREM ForeignersSurvive ==
    ASSUME ListsFit, UninstallsItsOwn
    PROVE  Spec => []ForeignFiltersSurvive
<1>1. Init => Shape /\ Kept
  BY InitShape, InitKept
<1>2. Shape /\ Kept /\ [Next]_vars => Shape' /\ Kept'
  BY ShapeNext, KeptNext
<1>3. Kept => ForeignFiltersSurvive
  BY DEF Kept
<1> QED
  BY <1>1, <1>2, <1>3, PTL DEF Spec

=============================================================================
