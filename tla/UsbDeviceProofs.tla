--------------------------- MODULE UsbDeviceProofs ---------------------------
(* Proofs about UsbDevice: for every default mode, every table of commands,   *)
(* with and without a UART, and any number of events.                         *)
EXTENDS UsbDevice, TLAPS

Types ==
  /\ usbMode \in Modes \cup {"NULL"} /\ target \in Modes
  /\ connected \in BOOLEAN /\ flag \in [Modes -> BOOLEAN]
  /\ putc \in {"none", "cdc"} /\ rxCb \in BOOLEAN
  /\ pc \in {"loop", "shutdown", "reset", "detach", "select", "init", "overrun"}
  /\ state \in {"Unattached", "Powered", "Default", "Configured"}
  /\ irqs \in BOOLEAN /\ pending \in BOOLEAN /\ attached \in BOOLEAN
  /\ line \in BOOLEAN /\ host \in BOOLEAN /\ late \in BOOLEAN /\ missed \in BOOLEAN
  /\ eps \in Modes \cup {"none"} /\ told \subseteq Modes /\ done \in Nat

\* Before the first mode the controller is off and nothing can call back.
Boot ==
  usbMode = "NULL" =>
    /\ pc \in {"shutdown", "select"} /\ setup = "none" /\ eps = "none"
    /\ ~irqs /\ ~attached /\ ~host

\* While usbdev_init selects the mode the controller is off, and no host is
\* served; from the reset of the interface on there are no endpoints.
Switching ==
  /\ pc \in {"select", "init"} => ~irqs /\ ~attached /\ ~host
  /\ pc \in {"detach", "select", "init"} => eps = "none"

\* Until it is configured, a host asks what enumeration asks.
Asked == host /\ setup # "none" /\ done < Len(Enumeration) => setup = Enumeration[done + 1]

\* A host is one that is there; and between the two halves of USB_ShutDown, one
\* that was served before has nothing to say.
Present ==
  /\ host => line
  /\ pc = "detach" /\ host /\ done >= Len(Enumeration) =>
       ~pending /\ state = "Unattached" /\ setup = "none"

\* The console's output is the serial port only where it may be.
Output == putc = "cdc" => late \/ (usbMode = "CDC" /\ pc \in {"loop", "shutdown"})

\* The loop only ends in an overrun that a late connect has prepared.
NoOverrun == pc = "overrun" => late

IInv == Types /\ Boot /\ Switching /\ Present /\ Asked /\ OneIdentity /\ Output /\ NoOverrun

LEMMA EnumerationFacts ==
  /\ Len(Enumeration) = 4
  /\ Enumeration[4] = "set_configuration"
BY DEF Enumeration

LEMMA TalkLength == ASSUME NEW m \in Modes PROVE Len(Talk(m)) >= Len(Enumeration)
<1> DEFINE Names == Standard \cup {"connect", "setispsck", "enableprog", "transmit", "disconnect", "reset", "line_encoding"}
<1>1. Enumeration \in Seq(Names)
  BY DEF Enumeration, Standard
<1>2. Session(m) \in Seq(Names)
  <2>1. CASE m = "AVRISP"
    BY <2>1 DEF Session
  <2>2. CASE m = "JTAG"
    BY <2>2 DEF Session
  <2>3. CASE m = "CDC"
    BY <2>3 DEF Session
  <2> QED
    BY <2>1, <2>2, <2>3 DEF Modes
<1> HIDE DEF Names
<1>3. Len(Talk(m)) = Len(Enumeration) + Len(Session(m))
  BY <1>1, <1>2 DEF Talk
<1>4. Len(Enumeration) \in Nat /\ Len(Session(m)) \in Nat
  BY <1>1, <1>2
<1> QED
  BY <1>3, <1>4

LEMMA InitIInv == Init => IInv
<1> SUFFICES ASSUME Init PROVE IInv
  OBVIOUS
<1>1. Types
  BY ModesAssumption DEF Init, Types
<1>2. Boot /\ Switching /\ Present /\ Asked /\ OneIdentity /\ Output /\ NoOverrun
  BY DEF Init, Boot, Switching, Present, Asked, OneIdentity, Output, NoOverrun
<1> QED
  BY <1>1, <1>2 DEF IInv

LEMMA UsbTaskIInv == IInv /\ UsbTask => IInv'
<1> SUFFICES ASSUME IInv, UsbTask PROVE IInv'
  OBVIOUS
<1> USE EnumerationFacts
<1>a. usbMode \in Modes /\ Answer(usbMode, setup) \in {usbMode, "stall"}
  BY DEF IInv, Types, Boot, UsbTask, Answer
<1>1. CASE Reenters
  <2>1. Types'
    BY <1>1 DEF UsbTask, Reenters, IInv, Types, Boot, Switching, Present, Asked, OneIdentity, Output, NoOverrun, usb, peer, flags, console
  <2>2. Boot'
    BY <1>1 DEF UsbTask, Reenters, IInv, Types, Boot, Switching, Present, Asked, OneIdentity, Output, NoOverrun, usb, peer, flags, console
  <2>3. Switching'
    BY <1>1 DEF UsbTask, Reenters, IInv, Types, Boot, Switching, Present, Asked, OneIdentity, Output, NoOverrun, usb, peer, flags, console
  <2>4. Asked'
    BY <1>1 DEF UsbTask, Reenters, IInv, Types, Boot, Switching, Present, Asked, OneIdentity, Output, NoOverrun, usb, peer, flags, console
  <2>5. OneIdentity'
    BY <1>1 DEF UsbTask, Reenters, IInv, Types, Boot, Switching, Present, Asked, OneIdentity, Output, NoOverrun, usb, peer, flags, console
  <2>6. Output'
    BY <1>1 DEF UsbTask, Reenters, IInv, Types, Boot, Switching, Present, Asked, OneIdentity, Output, NoOverrun, usb, peer, flags, console
  <2>7. NoOverrun'
    BY <1>1 DEF UsbTask, Reenters, IInv, Types, Boot, Switching, Present, Asked, OneIdentity, Output, NoOverrun, usb, peer, flags, console
  <2>8. Present'
    BY <1>1 DEF UsbTask, Reenters, IInv, Types, Boot, Switching, Present, Asked, OneIdentity, Output, NoOverrun, usb, peer, flags, console
  <2> QED
    BY <2>1, <2>2, <2>3, <2>4, <2>5, <2>6, <2>7, <2>8 DEF IInv
<1>2. CASE ~Reenters
  <2>1. Types'
    BY <1>2, <1>a DEF IInv, UsbTask, Types, flags, console
  <2>2. Boot' /\ Switching' /\ Present' /\ Asked' /\ Output' /\ NoOverrun'
    BY <1>2 DEF IInv, UsbTask, Types, Boot, Switching, Present, Asked, Output, NoOverrun, flags, console
  <2>3. OneIdentity'
    <3>1. host' = host /\ usbMode' = usbMode /\ pc' = pc /\ pc = "loop" /\ setup # "none"
      BY <1>2 DEF UsbTask
    <3>2. host => told' \subseteq {usbMode}
      BY <1>2, <1>a DEF IInv, UsbTask, OneIdentity
    <3>3. eps' \in {eps, usbMode}
      BY <1>2 DEF UsbTask
    <3>4. host /\ done' >= 4 => eps' = usbMode
      <4>1. done' \in {done, done + 1} /\ done \in Nat
        BY <1>2 DEF UsbTask, IInv, Types
      <4>2. CASE done >= 4
        BY <3>1, <3>3, <4>2 DEF IInv, OneIdentity
      <4>3. CASE done = 3
        BY <1>2, <3>1, <4>3 DEF IInv, UsbTask, Asked
      <4> QED
        BY <4>1, <4>2, <4>3
    <3> QED
      BY <3>1, <3>2, <3>3, <3>4 DEF IInv, OneIdentity
  <2> QED
    BY <2>1, <2>2, <2>3 DEF IInv
<1> QED
  BY <1>1, <1>2

LEMMA InterruptIInv == IInv /\ Interrupt => IInv'
<1> SUFFICES ASSUME IInv, Interrupt PROVE IInv'
  OBVIOUS
<1>1. Types'
  BY DEF IInv, Interrupt, Types, Boot, Event, CdcConnect, peer, console
<1>2. Boot' /\ Switching' /\ Present' /\ Asked' /\ OneIdentity'
  BY EnumerationFacts DEF IInv, Interrupt, Types, Boot, Switching, Present, Asked, OneIdentity, Event, CdcConnect, Reenters, Output, peer, console
<1>3. Output' /\ NoOverrun'
  BY DEF IInv, Interrupt, Types, Boot, Switching, Output, NoOverrun, Event, CdcConnect, Reenters, peer, console
<1> QED
  BY <1>1, <1>2, <1>3 DEF IInv

LEMMA UsbdevInitIInv == IInv /\ UsbdevInit => IInv'
<1> SUFFICES ASSUME IInv, UsbdevInit PROVE IInv'
  OBVIOUS
<1> USE DEF IInv, Types, Boot, Switching, Present, Asked, OneIdentity, Output, NoOverrun, usb, peer, flags, console
<1>1. CASE ModeShutdown
  BY <1>1 DEF ModeShutdown
<1>2. CASE ShutDownReset
  BY <1>2 DEF ShutDownReset, ResetInterface
<1>3. CASE ShutDownDetach
  BY <1>3 DEF ShutDownDetach
<1>4. CASE SelectMode
  BY <1>4 DEF SelectMode, Modes
<1>5. CASE UsbInit
  BY <1>5 DEF UsbInit, ResetInterface
<1> QED
  BY <1>1, <1>2, <1>3, <1>4, <1>5 DEF UsbdevInit

LEMMA HostIInv ==
  ASSUME IInv, Pull \/ PlugIn \/ FirstReset \/ AnotherReset \/ HostAsks \/ HostTries
  PROVE  IInv'
<1> USE EnumerationFacts
<1>1. CASE Pull \/ PlugIn
  <2>1. Types'
    <3>1. CASE Pull
      <4>1. pending' \in BOOLEAN /\ told' \subseteq Modes /\ done' \in Nat
        BY <3>1 DEF Pull, IInv, Types
      <4>2. line' \in BOOLEAN /\ host' \in BOOLEAN
        BY <3>1 DEF Pull
      <4>3. UNCHANGED <<usbMode, connected, flag, putc, rxCb, pc, target>>
        BY <3>1 DEF Pull, flags, console
      <4>4. UNCHANGED <<state, irqs, attached, eps, late, missed>>
        BY <3>1 DEF Pull
      <4> QED
        BY <4>1, <4>2, <4>3, <4>4 DEF IInv, Types
    <3>2. CASE PlugIn
      BY <3>2 DEF PlugIn, IInv, Types, flags, console
    <3> QED
      BY <1>1, <3>1, <3>2
  <2>2. Boot'
    BY <1>1 DEF Pull, PlugIn, Disturb, IInv, Types, Boot, Switching, Present, Asked, OneIdentity, Output, NoOverrun, flags, console
  <2>3. Switching'
    BY <1>1 DEF Pull, PlugIn, Disturb, IInv, Types, Boot, Switching, Present, Asked, OneIdentity, Output, NoOverrun, flags, console
  <2>4. Asked'
    BY <1>1 DEF Pull, PlugIn, Disturb, IInv, Types, Boot, Switching, Present, Asked, OneIdentity, Output, NoOverrun, flags, console
  <2>5. OneIdentity'
    BY <1>1 DEF Pull, PlugIn, Disturb, IInv, Types, Boot, Switching, Present, Asked, OneIdentity, Output, NoOverrun, flags, console
  <2>6. Output'
    BY <1>1 DEF Pull, PlugIn, Disturb, IInv, Types, Boot, Switching, Present, Asked, OneIdentity, Output, NoOverrun, flags, console
  <2>7. NoOverrun'
    BY <1>1 DEF Pull, PlugIn, Disturb, IInv, Types, Boot, Switching, Present, Asked, OneIdentity, Output, NoOverrun, flags, console
  <2>8. Present'
    BY <1>1 DEF Pull, PlugIn, Disturb, IInv, Types, Boot, Switching, Present, Asked, OneIdentity, Output, NoOverrun, flags, console
  <2> QED
    BY <2>1, <2>2, <2>3, <2>4, <2>5, <2>6, <2>7, <2>8 DEF IInv
<1>2. CASE FirstReset \/ AnotherReset
  <2>1. Types'
    <3>1. Reset
      BY <1>2 DEF FirstReset, AnotherReset
    <3> QED
      BY <3>1 DEF Reset, IInv, Types, flags, console
  <2>2. Boot'
    BY <1>2 DEF FirstReset, AnotherReset, Reset, Disturb, IInv, Types, Boot, Switching, Present, Asked, OneIdentity, Output, NoOverrun, flags, console
  <2>3. Switching'
    BY <1>2 DEF FirstReset, AnotherReset, Reset, Disturb, IInv, Types, Boot, Switching, Present, Asked, OneIdentity, Output, NoOverrun, flags, console
  <2>4. Asked'
    BY <1>2 DEF FirstReset, AnotherReset, Reset, Disturb, IInv, Types, Boot, Switching, Present, Asked, OneIdentity, Output, NoOverrun, flags, console
  <2>5. OneIdentity'
    BY <1>2 DEF FirstReset, AnotherReset, Reset, Disturb, IInv, Types, Boot, Switching, Present, Asked, OneIdentity, Output, NoOverrun, flags, console
  <2>6. Output'
    BY <1>2 DEF FirstReset, AnotherReset, Reset, Disturb, IInv, Types, Boot, Switching, Present, Asked, OneIdentity, Output, NoOverrun, flags, console
  <2>7. NoOverrun'
    BY <1>2 DEF FirstReset, AnotherReset, Reset, Disturb, IInv, Types, Boot, Switching, Present, Asked, OneIdentity, Output, NoOverrun, flags, console
  <2>8. Present'
    BY <1>2 DEF FirstReset, AnotherReset, Reset, Disturb, IInv, Types, Boot, Switching, Present, Asked, OneIdentity, Output, NoOverrun, flags, console
  <2> QED
    BY <2>1, <2>2, <2>3, <2>4, <2>5, <2>6, <2>7, <2>8 DEF IInv
<1>3. ASSUME NEW r, Ask(r), done < Len(Enumeration) => r = Enumeration[done + 1]
      PROVE  IInv'
  <2>1. Types'
    BY <1>3 DEF Ask, IInv, Types, Boot, Switching, Present, Asked, OneIdentity, Output, NoOverrun, flags, console, peer
  <2>2. Boot'
    BY <1>3 DEF Ask, IInv, Types, Boot, Switching, Present, Asked, OneIdentity, Output, NoOverrun, flags, console, peer
  <2>3. Switching'
    BY <1>3 DEF Ask, IInv, Types, Boot, Switching, Present, Asked, OneIdentity, Output, NoOverrun, flags, console, peer
  <2>4. Asked'
    BY <1>3 DEF Ask, IInv, Types, Boot, Switching, Present, Asked, OneIdentity, Output, NoOverrun, flags, console, peer
  <2>5. OneIdentity'
    BY <1>3 DEF Ask, IInv, Types, Boot, Switching, Present, Asked, OneIdentity, Output, NoOverrun, flags, console, peer
  <2>6. Output'
    BY <1>3 DEF Ask, IInv, Types, Boot, Switching, Present, Asked, OneIdentity, Output, NoOverrun, flags, console, peer
  <2>7. NoOverrun'
    BY <1>3 DEF Ask, IInv, Types, Boot, Switching, Present, Asked, OneIdentity, Output, NoOverrun, flags, console, peer
  <2>8. Present'
    BY <1>3 DEF Ask, IInv, Types, Boot, Switching, Present, Asked, OneIdentity, Output, NoOverrun, flags, console, peer
  <2> QED
    BY <2>1, <2>2, <2>3, <2>4, <2>5, <2>6, <2>7, <2>8 DEF IInv
<1>4. CASE HostAsks
  <2>1. CASE done < Len(Enumeration) /\ Ask(Enumeration[done + 1])
    BY <2>1, <1>3
  <2>2. CASE \E m \in told : done \in Len(Enumeration) .. Len(Talk(m)) - 1 /\ Ask(Talk(m)[done + 1])
    BY <2>2, <1>3 DEF IInv, Types
  <2> QED
    BY <1>4, <2>1, <2>2 DEF HostAsks
<1>5. CASE HostTries
  BY <1>5, <1>3, TalkLength DEF HostTries, IInv, Types
<1> QED
  BY <1>1, <1>2, <1>4, <1>5

LEMMA NextIInv == IInv /\ [Next]_vars => IInv'
<1> SUFFICES ASSUME IInv, [Next]_vars PROVE IInv'
  OBVIOUS
<1>1. ASSUME NEW m \in Commands, Command(m) PROVE IInv'
  BY <1>1, ModesAssumption DEF Command, IInv, Types, Boot, Switching, Present, Asked, OneIdentity, Output, NoOverrun, Modes, Disturb, flags, console, usb
<1>2. CASE UNCHANGED vars
  BY <1>2 DEF vars, IInv, Types, Boot, Switching, Present, Asked, OneIdentity, Output, NoOverrun, flags, console, usb, peer
<1> QED
  BY <1>1, <1>2, UsbTaskIInv, InterruptIInv, UsbdevInitIInv, HostIInv DEF Next

LEMMA Invariance == Spec => []IInv
BY InitIInv, NextIInv, PTL DEF Spec

\* No request reaches the device in no mode, and the variables of usbdev.c and
\* of the modes stay within their types, whenever the interrupt comes.
THEOREM UsbTypes == Spec => []TypeOK
<1>1. IInv => TypeOK
  BY DEF IInv, Types, Boot, TypeOK
<1> QED
  BY <1>1, Invariance, PTL

\* A host is never answered by two modes.
THEOREM UsbOneIdentity == Spec => []OneIdentity
<1>1. IInv => OneIdentity
  BY DEF IInv
<1> QED
  BY <1>1, Invariance, PTL

\* Output within a control request never leads back into USB_USBTask, unless a
\* connect came between usbdev_cdc_shutdown and the end of USB_ShutDown.
THEOREM UsbConsoleDetached == Spec => []ConsoleDetached
<1>1. IInv => ConsoleDetached
  BY DEF IInv, Output, NoOverrun, ConsoleDetached
<1> QED
  BY <1>1, Invariance, PTL

-----------------------------------------------------------------------------
(* The flags.  A mode that was left keeps its flag, and only an interrupt in  *)
(* that mode would clear it.  The table of global_commands.c:76-109 has one   *)
(* command that selects a mode (avrisp), so no mode that was left is entered  *)
(* again.                                                                      *)

\* In the loop the interrupt is taken; the flag of a mode that was not entered
\* is down, and that of the present one is up only if usbdev.c's is.
Flags(c) ==
  /\ usbMode # "NULL" /\ pc \in {"loop", "shutdown", "reset", "detach"} => irqs /\ attached
  /\ usbMode # "NULL" /\ pc \in {"shutdown", "reset", "detach", "select"} => target = c
  /\ usbMode # c => ~flag[c]
  /\ usbMode = "NULL" => ~connected /\ \A m \in Modes : ~flag[m]
  /\ usbMode # "NULL" => (flag[usbMode] => connected)

\* The same of the serial port's callbacks and the console's output.
Callbacks(c) ==
  /\ usbMode = "CDC" => (rxCb \/ putc = "cdc" => connected)
  /\ usbMode = "NULL" \/ (c = "CDC" /\ usbMode # "CDC") => ~rxCb /\ putc = "none"

LEMMA FlagsInit ==
  ASSUME NEW c \in Modes, Init PROVE Flags(c) /\ Callbacks(c) /\ FlagsTrackLine
BY DEF Init, Flags, Callbacks, FlagsTrackLine

\* A step of the host, or of the main loop in the loop, leaves the flags.
LEMMA FlagsKept ==
  ASSUME NEW c \in Modes, IInv, Flags(c), Callbacks(c), FlagsTrackLine,
         UNCHANGED <<usbMode, flags, console, target, irqs, attached, missed>>,
         pc' \in {pc, "overrun"},
         UNCHANGED <<line, pending>> \/ pending' = attached
  PROVE  Flags(c)' /\ Callbacks(c)' /\ FlagsTrackLine'
<1>1. Flags(c)' /\ Callbacks(c)'
  BY DEF Flags, Callbacks, flags, console
<1>2. FlagsTrackLine'
  <2> SUFFICES ASSUME pc' = "loop", Idle', ~missed' PROVE FlagsTrackLine'
    BY DEF FlagsTrackLine
  <2>1. pc = "loop" /\ irqs /\ attached
    BY DEF IInv, Boot, Flags
  <2>2. UNCHANGED <<line, pending>>
    BY <2>1 DEF Idle
  <2>3. Idle /\ ~missed
    BY <2>2 DEF Idle
  <2> QED
    BY <2>1, <2>2, <2>3 DEF FlagsTrackLine, flags, console
<1> QED
  BY <1>1, <1>2

LEMMA FlagsInterrupt ==
  ASSUME NEW c \in Modes, IInv, Flags(c), Callbacks(c), Interrupt
  PROVE  Flags(c)' /\ Callbacks(c)' /\ FlagsTrackLine'
<1>1. usbMode \in Modes /\ flag \in [Modes -> BOOLEAN] /\ line \in BOOLEAN
  BY DEF IInv, Types, Boot, Interrupt
<1>2. /\ UNCHANGED <<usbMode, target, irqs, attached, line>>
      /\ connected' = line /\ flag' = [flag EXCEPT ![usbMode] = line]
      /\ pc' \in {pc, "overrun"} /\ CdcConnect(usbMode, line)
  BY DEF Interrupt, Event, peer
<1>3. flag'[usbMode] = line /\ \A m \in Modes : m # usbMode => flag'[m] = flag[m]
  BY <1>1, <1>2
<1>4. usbMode \in Modes /\ usbMode # "NULL"
  BY <1>1 DEF Modes
<1>5. Flags(c)'
  BY <1>2, <1>3, <1>4 DEF Flags
<1>6. /\ usbMode = "CDC" => rxCb' = line /\ (putc' = "cdc") = line
      /\ usbMode # "CDC" => UNCHANGED <<rxCb, putc>>
  BY <1>1, <1>2 DEF CdcConnect, console
<1>7. Callbacks(c)'
  <2>1. CASE usbMode = "CDC"
    <3>1. (rxCb' <=> line) /\ (putc' = "cdc" <=> line) /\ (connected' <=> line)
      BY <1>1, <1>2, <1>6, <2>1
    <3> QED
      BY <1>2, <2>1, <3>1 DEF Callbacks
  <2>2. CASE usbMode # "CDC"
    BY <1>2, <1>4, <1>6, <2>2 DEF Callbacks
  <2> QED
    BY <2>1, <2>2
<1>8. FlagsTrackLine'
  BY <1>2, <1>3, <1>6 DEF FlagsTrackLine
<1> QED
  BY <1>5, <1>7, <1>8

LEMMA FlagsUsbdevInit ==
  ASSUME NEW c \in Modes, IInv, Flags(c), Callbacks(c), UsbdevInit
  PROVE  Flags(c)' /\ Callbacks(c)' /\ FlagsTrackLine'
<1>1. CASE ModeShutdown \/ ShutDownReset \/ ShutDownDetach
  <2>1. pc' # "loop" /\ UNCHANGED <<usbMode, flags, rxCb, target>> /\ putc' \in {putc, "none"}
    BY <1>1 DEF ModeShutdown, ShutDownReset, ShutDownDetach, console
  <2>2. usbMode # "NULL" /\ pc' \in {"reset", "detach"} => irqs' /\ attached'
    BY <1>1 DEF ModeShutdown, ShutDownReset, ShutDownDetach, ResetInterface, usb, Flags
  <2>3. pc \in {"shutdown", "reset", "detach"} /\ pc' # "shutdown"
    BY <1>1 DEF ModeShutdown, ShutDownReset, ShutDownDetach
  <2>4. Flags(c)'
    BY <2>1, <2>2, <2>3 DEF Flags, flags
  <2>5. Callbacks(c)' /\ FlagsTrackLine'
    BY <2>1 DEF Callbacks, FlagsTrackLine, flags
  <2> QED
    BY <2>4, <2>5
<1>2. CASE SelectMode
  <2>1. /\ pc = "select" /\ pc' = "init" /\ usbMode' = target /\ target \in Modes
        /\ UNCHANGED <<connected, flag, putc, rxCb, target>>
    BY <1>2 DEF SelectMode, flags, console, IInv, Types
  <2>2. target # "NULL"
    BY <2>1 DEF Modes
  <2>3. usbMode # "NULL" => target = c
    BY <2>1 DEF Flags
  <2>4. flag[target] => connected
    BY <2>1, <2>3 DEF Flags
  <2>5. usbMode' # c => ~flag[c]
    BY <2>1, <2>3 DEF Flags
  <2>6. Flags(c)'
    BY <2>1, <2>2, <2>4, <2>5 DEF Flags
  <2>7. Callbacks(c)'
    BY <2>1, <2>2, <2>3 DEF Callbacks
  <2> QED
    BY <2>1, <2>6, <2>7 DEF FlagsTrackLine
<1>3. CASE UsbInit
  <2>1. /\ pc = "init" /\ pc' = "loop" /\ irqs' = TRUE /\ attached' = TRUE
        /\ pending' = line /\ missed' = (connected /\ ~line)
        /\ UNCHANGED <<usbMode, connected, flag, putc, rxCb, target, line>>
    BY <1>3 DEF UsbInit, ResetInterface, flags, console, peer
  <2>2. usbMode \in Modes
    BY <2>1 DEF IInv, Types, Boot
  <2>3. Flags(c)' /\ Callbacks(c)'
    BY <2>1 DEF Flags, Callbacks
  <2>4. FlagsTrackLine'
    <3> SUFFICES ASSUME Idle', ~missed' PROVE FlagsTrackLine'
      BY DEF FlagsTrackLine
    <3>1. /\ line \in BOOLEAN /\ connected \in BOOLEAN /\ flag[usbMode] \in BOOLEAN
          /\ rxCb \in BOOLEAN
      BY <2>2 DEF IInv, Types
    <3>2. ~line /\ ~connected
      BY <2>1 DEF Idle
    <3>3. ~flag[usbMode]
      BY <2>2, <3>2 DEF Flags, Modes
    <3>4. usbMode = "CDC" => ~rxCb /\ putc # "cdc"
      BY <3>2 DEF Callbacks
    <3>5. connected = line /\ flag[usbMode] = line /\ (usbMode = "CDC" => rxCb = line /\ (putc = "cdc") = line)
      BY <3>1, <3>2, <3>3, <3>4
    <3> QED
      BY <2>1, <3>5 DEF FlagsTrackLine
  <2> QED
    BY <2>3, <2>4
<1> QED
  BY <1>1, <1>2, <1>3 DEF UsbdevInit

LEMMA FlagsNext ==
  ASSUME NEW c \in Modes, Commands \subseteq {c},
         IInv, Flags(c), Callbacks(c), FlagsTrackLine, [Next]_vars
  PROVE  Flags(c)' /\ Callbacks(c)' /\ FlagsTrackLine'
<1>1. CASE UsbTask
  <2>1. /\ UNCHANGED <<usbMode, flags, console, target, irqs, attached, missed, line, pending>>
        /\ pc' \in {pc, "overrun"}
    BY <1>1 DEF UsbTask, usb, peer
  <2> QED
    BY <2>1, FlagsKept
<1>2. CASE Pull \/ PlugIn \/ FirstReset \/ AnotherReset
  <2>1. /\ UNCHANGED <<usbMode, flags, console, target, irqs, attached, missed, pc>>
        /\ UNCHANGED <<line, pending>> \/ pending' = attached
    BY <1>2 DEF Pull, PlugIn, FirstReset, AnotherReset, Reset
  <2> QED
    BY <2>1, FlagsKept
<1>3. CASE HostAsks \/ HostTries
  <2>1. \E r : Ask(r)
    BY <1>3 DEF HostAsks, HostTries
  <2>2. /\ UNCHANGED <<usbMode, flags, console, target, irqs, attached, missed, pc>>
        /\ UNCHANGED <<line, pending>>
    BY <2>1 DEF Ask, peer
  <2> QED
    BY <2>2, FlagsKept
<1>4. ASSUME NEW m \in Commands, Command(m)
      PROVE  Flags(c)' /\ Callbacks(c)' /\ FlagsTrackLine'
  <2>1. /\ pc = "loop" /\ pc' = "shutdown" /\ target' = c
        /\ UNCHANGED <<usbMode, flags, console, irqs, attached>>
    BY <1>4 DEF Command, usb
  <2>2. Flags(c)' /\ Callbacks(c)'
    BY <2>1 DEF Flags, Callbacks, flags, console
  <2> QED
    BY <2>1, <2>2 DEF FlagsTrackLine
<1>5. CASE UNCHANGED vars
  BY <1>5, FlagsKept DEF vars, usb, peer
<1> QED
  BY <1>1, <1>2, <1>3, <1>4, <1>5, FlagsInterrupt, FlagsUsbdevInit DEF Next

\* Once the interrupt has been taken the flags of usbdev.c and of the mode, and
\* the serial port's callbacks, say whether there is a host, unless usbdev_init
\* discarded a disconnect; for every default mode, and any one mode that the
\* table of commands selects.
THEOREM UsbFlagsTrackLine ==
  ASSUME NEW c \in Modes, Commands \subseteq {c}
  PROVE  Spec => []FlagsTrackLine
<1>1. Init => Flags(c) /\ Callbacks(c) /\ FlagsTrackLine
  BY FlagsInit
<1>2. IInv /\ Flags(c) /\ Callbacks(c) /\ FlagsTrackLine /\ [Next]_vars
        => Flags(c)' /\ Callbacks(c)' /\ FlagsTrackLine'
  BY FlagsNext
<1> QED
  BY <1>1, <1>2, Invariance, PTL DEF Spec

=============================================================================
