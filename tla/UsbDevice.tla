------------------------------ MODULE UsbDevice ------------------------------
(***************************************************************************)
(* The modes of the USB device, src/src/usbdev.c, with what usbdev_cdc.c,   *)
(* usbdev_jtag.c and usbdev_avrisp.c do for the events that it hands on,    *)
(* and the part of LUFA that raises them.  Connect and disconnect run in an *)
(* interrupt, control requests in USB_USBTask of the main loop, and         *)
(* usbdev_init changes the mode in steps between which the interrupt may    *)
(* come.  On the controllers that report a voltage on the bus, line is that *)
(* voltage; on the others it is traffic on the bus.                         *)
(***************************************************************************)
EXTENDS Naturals, Sequences

CONSTANTS Defaults,   \* the values a build may give USBMODE_DEFAULT
          Commands,   \* the modes that a command of the table selects
          Uart,       \* the build has a console on the UART too
          MaxEvents   \* bound: how often the cable is pulled or plugged, the
                      \* host resets the bus once more, or a command is given

Modes == {"CDC", "JTAG", "AVRISP"}
ASSUME ModesAssumption == Defaults \subseteq Modes /\ Commands \subseteq Modes
ASSUME UsbBoundsAssumption == Uart \in BOOLEAN /\ MaxEvents \in Nat

VARIABLES usbMode, connected,   \* of usbdev.c
          flag,                 \* connected of usbdev_cdc.c, usbdev_jtag.c, usbdev_avrisp.c
          putc,                 \* the console's output is usbdev_cdc_putc
          rxCb,                 \* usbdev_cdc.c has its two callbacks
          pc, target,           \* where usbdev_init is, and its argument
          state,                \* USB_DeviceState
          irqs, pending,        \* the controller: interrupts enabled, one waiting
          attached, eps, setup, \* its pull-up, endpoints, and control request
          line, host, done,     \* the host: it has seen the device; requests answered
          told,                 \* history: who has answered it since it reset the bus
          events,
          late,                 \* history: a connect undid usbdev_cdc_shutdown
          missed                \* history: usbdev_init discarded a disconnect

console == <<putc, rxCb>>
flags == <<connected, flag>>
usb == <<state, irqs, pending, attached, eps, setup>>
peer == <<line, host, done, told, events>>
vars == <<usbMode, flags, console, pc, target, usb, peer, late, missed>>

\* What a host does with a device of each mode, one control request after another.
Enumeration == <<"device", "configuration", "string", "set_configuration">>
Session(m) ==
  CASE m = "AVRISP" -> <<"connect", "setispsck", "enableprog", "transmit", "disconnect">>
    [] m = "JTAG"   -> <<"reset">>
    [] m = "CDC"    -> <<"line_encoding">>
Talk(m) == Enumeration \o Session(m)
Optional == {"string_9", "writeflash"}

-----------------------------------------------------------------------------
(* The callbacks.  An answer is that of the mode, or none: a stall.         *)

\* The requests to which the get_descriptor, configuration_changed and
\* unhandled_control_request of each mode have an answer.
Standard == {"device", "configuration", "string", "set_configuration"}
CdcAnswers == Standard \cup {"line_encoding"}
JtagAnswers == Standard \cup {"reset"}
AvrispAnswersNotEnableprog == Standard \cup {"connect", "setispsck", "transmit", "disconnect"}
AvrispAnswers == Standard \cup {"connect", "setispsck", "enableprog", "transmit", "disconnect"}

\* usbdev.c hands a request on to the mode.
Answers(m) ==
  CASE m = "CDC" -> CdcAnswers
    [] m = "JTAG" -> JtagAnswers
    [] m = "AVRISP" -> AvrispAnswers
    [] OTHER -> {}

Answer(m, r) == IF r \in Answers(m) THEN m ELSE "stall"

\* usbdev_avrisp.c reports each callback on the console.  If that still leads
\* to usbdev_cdc_putc, its USB_USBTask finds the request that is not answered
\* yet, and begins to answer it, and reports that.
Reenters == usbMode = "AVRISP" /\ putc = "cdc" /\ setup # "none"

Idle == ~(irqs /\ pending)

\* USB_USBTask: one control request, of whichever host sent it.
UsbTask ==
  /\ pc = "loop" /\ Idle /\ state # "Unattached" /\ setup # "none"
  /\ IF Reenters
       THEN /\ pc' = "overrun"
            /\ UNCHANGED <<usb, peer>>
       ELSE /\ setup' = "none"
            /\ done' = IF host /\ Answer(usbMode, setup) # "stall" THEN done + 1 ELSE done
            /\ told' = IF host THEN told \cup ({Answer(usbMode, setup)} \ {"stall"}) ELSE told
            /\ IF setup = "set_configuration"
                 THEN state' = "Configured" /\ eps' = usbMode   \* ..._configuration_changed
                 ELSE UNCHANGED <<state, eps>>
            /\ UNCHANGED <<pc, irqs, pending, attached, line, host, events>>
  /\ UNCHANGED <<usbMode, flags, console, target, late, missed>>

-----------------------------------------------------------------------------
(* The interrupt *)

\* usbdev_cdc_device_connect; the other modes only keep the flag.
CdcConnect(m, up) ==
  IF m = "CDC" THEN putc' = (IF up THEN "cdc" ELSE "none") /\ rxCb' = up
  ELSE UNCHANGED console

\* EVENT_USB_Device_Connect and EVENT_USB_Device_Disconnect
EventFlagUpOnly(up) ==
  /\ connected' = up
  /\ flag' = [flag EXCEPT ![usbMode] = @ \/ up]

Event(up) ==
  /\ connected' = up
  /\ flag' = [flag EXCEPT ![usbMode] = up]

Interrupt ==
  /\ irqs /\ pending
  /\ pending' = FALSE
  /\ state' = IF line THEN "Powered" ELSE "Unattached"
  /\ Event(line)
  /\ CdcConnect(usbMode, line)
  /\ pc' = IF Reenters /\ line THEN "overrun" ELSE pc
  /\ late' = (late \/ (line /\ usbMode = "CDC" /\ pc \notin {"loop", "shutdown"}))
  /\ missed' = FALSE
  /\ UNCHANGED <<usbMode, target, irqs, attached, eps, setup, peer>>

-----------------------------------------------------------------------------
(* usbdev_init *)

Disturb == events < MaxEvents /\ events' = events + 1

\* The commands run in the main loop.  A line typed on the serial port comes
\* through usbdev_cdc_tick.
Typed ==
  /\ usbMode = "CDC" /\ connected /\ flag["CDC"] /\ rxCb
  /\ state = "Configured" /\ eps = "CDC"

Command(m) ==
  /\ pc = "loop" /\ Idle /\ (Uart \/ Typed)
  /\ pc' = "shutdown" /\ target' = m
  /\ Disturb
  /\ UNCHANGED <<usbMode, flags, console, usb, line, host, done, told, late, missed>>

ModeShutdownKeepsConsole ==
  /\ pc = "shutdown"
  /\ pc' = IF usbMode = "NULL" THEN "select" ELSE "reset"
  /\ UNCHANGED <<usbMode, flags, console, target, usb, peer, late, missed>>

ModeShutdownOnly ==
  /\ pc = "shutdown"
  /\ pc' = "select"
  /\ putc' = IF usbMode = "CDC" THEN "none" ELSE putc
  /\ UNCHANGED <<usbMode, flags, rxCb, target, usb, peer, late, missed>>

\* usbdev_cdc_shutdown; the others do nothing.  USB_ShutDown follows if there
\* is something to shut down.
ModeShutdown ==
  /\ pc = "shutdown"
  /\ pc' = IF usbMode = "NULL" THEN "select" ELSE "reset"
  /\ putc' = IF usbMode = "CDC" THEN "none" ELSE putc
  /\ UNCHANGED <<usbMode, flags, rxCb, target, usb, peer, late, missed>>

\* USB_ResetInterface: the interrupts that wait are discarded, and they are
\* enabled again.
ResetInterface ==
  /\ irqs' = TRUE /\ attached' = TRUE
  /\ state' = "Unattached" /\ eps' = "none" /\ setup' = "none"

\* USB_ShutDown begins with it, and ends by detaching from the bus.
ShutDownReset ==
  /\ pc = "reset" /\ pc' = "detach"
  /\ ResetInterface /\ pending' = FALSE
  /\ UNCHANGED <<usbMode, flags, console, target, peer, late, missed>>

ShutDownDetach ==
  /\ pc = "detach" /\ pc' = "select"
  /\ irqs' = FALSE /\ pending' = FALSE /\ attached' = FALSE
  /\ host' = FALSE /\ done' = 0 /\ told' = {}
  /\ UNCHANGED <<usbMode, flags, console, target, state, eps, setup, line, events, late, missed>>

SelectMode ==
  /\ pc = "select" /\ pc' = "init"
  /\ usbMode' = target
  /\ UNCHANGED <<flags, console, target, usb, peer, late, missed>>

\* USB_Init; switching the pad on is a change of the line, if there is one.
UsbInit ==
  /\ pc = "init" /\ pc' = "loop"
  /\ ResetInterface /\ pending' = line
  /\ missed' = (connected /\ ~line)
  /\ UNCHANGED <<usbMode, flags, console, target, peer, late>>

-----------------------------------------------------------------------------
(* The host *)

\* The request that was under way stays in the endpoint.
Pull ==
  /\ line /\ Disturb
  /\ line' = FALSE /\ pending' = attached
  /\ host' = FALSE /\ done' = 0 /\ told' = {}
  /\ UNCHANGED <<usbMode, flags, console, pc, target, state, irqs, attached, eps, setup, late, missed>>

PlugIn ==
  /\ ~line /\ Disturb
  /\ line' = TRUE /\ pending' = attached
  /\ UNCHANGED <<usbMode, flags, console, pc, target, state, irqs, attached, eps, setup, host, done, told, late, missed>>

\* The interrupt of the reset, and the host that begins anew.
Reset ==
  /\ line /\ attached /\ irqs /\ Idle
  /\ state' = "Default" /\ eps' = "none" /\ setup' = "none"
  /\ host' = TRUE /\ done' = 0 /\ told' = {}
  /\ UNCHANGED <<usbMode, flags, console, pc, target, irqs, pending, attached, line, late, missed>>

FirstReset == ~host /\ Reset /\ UNCHANGED events
AnotherReset == host /\ Reset /\ Disturb

Ask(r) ==
  /\ host /\ setup = "none" /\ state # "Unattached"
  /\ setup' = r
  /\ UNCHANGED <<usbMode, flags, console, pc, target, state, irqs, pending, attached, eps, peer, late, missed>>

\* The device a host takes it for is the one that has described itself.
HostAsks ==
  \/ done < Len(Enumeration) /\ Ask(Enumeration[done + 1])
  \/ \E m \in told : done \in Len(Enumeration) .. Len(Talk(m)) - 1 /\ Ask(Talk(m)[done + 1])
HostTries == \E m \in told, r \in Optional : done = Len(Talk(m)) /\ Ask(r)

Init ==
  /\ usbMode = "NULL" /\ connected = FALSE /\ flag = [m \in Modes |-> FALSE]
  /\ putc = "none" /\ rxCb = FALSE
  /\ pc = "shutdown" /\ target \in Defaults
  /\ state = "Unattached" /\ irqs = FALSE /\ pending = FALSE
  /\ attached = FALSE /\ eps = "none" /\ setup = "none"
  /\ line \in BOOLEAN /\ host = FALSE /\ done = 0 /\ told = {} /\ events = 0
  /\ late = FALSE /\ missed = FALSE

UsbdevInit == ModeShutdown \/ ShutDownReset \/ ShutDownDetach \/ SelectMode \/ UsbInit

Next ==
  \/ UsbTask \/ Interrupt \/ UsbdevInit
  \/ \E m \in Commands : Command(m)
  \/ Pull \/ PlugIn \/ FirstReset \/ AnotherReset \/ HostAsks \/ HostTries

Spec == Init /\ [][Next]_vars

\* The processor goes on, and a host takes up a device that attaches.
FairSpec ==
  /\ Spec
  /\ WF_vars(UsbTask) /\ WF_vars(Interrupt) /\ WF_vars(UsbdevInit)
  /\ WF_vars(FirstReset) /\ WF_vars(HostAsks)

-----------------------------------------------------------------------------
(* Properties *)

\* Types.  "can't happen", says CALLBACK_USB_GetDescriptor of a request in no
\* mode: no request reaches the device before it has one.
TypeOK ==
  /\ usbMode \in Modes \cup {"NULL"} /\ target \in Modes
  /\ connected \in BOOLEAN /\ flag \in [Modes -> BOOLEAN]
  /\ putc \in {"none", "cdc"} /\ rxCb \in BOOLEAN
  /\ pc \in {"loop", "shutdown", "reset", "detach", "select", "init", "overrun"}
  /\ state \in {"Unattached", "Powered", "Default", "Configured"}
  /\ {irqs, pending, attached, line, host, late, missed} \subseteq BOOLEAN
  /\ eps \in Modes \cup {"none"} /\ told \subseteq Modes
  /\ usbMode = "NULL" => setup = "none" /\ ~irqs /\ ~attached

\* A host is never answered by two modes: whatever it has been told since it
\* reset the bus, and the endpoints it then uses, are those of the mode that
\* answers it now.
OneIdentity ==
  host => /\ told \subseteq {usbMode}
          /\ eps \in {"none", usbMode}
          /\ done >= Len(Enumeration) /\ pc # "detach" => eps = usbMode

\* Outside the serial port's mode the console has no way to usbdev_cdc_putc,
\* so that no control request is answered within itself; unless a connect came
\* between usbdev_cdc_shutdown and the end of USB_ShutDown.
ConsoleDetached ==
  (putc = "cdc" /\ usbMode # "CDC") \/ pc = "overrun" => late

\* The flags of usbdev.c and of the mode say whether there is a host, and the
\* serial port has its callbacks if they do, once the interrupt has been taken;
\* unless usbdev_init discarded it.
FlagsTrackLine ==
  pc = "loop" /\ Idle /\ ~missed =>
    /\ connected = line /\ flag[usbMode] = line
    /\ usbMode = "CDC" => rxCb = line /\ (putc = "cdc") = line

\* A change of mode ends with a host that has been through all of its requests
\* to a device of the new mode, if there is one and it stays.
SwitchEnds ==
  (pc = "shutdown" /\ line)
    ~> ((pc = "loop" /\ usbMode = target /\ host /\ done = Len(Talk(target)))
        \/ ~line \/ late)

=============================================================================
