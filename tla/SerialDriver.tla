---------------------------- MODULE SerialDriver ----------------------------
(***************************************************************************)
(* The callbacks of the serial class, src/src/class/ldal_serial.c, and the *)
(* port as termios describes it.  Baud rates, which pass through, and      *)
(* signals that interrupt select are left out.                             *)
(***************************************************************************)
EXTENDS Naturals

CONSTANTS
  DataBits,     \* the word lengths the program asks for
  Timeouts,     \* the timeouts it sets; 0 is none
  MaxInput      \* bound: bytes the port holds

VARIABLES
  port,         \* the flags of c_cflag
  opt, timeout, \* serial->opt, serial->timeout
  input,        \* how many bytes the port holds
  configured    \* ghost: options have been set since the port was opened

serialVars == <<port, opt, timeout, input, configured>>

Options == [bits : DataBits \cup {0, 8}, parity : {"none", "even", "odd"},
            stop : {"1", "1.5", "2"}, flow : BOOLEAN]

\* struct port_option as calloc leaves it: BITS_1P5 and PAR_NONE are 0.
ZeroOptions == [bits |-> 0, parity |-> "none", stop |-> "1.5", flow |-> FALSE]

\* serial_default_config: 8 data bits, 1 stop bit, nothing else
DefaultPort == [csize |-> 8, parenb |-> FALSE, parodd |-> FALSE,
                cstopb |-> FALSE, crtscts |-> FALSE]

Init ==
  /\ port = DefaultPort /\ opt = ZeroOptions
  /\ timeout = 0 /\ input = 0 /\ configured = FALSE

Open ==
  /\ port' = DefaultPort /\ input' = 0 /\ configured' = FALSE
  /\ UNCHANGED <<opt, timeout>>

\* The exit of serial_open before the configuration, with the port open.
OpenFails ==
  /\ input' = 0 /\ configured' = FALSE /\ UNCHANGED <<port, opt, timeout>>

Close == input' = 0 /\ UNCHANGED <<port, opt, timeout, configured>>

\* Seeded fault: without the clearing of PARODD.
KeepsOdd(o) == port.parodd \/ o.parity = "odd"

\* PARODD is left as it was when parity is off.
OddFlag(o) == o.parity = "odd" \/ (o.parity = "none" /\ port.parodd)

\* set_serial_options: a length or stop bits it does not know change nothing.
With(o) ==
  [csize   |-> IF o.bits \in 5 .. 8 THEN o.bits ELSE port.csize,
   parenb  |-> o.parity # "none",
   parodd  |-> OddFlag(o),
   cstopb  |-> IF o.stop = "1.5" THEN port.cstopb ELSE o.stop = "2",
   crtscts |-> o.flow]

\* get_serial_options
Reported ==
  [bits   |-> port.csize,
   parity |-> IF ~port.parenb THEN "none" ELSE IF port.parodd THEN "odd" ELSE "even",
   stop   |-> IF port.cstopb THEN "2" ELSE "1",
   flow   |-> port.crtscts]

SetOptions(o) ==
  /\ port' = With(o) /\ opt' = o
  /\ input' = 0 /\ configured' = TRUE /\ UNCHANGED timeout

\* tcsetattr fails after the flush.
SetOptionsFails == input' = 0 /\ UNCHANGED <<port, opt, timeout, configured>>

SetTimeout(n) == timeout' = n /\ UNCHANGED <<port, opt, input, configured>>

\* Seeded fault: the wait is for ever whatever the timeout.
NeverTimesOut == FALSE

TimesOut == timeout > 0

\* select, then up to five reads; with no timeout select waits for input.
Read ==
  /\ \/ \E n \in 1 .. input : input' = input - n
     \/ TimesOut /\ input = 0 /\ UNCHANGED input
  /\ UNCHANGED <<port, opt, timeout, configured>>

\* Writing, asking for the options, and what is refused as invalid.
Quiet == UNCHANGED serialVars

Arrives == input < MaxInput /\ input' = input + 1 /\ UNCHANGED <<port, opt, timeout, configured>>
=============================================================================
