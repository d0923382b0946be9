------------------------------- MODULE Serial -------------------------------
(***************************************************************************)
(* serial.cpp: the driver of a UART, one step per port access, with the    *)
(* device it polls and a remote end.  A port access is Outb or Inb of a    *)
(* register; the device (a 16550, not in the repository) shifts its bytes  *)
(* out and takes the remote's in whenever it likes.                        *)
(***************************************************************************)
EXTENDS Naturals, Sequences, SequencesExt

CONSTANTS
  FifoSize,    \* bytes of each of the device's FIFOs
  RemoteBytes, \* bytes the remote end sends
  Bytes,       \* bytes the driver's user writes
  MaxWrites,   \* bytes written in a behaviour
  MaxArrivals  \* bytes of the remote end in a behaviour

TestByte == 105 \* 0x69
ERROR_FAILED_TO_INIT == 1

ASSUME FifoAssumption == FifoSize \in Nat \ {0}
ASSUME BoundsAssumption == MaxWrites \in Nat /\ MaxArrivals \in Nat

COM_PORTS == {1016, 760, 1000, 744, 1528, 1272, 1512, 1256}

(* The eight registers of a port are no other port's, so that one port can *)
(* be modelled on its own, with the number of a register for port + number.*)
ASSUME PortsAssumption == \A p, q \in COM_PORTS : p < q => p + 8 <= q

(* A remote end that sends the byte of the loopback test passes the test   *)
(* in the device's place.                                                  *)
ASSUME RemoteAssumption ==
  /\ RemoteBytes \subseteq 0 .. 255 \ {TestByte}
  /\ Bytes \subseteq 0 .. 255

VARIABLES
  present,         \* is there a device at the port?
  ier, dll, dlm, lcr, mcr, \* its registers
  tx, rx,          \* its FIFOs
  pc, k, byte,     \* where the driver is, in which access, with which byte
  is_error, error, \* Stream's members
  sent,            \* what the remote end got
  arrivals,        \* bytes the remote end sent
  written, got     \* what write took and read returned

device == <<present, ier, dll, dlm, lcr, mcr, tx, rx>>
driver == <<pc, k, byte, is_error, error>>
remote == <<sent, arrivals>>
vars == <<device, driver, remote, written, got>>

-----------------------------------------------------------------------------
(* The device.                                                             *)

Bit(v, mask) == (v \div mask) % 2 = 1
Dlab        == Bit(lcr, 128)
Loopback    == Bit(mcr, 16)
DataReady   == rx # <<>>
Empty       == tx = <<>>

Outb(reg, v) ==
  /\ UNCHANGED present
  /\ ier' = IF present /\ reg = 1 /\ ~Dlab THEN v ELSE ier
  /\ dll' = IF present /\ reg = 0 /\ Dlab THEN v ELSE dll
  /\ dlm' = IF present /\ reg = 1 /\ Dlab THEN v ELSE dlm
  /\ lcr' = IF present /\ reg = 3 THEN v ELSE lcr
  /\ mcr' = IF present /\ reg = 4 THEN v ELSE mcr
  /\ tx' = IF present /\ reg = 0 /\ ~Dlab /\ Len(tx) < FifoSize THEN Append(tx, v)
           ELSE IF present /\ reg = 2 /\ Bit(v, 4) THEN <<>> ELSE tx
  /\ rx' = IF present /\ reg = 2 /\ Bit(v, 2) THEN <<>> ELSE rx
  /\ UNCHANGED remote

(* What inb(port + 0) reads: the oldest byte, 0 of an empty FIFO, ones     *)
(* where no device is.                                                     *)
InData == IF ~present THEN 255 ELSE IF DataReady THEN Head(rx) ELSE 0
TakeData == rx' = IF present /\ DataReady THEN Tail(rx) ELSE rx

Push(q, b) == IF Len(q) < FifoSize THEN Append(q, b) ELSE q

Shift ==
  /\ present /\ tx # <<>> /\ tx' = Tail(tx)
  /\ IF Loopback
       THEN rx' = Push(rx, Head(tx)) /\ UNCHANGED sent
       ELSE sent' = Append(sent, Head(tx)) /\ UNCHANGED rx
  /\ UNCHANGED <<present, ier, dll, dlm, lcr, mcr, driver, arrivals, written, got>>

Arrive(b) ==
  /\ present /\ arrivals < MaxArrivals /\ arrivals' = arrivals + 1
  /\ rx' = IF Loopback THEN rx ELSE Push(rx, b)
  /\ UNCHANGED <<present, ier, dll, dlm, lcr, mcr, tx, driver, sent, written, got>>

-----------------------------------------------------------------------------
(* Stream::Stream.                                                         *)

\* Mutant: the test byte is written before the loopback is on.
InitWritesTestFirst ==
  <<<<1, 0>>, <<3, 128>>, <<0, 3>>, <<1, 0>>, <<3, 3>>, <<2, 199>>, <<4, 11>>, <<0, TestByte>>, <<4, 30>>>>

(* The register and the value of each outb before the test.                *)
InitWrites ==
  <<<<1, 0>>, <<3, 128>>, <<0, 3>>, <<1, 0>>, <<3, 3>>, <<2, 199>>, <<4, 11>>, <<4, 30>>, <<0, TestByte>>>>

Configure ==
  /\ pc = "configure" /\ k <= Len(InitWrites)
  /\ Outb(InitWrites[k][1], InitWrites[k][2])
  /\ k' = k + 1
  /\ pc' = IF k = Len(InitWrites) THEN "test" ELSE pc
  /\ UNCHANGED <<byte, is_error, error, written, got>>

Test ==
  /\ pc = "test"
  /\ IF InData # TestByte
       THEN pc' = "failed" /\ error' = ERROR_FAILED_TO_INIT /\ is_error' = TRUE
       ELSE pc' = "normal" /\ UNCHANGED <<error, is_error>>
  /\ TakeData
  /\ UNCHANGED <<present, ier, dll, dlm, lcr, mcr, tx, k, byte, remote, written, got>>

\* Mutant: the port stays in loopback mode.
NormalDropped ==
  /\ pc = "normal" /\ pc' = "ready" /\ is_error' = FALSE
  /\ UNCHANGED <<device, k, byte, error, remote, written, got>>

Normal ==
  /\ pc = "normal" /\ pc' = "ready" /\ is_error' = FALSE
  /\ Outb(4, 15)
  /\ UNCHANGED <<k, byte, error, written, got>>

has_error == is_error

error_to_str ==
  CASE error = ERROR_FAILED_TO_INIT -> "Failed to init port" [] OTHER -> "Unknown error"

-----------------------------------------------------------------------------
(* write and read of a port whose constructor reported no error.           *)

Goto(l) == pc' = l /\ UNCHANGED <<device, k, is_error, error, remote, got>>

Write(b) ==
  /\ pc = "ready" /\ Len(written) < MaxWrites
  /\ byte' = b /\ written' = Append(written, b)
  /\ Goto("write")

\* Mutant: the test of is_transmit_empty is the other way round.
WriteReadyInverted == pc = "write" /\ ~Empty /\ Goto("write_out") /\ UNCHANGED <<byte, written>>

(* while(is_transmit_empty() == 0): a poll that fails changes nothing.     *)
WriteReady == pc = "write" /\ Empty /\ Goto("write_out") /\ UNCHANGED <<byte, written>>

WriteOut ==
  /\ pc = "write_out" /\ pc' = "ready"
  /\ Outb(0, byte)
  /\ UNCHANGED <<k, byte, is_error, error, written, got>>

Read == pc = "ready" /\ Goto("read") /\ UNCHANGED <<byte, written>>

(* while(serial_recived() == 0).                                           *)
ReadReady == pc = "read" /\ DataReady /\ Goto("read_in") /\ UNCHANGED <<byte, written>>

ReadIn ==
  /\ pc = "read_in" /\ pc' = "ready"
  /\ got' = Append(got, InData)
  /\ TakeData
  /\ UNCHANGED <<present, ier, dll, dlm, lcr, mcr, tx, k, byte, is_error, error, remote, written>>

-----------------------------------------------------------------------------
(* The port as a reset, or an earlier user, leaves it; rx may hold bytes.  *)
Init ==
  /\ present \in BOOLEAN
  /\ ier \in {0, 1} /\ dll = 1 /\ dlm = 0 /\ lcr \in {0, 3} /\ mcr \in {0, 15}
  /\ tx = <<>> /\ rx \in {<<>>} \cup {<<b>> : b \in RemoteBytes}
  /\ pc = "configure" /\ k = 1 /\ byte = 0 /\ is_error \in BOOLEAN /\ error \in {0, 1}
  /\ sent = <<>> /\ arrivals = 0
  /\ written = <<>> /\ got = <<>>

Driver ==
  \/ Configure \/ Test \/ Normal
  \/ WriteReady \/ WriteOut \/ ReadReady \/ ReadIn

Next ==
  \/ Driver \/ Read \/ \E b \in Bytes : Write(b)
  \/ Shift \/ \E b \in RemoteBytes : Arrive(b)

(* The CPU runs the driver, the device shifts bytes out; the remote end    *)
(* need not send any.                                                      *)
Spec == Init /\ [][Next]_vars /\ WF_vars(Driver) /\ WF_vars(Shift)

-----------------------------------------------------------------------------
(* Properties.                                                             *)

Usable == {"ready", "write", "write_out", "read", "read_in"}

(* A port without an error is one with a device, set up as the constructor *)
(* means it: divisor 3, latch closed, no interrupts, no loopback; and one  *)
(* that failed says why, whatever was in the members before.               *)
GoodPort ==
  /\ pc \in Usable =>
       /\ present /\ ~has_error
       /\ dll = 3 /\ dlm = 0 /\ lcr = 3 /\ ier = 0 /\ ~Loopback
  /\ pc = "failed" => has_error /\ error_to_str = "Failed to init port"

(* A usable port is a pair of channels: the remote end gets what write     *)
(* took, in order, nothing lost to a full FIFO and never the byte of the   *)
(* loopback test; read returns what the device accepted and nothing else.  *)
Line == INSTANCE SerialLine WITH
  open    <- pc \in Usable,
  written <- IF pc \in {"write", "write_out"} THEN Front(written) ELSE written,
  out     <- IF pc \in Usable THEN tx ELSE <<>>,
  in      <- IF pc \in Usable THEN rx ELSE <<>>
IsLine == Line!Spec

(* A write always returns, and so does a read once there is a byte.        *)
CallsReturn ==
  /\ pc = "write" ~> pc = "ready"
  /\ (pc = "read" /\ DataReady) ~> pc = "ready"

=============================================================================
