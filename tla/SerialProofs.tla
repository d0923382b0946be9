---------------------------- MODULE SerialProofs -----------------------------
(* Proofs about module Serial, for every value of its constants.           *)
EXTENDS Serial, SequenceTheorems, TLAPS

-----------------------------------------------------------------------------
(* The inductive invariant.                                                *)

Types ==
  /\ pc \in Usable \cup {"configure", "test", "normal", "failed"}
  /\ k \in Nat \ {0} /\ byte \in Nat
  /\ tx \in Seq(Nat) /\ rx \in Seq(Nat)
  /\ sent \in Seq(Nat) /\ written \in Seq(Nat) /\ got \in Seq(Nat)

(* How many of InitWrites the device has got.                              *)
Done == IF pc = "configure" THEN k - 1 ELSE 9

(* The registers after each of them: they count on the latch being open    *)
(* and closed at the right moments.                                        *)
Registers ==
  /\ Done \in 0 .. 9 /\ (pc = "configure" => Done < 9)
  /\ present =>
       /\ Done >= 1 => ier = 0
       /\ Done < 2 => lcr \in {0, 3}
       /\ Done \in 2 .. 4 => lcr = 128
       /\ Done >= 5 => lcr = 3
       /\ Done >= 3 => dll = 3
       /\ dlm = 0
       /\ Done < 8 => mcr \in {0, 11, 15}
       /\ Done >= 8 /\ pc \notin Usable => mcr = 30
       /\ pc \in Usable => mcr = 15

(* Between the clearing of the FIFOs and the test the device takes bytes   *)
(* of the remote end until the loopback is on, and the test byte last.     *)
Fifos ==
  /\ Done < 9 \/ ~present => tx = <<>>
  /\ present /\ (Done \in 6 .. 8 \/ pc \in Usable) => rx \in Seq(RemoteBytes)
  /\ present /\ pc = "test" =>
       /\ Len(tx) <= 1
       /\ \A i \in 1 .. Len(rx) : rx[i] = TestByte => i = Len(rx) /\ tx = <<>>
  /\ pc = "normal" => tx = <<>> /\ rx = <<>>

(* What the driver knows at each step of a call.                           *)
Calls ==
  /\ pc = "failed" => is_error /\ error = ERROR_FAILED_TO_INIT
  /\ pc = "normal" \/ pc \in Usable => present
  /\ pc \in Usable => ~is_error
  /\ pc \notin Usable => sent = <<>> /\ written = <<>> /\ got = <<>>
  /\ pc \in {"write", "write_out"} =>
       written # <<>> /\ byte \in Bytes /\ written[Len(written)] = byte
  /\ pc = "write_out" => tx = <<>>
  /\ pc = "read_in" => rx # <<>>

IInv == Types /\ Registers /\ Fifos /\ Calls

-----------------------------------------------------------------------------
(* The operators of the device.                                            *)

(* The program of the constructor.                                         *)
LEMMA InitWritesFacts ==
  /\ Len(InitWrites) = 9
  /\ InitWrites[1] = <<1, 0>> /\ InitWrites[2] = <<3, 128>> /\ InitWrites[3] = <<0, 3>>
  /\ InitWrites[4] = <<1, 0>> /\ InitWrites[5] = <<3, 3>> /\ InitWrites[6] = <<2, 199>>
  /\ InitWrites[7] = <<4, 11>> /\ InitWrites[8] = <<4, 30>> /\ InitWrites[9] = <<0, TestByte>>
  /\ \A i \in 1 .. 9 : InitWrites[i][2] \in Nat
BY DEF InitWrites, TestByte

(* The bits that matter of the values that are written.                    *)
LEMMA BitFacts ==
  /\ ~Bit(0, 128) /\ ~Bit(3, 128) /\ Bit(128, 128)
  /\ Bit(199, 4) /\ Bit(199, 2)
  /\ ~Bit(0, 16) /\ ~Bit(11, 16) /\ ~Bit(15, 16) /\ Bit(30, 16)
BY DEF Bit

(* The oldest byte of a FIFO, and the others.                              *)
LEMMA FifoFacts ==
  ASSUME NEW S, NEW q \in Seq(S), q # <<>>
  PROVE  /\ Head(q) \in S /\ Head(q) = q[1] /\ Len(q) \in Nat /\ Len(q) >= 1
         /\ Tail(q) \in Seq(S) /\ Len(Tail(q)) = Len(q) - 1
         /\ \A i \in 1 .. Len(q) - 1 : Tail(q)[i] = q[i + 1]
<1>1. Len(q) \in Nat /\ Len(q) >= 1
  BY EmptySeq
<1> QED
  BY <1>1, HeadTailProperties

(* A FIFO that is full drops what comes.                                   *)
LEMMA PushFacts ==
  ASSUME NEW S, NEW q \in Seq(S), NEW b \in S
  PROVE  /\ Push(q, b) \in Seq(S)
         /\ Push(q, b) = q \/ Push(q, b) = Append(q, b)
BY DEF Push

-----------------------------------------------------------------------------
(* Type correctness.                                                       *)

(* The ports as the driver finds them.                                     *)
LEMMA InitType == Init => Types
<1> SUFFICES ASSUME Init PROVE Types
  OBVIOUS
<1>1. rx \in Seq(Nat)
  <2>1. CASE rx = <<>>
    BY <2>1
  <2>2. CASE rx \in {<<b>> : b \in RemoteBytes}
    <3>1. PICK b \in RemoteBytes : rx = <<b>>
      BY <2>2
    <3>2. b \in Nat
      BY RemoteAssumption
    <3> QED
      BY <3>1, <3>2
  <2> QED
    BY <2>1, <2>2 DEF Init
<1> QED
  BY <1>1 DEF Init, Types

(* What a port access does to the FIFOs.                                   *)
LEMMA OutbType ==
  ASSUME Types, NEW reg, NEW v \in Nat, Outb(reg, v)
  PROVE  tx' \in Seq(Nat) /\ rx' \in Seq(Nat) /\ sent' = sent /\ present' = present
BY DEF Types, Outb, remote

(* Every action keeps the types.                                           *)
LEMMA NextType == Types /\ [Next]_vars => Types'
<1> SUFFICES ASSUME Types, [Next]_vars PROVE Types'
  OBVIOUS
<1> USE DEF Types, Usable
<1>0. TestByte \in Nat /\ Bytes \subseteq Nat /\ RemoteBytes \subseteq Nat
  BY RemoteAssumption DEF TestByte
<1>1. CASE Configure
  <2>1. k \in 1 .. 9 /\ Outb(InitWrites[k][1], InitWrites[k][2])
    <3>1. k \in Nat \ {0} /\ Len(InitWrites) = 9
      BY InitWritesFacts
    <3> QED
      BY <1>1, <3>1 DEF Configure
  <2>2. InitWrites[k][2] \in Nat
    BY <1>0, <2>1, InitWritesFacts
  <2>3. tx' \in Seq(Nat) /\ rx' \in Seq(Nat) /\ sent' = sent
    BY <2>1, <2>2, OutbType
  <2> QED
    BY <1>1, <2>3 DEF Configure
<1>2. ASSUME TakeData PROVE rx' \in Seq(Nat)
  BY <1>2, FifoFacts DEF TakeData, DataReady
<1>3. InData \in Nat
  BY FifoFacts DEF InData, DataReady
<1>4. CASE Test
  BY <1>2, <1>4 DEF Test, remote
<1>5. CASE Normal
  BY <1>5, OutbType DEF Normal
<1>6. CASE WriteReady \/ ReadReady \/ Read
  BY <1>6 DEF WriteReady, ReadReady, Read, Goto, device, remote
<1>7. CASE WriteOut
  BY <1>7, OutbType DEF WriteOut
<1>8. CASE ReadIn
  BY <1>2, <1>3, <1>8 DEF ReadIn, remote
<1>9. ASSUME NEW b \in Bytes, Write(b) PROVE Types'
  BY <1>0, <1>9 DEF Write, Goto, device, remote
<1>10. CASE Shift
  <2>1. Head(tx) \in Nat /\ Tail(tx) \in Seq(Nat)
    BY <1>10, FifoFacts DEF Shift
  <2>2. Push(rx, Head(tx)) \in Seq(Nat)
    BY <2>1, PushFacts
  <2>3. sent' \in Seq(Nat) /\ rx' \in Seq(Nat)
    <3>1. Append(sent, Head(tx)) \in Seq(Nat)
      BY <2>1
    <3>2. \/ rx' = Push(rx, Head(tx)) /\ sent' = sent
          \/ sent' = Append(sent, Head(tx)) /\ rx' = rx
      BY <1>10, Zenon DEF Shift
    <3> QED
      BY <2>2, <3>1, <3>2
  <2>4. tx' \in Seq(Nat)
    BY <1>10, <2>1 DEF Shift
  <2> QED
    BY <1>10, <2>3, <2>4, Zenon DEF Shift, driver
<1>11. ASSUME NEW b \in RemoteBytes, Arrive(b) PROVE Types'
  <2>1. Push(rx, b) \in Seq(Nat)
    BY <1>0, PushFacts
  <2> QED
    BY <1>11, <2>1 DEF Arrive, driver
<1>12. CASE UNCHANGED vars
  BY <1>12 DEF vars, device, driver, remote
<1> QED
  BY <1>1, <1>4, <1>5, <1>6, <1>7, <1>8, <1>9, <1>10, <1>11, <1>12 DEF Next, Driver

(* The variables of the driver and its device keep their types.            *)
LEMMA TypesInvariant == Spec => []Types
BY InitType, NextType, PTL DEF Spec

-----------------------------------------------------------------------------
(* The registers.                                                          *)

(* The constructor's writes: each finds the latch as it needs it.          *)
LEMMA ConfigureRegisters ==
  ASSUME Types, Registers, Configure
  PROVE  Registers' /\ Done' = Done + 1
<1>1. /\ pc = "configure" /\ k \in 1 .. 9 /\ Outb(InitWrites[k][1], InitWrites[k][2])
      /\ k' = k + 1 /\ pc' = IF k = 9 THEN "test" ELSE pc
  <2>1. k \in Nat \ {0} /\ Len(InitWrites) = 9
    BY InitWritesFacts DEF Types
  <2> QED
    BY <2>1 DEF Configure
<1>2. Done = k - 1 /\ Done' = k
  BY <1>1 DEF Done
<1>3. present' = present /\ Done' \in 0 .. 9 /\ (pc' = "configure" => Done' < 9)
      /\ pc' \notin Usable
  BY <1>1, <1>2 DEF Outb, Usable
<1>4. ASSUME present
      PROVE  /\ Done' >= 1 => ier' = 0
             /\ Done' < 2 => lcr' \in {0, 3}
             /\ Done' \in 2 .. 4 => lcr' = 128
             /\ Done' >= 5 => lcr' = 3
             /\ Done' >= 3 => dll' = 3
             /\ dlm' = 0
             /\ Done' < 8 => mcr' \in {0, 11, 15}
             /\ Done' >= 8 => mcr' = 30
  <2>1. /\ k - 1 >= 1 => ier = 0
        /\ k - 1 < 2 => lcr \in {0, 3}
        /\ k - 1 \in 2 .. 4 => lcr = 128
        /\ k - 1 >= 5 => lcr = 3
        /\ k - 1 >= 3 => dll = 3
        /\ dlm = 0
        /\ k - 1 < 8 => mcr \in {0, 11, 15}
        /\ k - 1 >= 8 => mcr = 30
    BY <1>1, <1>2, <1>4 DEF Registers, Usable
  <2>2. /\ k - 1 < 2 \/ k - 1 >= 5 => ~Dlab
        /\ k - 1 \in 2 .. 4 => Dlab
    BY <1>1, <2>1, BitFacts DEF Dlab
  <2>3. CASE k = 1 \/ k = 2 \/ k = 3
    BY <1>1, <1>2, <1>4, <2>1, <2>2, <2>3, InitWritesFacts DEF Outb
  <2>4. CASE k = 4 \/ k = 5 \/ k = 6
    BY <1>1, <1>2, <1>4, <2>1, <2>2, <2>4, InitWritesFacts DEF Outb
  <2>5. CASE k = 7 \/ k = 8 \/ k = 9
    BY <1>1, <1>2, <1>4, <2>1, <2>2, <2>5, InitWritesFacts DEF Outb
  <2> QED
    BY <1>1, <2>3, <2>4, <2>5
<1> QED
  BY <1>2, <1>3, <1>4 DEF Registers

(* Every action keeps them.                                                *)
LEMMA NextRegisters == Types /\ Registers /\ [Next]_vars => Registers'
<1> SUFFICES ASSUME Types, Registers, [Next]_vars PROVE Registers'
  OBVIOUS
<1>1. CASE Configure
  BY <1>1, ConfigureRegisters
<1>2. CASE UNCHANGED <<present, ier, dll, dlm, lcr, mcr>>
  <2>1. Done' = Done /\ (pc' \in Usable <=> pc \in Usable)
          /\ (pc' = "configure" <=> pc = "configure")
         => Registers'
    BY <1>2 DEF Registers, Done
  <2>2. CASE Test
    <3>1. Done = 9 /\ Done' = 9 /\ pc \notin Usable /\ pc' \notin Usable
          /\ pc # "configure" /\ pc' # "configure"
      BY <2>2 DEF Test, Done, Usable
    <3> QED
      BY <2>1, <3>1
  <2>3. CASE WriteReady \/ ReadReady \/ Read \/ ReadIn
    <3>1. Done = 9 /\ Done' = 9 /\ pc \in Usable /\ pc' \in Usable
          /\ pc # "configure" /\ pc' # "configure"
      BY <2>3 DEF WriteReady, ReadReady, Read, Goto, ReadIn, Done, Usable
    <3> QED
      BY <2>1, <3>1
  <2>4. ASSUME NEW b \in Bytes, Write(b) PROVE Registers'
    <3>1. Done = 9 /\ Done' = 9 /\ pc \in Usable /\ pc' \in Usable
          /\ pc # "configure" /\ pc' # "configure"
      BY <2>4 DEF Write, Goto, Done, Usable
    <3> QED
      BY <2>1, <3>1
  <2>5. CASE Shift \/ (\E b \in RemoteBytes : Arrive(b)) \/ UNCHANGED vars
    <3>1. pc' = pc /\ k' = k
      BY <2>5 DEF Shift, Arrive, driver, vars
    <3> QED
      BY <2>1, <3>1 DEF Done
  <2>6. CASE Normal \/ WriteOut
    <3>1. \/ Outb(4, 15) /\ pc = "normal" /\ pc' = "ready"
          \/ Outb(0, byte) /\ pc = "write_out" /\ pc' = "ready"
      BY <2>6 DEF Normal, WriteOut
    <3>2. CASE Outb(4, 15) /\ pc = "normal" /\ pc' = "ready"
      BY <1>2, <3>2 DEF Outb, Registers, Done, Usable
    <3>3. CASE Outb(0, byte) /\ pc = "write_out" /\ pc' = "ready"
      BY <1>2, <3>3 DEF Registers, Done, Usable
    <3> QED
      BY <3>1, <3>2, <3>3
  <2> QED
    BY <1>1, <2>2, <2>3, <2>4, <2>5, <2>6 DEF Next, Driver
<1>3. CASE Normal
  <2>1. Outb(4, 15) /\ pc = "normal" /\ pc' = "ready"
    BY <1>3 DEF Normal
  <2> QED
    BY <2>1 DEF Outb, Registers, Done, Usable
<1>4. CASE WriteOut
  <2>1. Outb(0, byte) /\ pc = "write_out" /\ pc' = "ready"
    BY <1>4 DEF WriteOut
  <2>2. present => ~Dlab
    BY <2>1, BitFacts DEF Registers, Done, Usable, Dlab
  <2> QED
    BY <2>1, <2>2 DEF Outb, Registers, Done, Usable
<1> QED
  BY <1>1, <1>2, <1>3, <1>4
     DEF Next, Driver, Test, WriteReady, ReadReady, Read, ReadIn, Goto, Write, Shift, Arrive,
         vars, device

(* In which mode the device is while it matters.                           *)
LEMMA ModeFacts ==
  ASSUME Types, Registers, present
  PROVE  /\ pc \in Usable => ~Loopback /\ ~Dlab
         /\ Done = 9 /\ pc \notin Usable => Loopback
BY BitFacts DEF Registers, Loopback, Dlab, Done, Usable

-----------------------------------------------------------------------------
(* The FIFOs.                                                              *)

(* A port access other than the clearing one keeps the received bytes.     *)
LEMMA OutbFifos ==
  ASSUME NEW reg, NEW v, Outb(reg, v)
  PROVE  /\ present' = present /\ sent' = sent
         /\ reg # 2 => rx' = rx
         /\ reg # 2 /\ reg # 0 => tx' = tx
         /\ ~present => tx' = tx /\ rx' = rx
BY DEF Outb, remote

(* The constructor's writes.                                               *)
LEMMA ConfigureFifos ==
  ASSUME Types, Registers, Fifos, Configure
  PROVE  Fifos'
<1>1. /\ pc = "configure" /\ k \in 1 .. 9 /\ Outb(InitWrites[k][1], InitWrites[k][2])
      /\ k' = k + 1 /\ pc' = IF k = 9 THEN "test" ELSE pc
  <2>1. k \in Nat \ {0} /\ Len(InitWrites) = 9
    BY InitWritesFacts DEF Types
  <2> QED
    BY <2>1 DEF Configure
<1>2. Done = k - 1 /\ Done' = k /\ tx = <<>> /\ present' = present
  BY <1>1 DEF Done, Fifos, Outb
<1>3. pc' \notin Usable /\ pc' # "normal" /\ (pc' = "test" => k = 9)
  BY <1>1 DEF Usable
<1>4. CASE ~present
  BY <1>1, <1>2, <1>3, <1>4, OutbFifos DEF Fifos
<1>5. CASE present /\ k <= 5
  <2>1. tx' = tx
    <3>1. k = 3 => Dlab
      BY <1>2, <1>5, BitFacts DEF Registers, Dlab
    <3>2. k = 1 \/ k = 2 \/ k = 3 \/ k = 4 \/ k = 5
      BY <1>1, <1>5
    <3> QED
      BY SMTT(20), <1>1, <3>1, <3>2, InitWritesFacts DEF Outb
  <2> QED
    BY <1>1, <1>2, <1>3, <1>5, <2>1 DEF Fifos
<1>6. CASE present /\ k = 6
  <2>1. tx' = <<>> /\ rx' = <<>>
    BY <1>1, <1>2, <1>6, InitWritesFacts, BitFacts DEF Outb
  <2> QED
    BY <1>1, <1>2, <1>3, <1>6, <2>1 DEF Fifos
<1>7. CASE present /\ (k = 7 \/ k = 8)
  <2>1. tx' = tx /\ rx' = rx
    <3>1. PICK v : Outb(4, v)
      BY <1>1, <1>7, InitWritesFacts
    <3> QED
      BY <3>1, OutbFifos
  <2>2. rx \in Seq(RemoteBytes)
    BY <1>2, <1>7 DEF Fifos
  <2> QED
    BY <1>1, <1>2, <1>3, <1>7, <2>1, <2>2 DEF Fifos
<1>8. CASE present /\ k = 9
  <2>1. Outb(0, TestByte)
    BY <1>1, <1>8, InitWritesFacts
  <2>2. rx' = rx /\ (tx' = tx \/ tx' = Append(tx, TestByte))
    BY <2>1 DEF Outb
  <2>3. rx \in Seq(RemoteBytes)
    BY <1>2, <1>8 DEF Fifos
  <2>4. \A i \in 1 .. Len(rx) : rx[i] # TestByte
    <3>1. TestByte \notin RemoteBytes
      BY RemoteAssumption
    <3> QED
      BY <2>3, <3>1
  <2>5. Len(tx') <= 1
    <3>1. TestByte \in Nat /\ tx \in Seq(Nat) /\ Len(tx) = 0
      BY <1>2 DEF Types, TestByte
    <3> QED
      BY <2>2, <3>1, AppendProperties
  <2> QED
    BY <1>1, <1>2, <1>3, <1>8, <2>2, <2>4, <2>5 DEF Fifos
<1> QED
  BY <1>1, <1>4, <1>5, <1>6, <1>7, <1>8

(* The test passes on the test byte alone, which is then the last byte in  *)
(* the device.                                                             *)
LEMMA TestFacts ==
  ASSUME Types, Fifos, Test, pc' = "normal"
  PROVE  present /\ tx = <<>> /\ rx' = <<>>
<1>1. pc = "test" /\ InData = TestByte /\ TakeData
  BY DEF Test
<1>2. present /\ DataReady /\ Head(rx) = TestByte
  BY <1>1 DEF InData, TestByte
<1>3. rx # <<>> /\ rx \in Seq(Nat)
  BY <1>2 DEF DataReady, Types
<1>4. /\ Head(rx) = rx[1] /\ Len(rx) \in Nat /\ Len(rx) >= 1
      /\ Tail(rx) \in Seq(Nat) /\ Len(Tail(rx)) = Len(rx) - 1
  BY <1>3, FifoFacts
<1>5. 1 = Len(rx) /\ tx = <<>>
  <2>1. 1 \in 1 .. Len(rx) /\ rx[1] = TestByte
    BY <1>2, <1>4
  <2> QED
    BY <1>1, <1>2, <2>1 DEF Fifos
<1>6. Tail(rx) = <<>>
  <2>1. Len(rx) = 1
    BY <1>5
  <2> DEFINE t == Tail(rx)
  <2>2. t \in Seq(Nat) /\ Len(t) = 1 - 1
    BY <1>4, <2>1, Zenon
  <2> HIDE DEF t
  <2>3. t = <<>>
    BY <2>2, EmptySeq
  <2> QED
    BY <2>3 DEF t
<1> QED
  BY <1>1, <1>2, <1>5, <1>6 DEF TakeData

(* Every action keeps the description of the FIFOs.                        *)
LEMMA NextFifos == Types /\ Registers /\ Fifos /\ Calls /\ [Next]_vars => Fifos'
<1> SUFFICES ASSUME Types, Registers, Fifos, Calls, [Next]_vars PROVE Fifos'
  OBVIOUS
<1>0. RemoteBytes \subseteq Nat
  BY RemoteAssumption
<1>1. CASE Configure
  BY <1>1, ConfigureFifos
<1>2. CASE Test
  <2>1. /\ pc = "test" /\ pc' \in {"failed", "normal"} /\ tx' = tx /\ present' = present
        /\ Done = 9 /\ Done' = 9
    BY <1>2 DEF Test, Done
  <2>2. CASE pc' = "failed"
    BY <2>1, <2>2 DEF Fifos, Usable
  <2>3. CASE pc' = "normal"
    <3>1. present /\ tx = <<>> /\ rx' = <<>>
      BY <1>2, <2>3, TestFacts
    <3> QED
      BY <2>1, <2>3, <3>1 DEF Fifos, Usable
  <2> QED
    BY <2>1, <2>2, <2>3
<1>3. CASE Normal
  <2>1. /\ pc = "normal" /\ pc' = "ready" /\ tx' = tx /\ rx' = rx /\ present' = present
        /\ Done' = 9
    BY <1>3, OutbFifos DEF Normal, Done
  <2>2. tx = <<>> /\ rx = <<>>
    BY <2>1 DEF Fifos
  <2> QED
    BY <2>1, <2>2 DEF Fifos
<1>4. ASSUME pc \in Usable, pc' \in Usable, present' = present,
             rx' = rx \/ (rx # <<>> /\ rx' = Tail(rx)) \/ (\E b \in RemoteBytes : rx' = Push(rx, b))
      PROVE  Fifos'
  <2>1. present /\ rx \in Seq(RemoteBytes)
    BY <1>4 DEF Calls, Fifos
  <2>2. rx' \in Seq(RemoteBytes)
    BY <1>4, <2>1, FifoFacts, PushFacts
  <2>3. Done' = 9 /\ pc' # "test" /\ pc' # "normal" /\ pc' # "configure"
    BY <1>4 DEF Done, Usable
  <2> QED
    BY <1>4, <2>1, <2>2, <2>3 DEF Fifos
<1>5. CASE WriteReady \/ ReadReady \/ Read \/ \E b \in Bytes : Write(b)
  BY <1>4, <1>5 DEF WriteReady, ReadReady, Read, Write, Goto, device, Usable
<1>6. CASE WriteOut
  BY <1>4, <1>6, OutbFifos DEF WriteOut, Usable
<1>7. CASE ReadIn
  BY <1>4, <1>7 DEF ReadIn, TakeData, DataReady, Usable
<1>8. CASE Shift
  <2>1. /\ present /\ tx # <<>> /\ tx' = Tail(tx) /\ present' = present /\ pc' = pc
        /\ k' = k /\ Done' = Done
    BY <1>8 DEF Shift, driver, Done
  <2>2. Done = 9
    BY <2>1 DEF Fifos, Registers
  <2>3. CASE pc \in Usable
    <3>1. ~Loopback
      BY <2>1, <2>3, ModeFacts
    <3>2. rx' = rx
      BY <1>8, <3>1 DEF Shift
    <3> QED
      BY <1>4, <2>1, <2>3, <3>2
  <2>4. CASE pc = "test"
    <3>1. Loopback
      BY <2>1, <2>2, <2>4, ModeFacts DEF Usable
    <3>2. rx' = Push(rx, Head(tx))
      BY <1>8, <3>1 DEF Shift
    <3>3. tx \in Seq(Nat) /\ rx \in Seq(Nat) /\ Len(tx) <= 1
      BY <2>1, <2>4 DEF Types, Fifos
    <3>4. /\ Head(tx) \in Nat /\ Len(tx) >= 1 /\ Len(tx) \in Nat
          /\ Tail(tx) \in Seq(Nat) /\ Len(Tail(tx)) = Len(tx) - 1
      BY <2>1, <3>3, FifoFacts
    <3>5. Tail(tx) = <<>>
      BY <3>3, <3>4, EmptySeq
    <3>6. \A i \in 1 .. Len(rx) : rx[i] # TestByte
      BY <2>1, <2>4 DEF Fifos
    <3>7. rx' = rx \/ rx' = Append(rx, Head(tx))
      BY <3>2, <3>3, <3>4, PushFacts
    <3>8. \A i \in 1 .. Len(rx') : rx'[i] = TestByte => i = Len(rx')
      <4>1. CASE rx' = rx
        BY <3>6, <4>1
      <4>2. CASE rx' = Append(rx, Head(tx))
        <5>1. /\ Len(rx') = Len(rx) + 1 /\ Len(rx) \in Nat
              /\ \A i \in 1 .. Len(rx) : rx'[i] = rx[i]
          BY <3>3, <3>4, <4>2, AppendProperties
        <5> QED
          BY <3>6, <5>1
      <4> QED
        BY <3>7, <4>1, <4>2
    <3> QED
      BY <2>1, <2>2, <2>4, <3>5, <3>8 DEF Fifos, Usable
  <2>5. CASE pc = "failed"
    BY <2>1, <2>2, <2>5 DEF Fifos, Usable
  <2>6. pc # "configure" /\ pc # "normal"
    BY <2>1, <2>2 DEF Fifos, Done, Registers
  <2> QED
    BY <2>3, <2>4, <2>5, <2>6 DEF Types
<1>9. ASSUME NEW b \in RemoteBytes, Arrive(b) PROVE Fifos'
  <2>1. /\ present /\ tx' = tx /\ present' = present /\ pc' = pc /\ k' = k /\ Done' = Done
        /\ Loopback => rx' = rx
        /\ rx' = rx \/ rx' = Push(rx, b)
    BY <1>9 DEF Arrive, driver, Done
  <2>2. CASE pc \in Usable
    BY <1>4, <2>1, <2>2
  <2>3. CASE Done = 9 /\ pc \notin Usable
    <3>1. rx' = rx
      BY <2>1, <2>3, ModeFacts
    <3> QED
      BY <2>1, <2>3, <3>1 DEF Fifos
  <2>4. CASE Done # 9
    <3>1. pc = "configure"
      BY <2>4 DEF Done
    <3>2. Done \in 6 .. 8 => rx' \in Seq(RemoteBytes)
      <4>1. SUFFICES ASSUME Done \in 6 .. 8 PROVE rx' \in Seq(RemoteBytes)
        OBVIOUS
      <4>2. rx \in Seq(RemoteBytes)
        BY <2>1, <4>1 DEF Fifos
      <4> QED
        BY <2>1, <4>2, PushFacts
    <3> QED
      BY <2>1, <3>1, <3>2 DEF Fifos, Usable
  <2> QED
    BY <2>2, <2>3, <2>4
<1>10. CASE UNCHANGED vars
  BY <1>10 DEF vars, device, driver, Fifos, Done
<1> QED
  BY <1>1, <1>2, <1>3, <1>5, <1>6, <1>7, <1>8, <1>9, <1>10 DEF Next, Driver

-----------------------------------------------------------------------------
(* The calls.                                                              *)

(* Every action keeps what the driver knows.                               *)
LEMMA NextCalls == Types /\ Registers /\ Fifos /\ Calls /\ [Next]_vars => Calls'
<1> SUFFICES ASSUME Types, Registers, Fifos, Calls, [Next]_vars PROVE Calls'
  OBVIOUS
<1>0. Bytes \subseteq Nat /\ RemoteBytes \subseteq Nat
  BY RemoteAssumption
<1>1. CASE Configure
  <2>1. /\ pc = "configure" /\ pc' \in {"configure", "test"}
        /\ sent' = sent /\ written' = written /\ got' = got
    BY <1>1 DEF Configure, Outb, remote
  <2> QED
    BY <2>1 DEF Calls, Usable
<1>2. CASE Test
  <2>1. /\ pc = "test" /\ sent' = sent /\ written' = written /\ got' = got /\ present' = present
        /\ pc' \in {"failed", "normal"}
        /\ pc' = "failed" => is_error' = TRUE /\ error' = ERROR_FAILED_TO_INIT
    BY <1>2 DEF Test, remote
  <2>2. pc' = "normal" => present
    BY <1>2, TestFacts
  <2> QED
    BY <2>1, <2>2 DEF Calls, Usable
<1>3. CASE Normal
  <2>1. /\ pc = "normal" /\ pc' = "ready" /\ is_error' = FALSE /\ present' = present
    BY <1>3 DEF Normal, Outb
  <2> QED
    BY <2>1 DEF Calls, Usable
<1>4. ASSUME pc \in Usable, pc' \in Usable, UNCHANGED <<present, is_error>>,
             pc' \in {"write", "write_out"} =>
               written' # <<>> /\ byte' \in Bytes /\ written'[Len(written')] = byte',
             pc' = "write_out" => tx' = <<>>,
             pc' = "read_in" => rx' # <<>>
      PROVE  Calls'
  BY <1>4 DEF Calls, Usable
<1>5. ASSUME NEW b \in Bytes, Write(b) PROVE Calls'
  <2>1. /\ pc = "ready" /\ pc' = "write" /\ byte' = b /\ written' = Append(written, b)
        /\ UNCHANGED <<present, is_error>>
    BY <1>5 DEF Write, Goto, device
  <2>2. written \in Seq(Nat) /\ b \in Nat
    BY <1>0 DEF Types
  <2>3. /\ written' \in Seq(Nat) /\ Len(written') = Len(written) + 1 /\ Len(written) \in Nat
        /\ written'[Len(written) + 1] = b
    BY <2>1, <2>2, AppendProperties
  <2>4. written' # <<>>
    BY <2>3, EmptySeq
  <2> QED
    BY <1>4, <2>1, <2>3, <2>4 DEF Usable
<1>6. CASE WriteReady
  BY <1>4, <1>6 DEF WriteReady, Goto, Empty, device, Calls, Usable
<1>7. CASE WriteOut
  BY <1>4, <1>7 DEF WriteOut, Outb, Usable
<1>8. CASE Read
  BY <1>4, <1>8 DEF Read, Goto, device, Usable
<1>9. CASE ReadReady
  BY <1>4, <1>9 DEF ReadReady, Goto, DataReady, device, Usable
<1>10. CASE ReadIn
  BY <1>4, <1>10 DEF ReadIn, Usable
<1>11. CASE Shift
  <2>1. /\ present /\ tx # <<>> /\ pc' = pc /\ k' = k
        /\ UNCHANGED <<present, byte, is_error, error, written, got>>
        /\ Loopback => sent' = sent
        /\ ~Loopback => rx' = rx
    BY <1>11 DEF Shift, driver
  <2>2. Done = 9
    BY <2>1 DEF Fifos, Registers
  <2>3. CASE pc \in Usable
    <3>1. rx' = rx
      BY <2>1, <2>3, ModeFacts
    <3>2. pc # "write_out"
      BY <2>1 DEF Calls
    <3> QED
      BY <1>4, <2>1, <2>3, <3>1, <3>2 DEF Calls
  <2>4. CASE pc \notin Usable
    <3>1. sent' = sent
      BY <2>1, <2>2, <2>4, ModeFacts
    <3> QED
      BY <2>1, <2>4, <3>1 DEF Calls, Usable
  <2> QED
    BY <2>3, <2>4
<1>12. ASSUME NEW b \in RemoteBytes, Arrive(b) PROVE Calls'
  <2>1. /\ UNCHANGED <<present, pc, tx, sent, byte, is_error, error, written, got>>
        /\ rx' = rx \/ rx' = Push(rx, b)
    BY <1>12 DEF Arrive, driver
  <2>2. rx # <<>> => rx' # <<>>
    <3>1. rx \in Seq(Nat) /\ b \in Nat
      BY <1>0 DEF Types
    <3>2. rx' = rx \/ rx' = Append(rx, b)
      BY <2>1, <3>1, PushFacts
    <3>3. Append(rx, b) # <<>>
      BY <3>1, AppendProperties, EmptySeq
    <3> QED
      BY <3>2, <3>3
  <2> QED
    BY <2>1, <2>2 DEF Calls
<1>13. CASE UNCHANGED vars
  BY <1>13 DEF vars, device, driver, remote, Calls
<1> QED
  BY <1>1, <1>2, <1>3, <1>5, <1>6, <1>7, <1>8, <1>9, <1>10, <1>11, <1>12, <1>13 DEF Next, Driver

(* The port before its driver.                                             *)
LEMMA InitInv == Init => IInv
<1> SUFFICES ASSUME Init PROVE IInv
  OBVIOUS
<1>1. pc = "configure" /\ k = 1 /\ Done = 0 /\ pc \notin Usable
  BY DEF Init, Done, Usable
<1>2. Registers
  BY <1>1 DEF Init, Registers
<1>3. Fifos
  BY <1>1 DEF Init, Fifos
<1>4. Calls
  BY <1>1 DEF Init, Calls
<1> QED
  BY <1>2, <1>3, <1>4, InitType DEF IInv

(* The invariant holds in every behaviour.                                 *)
THEOREM Invariant == Spec => []IInv
<1>1. IInv /\ [Next]_vars => IInv'
  BY NextType, NextRegisters, NextFifos, NextCalls DEF IInv
<1> QED
  BY <1>1, InitInv, PTL DEF Spec

-----------------------------------------------------------------------------
(* What it gives.                                                          *)

(* A stream whose constructor reported no error has a device behind it,    *)
(* with the divisor, the frame format and the modes the constructor means, *)
(* and one that failed can say why (serial.cpp).                           *)
THEOREM PortIsGood == Spec => []GoodPort
<1>1. ASSUME IInv PROVE GoodPort
  <2>1. ASSUME pc \in Usable
        PROVE  /\ present /\ ~has_error
               /\ dll = 3 /\ dlm = 0 /\ lcr = 3 /\ ier = 0 /\ ~Loopback
    <3>1. present /\ ~is_error
      BY <1>1, <2>1 DEF IInv, Calls
    <3>2. Done = 9
      BY <2>1 DEF Done, Usable
    <3> QED
      BY <1>1, <2>1, <3>1, <3>2, ModeFacts DEF IInv, Registers, has_error
  <2>2. pc = "failed" => has_error /\ error_to_str = "Failed to init port"
    BY <1>1 DEF IInv, Calls, has_error, error_to_str
  <2> QED
    BY <2>1, <2>2 DEF GoodPort
<1> QED
  BY <1>1, Invariant, PTL

-----------------------------------------------------------------------------
(* The refinement of SerialLine.                                           *)

(* All bytes but the last.                                                 *)
LEMMA FrontFacts ==
  ASSUME NEW S, NEW q \in Seq(S)
  PROVE  /\ \A b \in S : Front(Append(q, b)) = q
         /\ q # <<>> => Front(q) \in Seq(S) /\ q = Append(Front(q), q[Len(q)])
<1>1. ASSUME NEW b \in S PROVE Front(Append(q, b)) = q
  <2> DEFINE a == Append(q, b)
  <2>1. /\ a \in Seq(S) /\ Len(a) = Len(q) + 1 /\ Len(q) \in Nat
        /\ \A i \in 1 .. Len(q) : a[i] = q[i]
    BY AppendProperties
  <2> HIDE DEF a
  <2>2. /\ Len(a) - 1 = Len(q) /\ Len(a) - 1 \in Int
        /\ \A i \in 1 .. Len(a) - 1 : a[i] \in S
    BY <2>1
  <2>3. /\ SubSeq(a, 1, Len(a) - 1) \in Seq(S)
        /\ Len(SubSeq(a, 1, Len(a) - 1)) = Len(q)
        /\ \A i \in 1 .. Len(q) : SubSeq(a, 1, Len(a) - 1)[i] = q[i]
    BY <2>1, <2>2, SubSeqProperties
  <2>4. SubSeq(a, 1, Len(a) - 1) = q
    BY <2>3, SeqEqual
  <2> QED
    BY <2>4 DEF Front, a
<1>2. ASSUME q # <<>> PROVE Front(q) \in Seq(S) /\ q = Append(Front(q), q[Len(q)])
  <2> DEFINE f == SubSeq(q, 1, Len(q) - 1)
  <2>1. Len(q) \in Nat \ {0} /\ \A i \in 1 .. Len(q) - 1 : q[i] \in S
    BY <1>2, EmptySeq
  <2>2. /\ f \in Seq(S) /\ Len(f) = Len(q) - 1
        /\ \A i \in 1 .. Len(q) - 1 : f[i] = q[i]
    <3> DEFINE n == Len(q) - 1
    <3>1. n \in Nat
      BY <2>1
    <3>2. \A i \in 1 .. n : q[i] \in S
      BY <2>1
    <3> HIDE DEF n
    <3>3. /\ SubSeq(q, 1, n) \in Seq(S)
          /\ Len(SubSeq(q, 1, n)) = IF 1 <= n THEN n - 1 + 1 ELSE 0
          /\ \A i \in 1 .. n - 1 + 1 : SubSeq(q, 1, n)[i] = q[1 + i - 1]
      BY <3>1, <3>2, SubSeqProperties
    <3>4. Len(SubSeq(q, 1, n)) = n /\ \A i \in 1 .. n : SubSeq(q, 1, n)[i] = q[i]
      BY <3>1, <3>3
    <3> QED
      BY <3>3, <3>4 DEF n
  <2> HIDE DEF f
  <2>3. q[Len(q)] \in S
    BY <2>1
  <2>4. /\ Append(f, q[Len(q)]) \in Seq(S) /\ Len(Append(f, q[Len(q)])) = Len(q)
        /\ \A i \in 1 .. Len(q) : Append(f, q[Len(q)])[i] = q[i]
    BY <2>1, <2>2, <2>3, AppendProperties
  <2>5. q = Append(f, q[Len(q)])
    BY <2>4, SeqEqual
  <2> QED
    BY <2>2, <2>5 DEF Front, f
<1> QED
  BY <1>1, <1>2

(* What the mapping takes for the line.                                    *)
Taken == IF pc \in {"write", "write_out"} THEN Front(written) ELSE written
Out   == IF pc \in Usable THEN tx ELSE <<>>
In    == IF pc \in Usable THEN rx ELSE <<>>

(* A closed line: nothing went in or out.                                  *)
LEMMA Closed ==
  ASSUME IInv, pc \notin Usable
  PROVE  Taken = <<>> /\ Out = <<>> /\ In = <<>> /\ sent = <<>> /\ got = <<>>
BY DEF IInv, Calls, Taken, Out, In, Usable

(* A step that leaves it closed is none of the line's.                     *)
LEMMA ClosedStep ==
  ASSUME IInv, IInv', pc \notin Usable, pc' \notin Usable
  PROVE  UNCHANGED Line!vars
<1>1. Taken = <<>> /\ Out = <<>> /\ In = <<>> /\ sent = <<>> /\ got = <<>>
  BY Closed
<1>2. Taken' = <<>> /\ Out' = <<>> /\ In' = <<>> /\ sent' = <<>> /\ got' = <<>>
  BY DEF IInv, Calls, Taken, Out, In, Usable
<1>3. (pc \in Usable) = FALSE /\ (pc' \in Usable) = FALSE
  OBVIOUS
<1> QED
  BY <1>1, <1>2, <1>3, Zenon DEF Line!vars, Taken, Out, In

(* So is a step of an open line that leaves both channels alone.           *)
LEMMA SilentStep ==
  ASSUME pc \in Usable, pc' \in Usable, Taken' = Taken, UNCHANGED <<tx, rx, sent, got>>
  PROVE  UNCHANGED Line!vars
<1>1. (pc \in Usable) = TRUE /\ (pc' \in Usable) = TRUE
  OBVIOUS
<1>2. Out = tx /\ Out' = tx' /\ In = rx /\ In' = rx'
  BY DEF Out, In
<1>3. Taken' = Taken /\ Out' = Out /\ In' = In /\ sent' = sent /\ got' = got
  BY <1>2
<1> QED
  BY <1>1, <1>3, Zenon DEF Line!vars, Taken, Out, In

(* Every step of the driver, the device and the remote end is a step of    *)
(* the line or none of it.                                                 *)
LEMMA StepIsLineStep ==
  ASSUME IInv, [Next]_vars
  PROVE  [Line!Next]_(Line!vars)
<1>0. /\ IInv' /\ Bytes \subseteq Nat /\ RemoteBytes \subseteq Nat
      /\ tx \in Seq(Nat) /\ rx \in Seq(Nat) /\ written \in Seq(Nat)
  BY NextType, NextRegisters, NextFifos, NextCalls, RemoteAssumption DEF IInv, Types
<1>1. ASSUME pc \in Usable
      PROVE  Out = tx /\ In = rx /\ present /\ ~Loopback /\ ~Dlab
  BY <1>1, ModeFacts DEF Out, In, IInv, Calls
<1>2. pc' \in Usable => Out' = tx' /\ In' = rx'
  BY DEF Out, In
<1>3. CASE pc \notin Usable /\ pc' \notin Usable
  BY <1>0, <1>3, ClosedStep
<1>4. CASE Configure \/ Test
  BY <1>3, <1>4 DEF Configure, Test, Usable
<1>5. CASE Normal
  <2>1. /\ pc = "normal" /\ pc' = "ready" /\ tx' = tx /\ rx' = rx /\ sent' = sent
        /\ written' = written /\ got' = got
    BY <1>5, OutbFifos DEF Normal
  <2>2. pc \notin Usable /\ pc' \in Usable
    BY <2>1 DEF Usable
  <2>3. tx = <<>> /\ rx = <<>>
    BY <2>1 DEF IInv, Fifos
  <2>4. Taken = <<>> /\ Out = <<>> /\ Taken' = <<>> /\ Out' = <<>> /\ In' = <<>>
    BY <1>2, <2>1, <2>2, <2>3, Closed DEF Taken
  <2>5. In' \in Seq(RemoteBytes)
    BY <2>4, EmptySeq
  <2>6. Line!Open
    BY <2>1, <2>2, <2>4, <2>5, Zenon DEF Line!Open, Taken, Out, In
  <2> QED
    BY <2>6 DEF Line!Next
<1>6. ASSUME NEW b \in Bytes, Write(b) PROVE UNCHANGED Line!vars
  <2>1. /\ pc = "ready" /\ pc' = "write" /\ written' = Append(written, b)
        /\ UNCHANGED <<tx, rx, sent, got>>
    BY <1>6 DEF Write, Goto, device, remote
  <2>2. Front(written') = written
    BY <1>0, <2>1, FrontFacts
  <2>3. Taken' = Taken
    BY <2>1, <2>2 DEF Taken
  <2> QED
    BY <2>1, <2>3, SilentStep DEF Usable
<1>7. CASE WriteReady \/ Read \/ ReadReady
  <2>1. /\ pc \in Usable /\ pc' \in Usable /\ UNCHANGED <<tx, rx, sent, got, written>>
        /\ pc \in {"write", "write_out"} <=> pc' \in {"write", "write_out"}
    BY <1>7 DEF WriteReady, Read, ReadReady, Goto, device, remote, Usable
  <2>2. Taken' = Taken
    BY <2>1 DEF Taken
  <2> QED
    BY <2>1, <2>2, SilentStep
<1>8. CASE WriteOut
  <2>1. /\ pc = "write_out" /\ pc' = "ready" /\ Outb(0, byte)
        /\ written' = written /\ got' = got
    BY <1>8 DEF WriteOut
  <2>2. pc \in Usable /\ pc' \in Usable
    BY <2>1 DEF Usable
  <2>3. tx = <<>> /\ written # <<>> /\ byte \in Bytes /\ written[Len(written)] = byte
    BY <2>1 DEF IInv, Calls
  <2>4. tx' = Append(tx, byte) /\ rx' = rx /\ sent' = sent
    <3>1. Len(tx) < FifoSize
      BY <2>3, FifoAssumption
    <3> QED
      BY <1>1, <2>1, <2>2, <3>1 DEF Outb, remote
  <2>5. Taken = Front(written) /\ Taken' = written
    BY <2>1 DEF Taken
  <2>6. Taken' = Append(Taken, byte) /\ Out' = Append(Out, byte) /\ In' = In
    BY <1>0, <1>1, <1>2, <2>2, <2>3, <2>4, <2>5, FrontFacts
  <2>7. (pc \in Usable) = TRUE /\ (pc' \in Usable) = TRUE
    BY <2>2
  <2>8. Line!Write
    BY <2>1, <2>3, <2>4, <2>6, <2>7, Zenon DEF Line!Write, Taken, Out, In
  <2> QED
    BY <2>8 DEF Line!Next
<1>9. CASE ReadIn
  <2>1. /\ pc = "read_in" /\ pc' = "ready" /\ got' = Append(got, InData) /\ TakeData
        /\ UNCHANGED <<present, tx, sent, written>>
    BY <1>9 DEF ReadIn, remote
  <2>2. pc \in Usable /\ pc' \in Usable
    BY <2>1 DEF Usable
  <2>3. rx # <<>> /\ DataReady
    BY <2>1 DEF IInv, Calls, DataReady
  <2>4. got' = Append(got, Head(rx)) /\ rx' = Tail(rx)
    BY <1>1, <2>1, <2>2, <2>3 DEF InData, TakeData
  <2>5. In = rx /\ In' = Tail(rx) /\ Out' = Out /\ Taken' = Taken
    BY <1>1, <1>2, <2>1, <2>2, <2>4 DEF Taken
  <2>6. (pc \in Usable) = TRUE /\ (pc' \in Usable) = TRUE
    BY <2>2
  <2>7. /\ In # <<>> /\ got' = Append(got, Head(In)) /\ In' = Tail(In)
        /\ UNCHANGED <<Taken, Out, sent>>
    BY <2>1, <2>3, <2>4, <2>5
  <2>8. Line!Read
    BY <2>6, <2>7, Zenon DEF Line!Read, Taken, Out, In
  <2> QED
    BY <2>8 DEF Line!Next
<1>10. CASE Shift
  <2>1. /\ present /\ tx # <<>> /\ tx' = Tail(tx) /\ UNCHANGED <<pc, written, got>>
        /\ ~Loopback => sent' = Append(sent, Head(tx)) /\ rx' = rx
    BY <1>10 DEF Shift, driver
  <2>2. CASE pc \in Usable
    <3>1. Out = tx /\ Out' = Tail(tx) /\ sent' = Append(sent, Head(tx)) /\ In' = In
      BY <1>1, <1>2, <2>1, <2>2
    <3>2. /\ Taken' = Taken /\ Out # <<>> /\ sent' = Append(sent, Head(Out)) /\ Out' = Tail(Out)
          /\ UNCHANGED <<In, got>>
      BY <2>1, <3>1 DEF Taken
    <3>3. (pc \in Usable) = TRUE /\ (pc' \in Usable) = TRUE
      BY <2>1, <2>2
    <3>4. Line!Deliver
      BY <3>2, <3>3, Zenon DEF Line!Deliver, Taken, Out, In
    <3> QED
      BY <3>4 DEF Line!Next
  <2>3. CASE pc \notin Usable
    BY <1>3, <2>1, <2>3
  <2> QED
    BY <2>2, <2>3
<1>11. ASSUME NEW b \in RemoteBytes, Arrive(b) PROVE [Line!Next]_(Line!vars)
  <2>1. /\ UNCHANGED <<pc, tx, sent, written, got>>
        /\ ~Loopback => rx' = Push(rx, b)
    BY <1>11 DEF Arrive, driver
  <2>2. CASE pc \in Usable
    <3>1. Taken' = Taken
      BY <2>1 DEF Taken
    <3>2. rx' = rx \/ rx' = Append(rx, b)
      <4>1. b \in Nat /\ rx' = Push(rx, b)
        BY <1>0, <1>1, <2>1, <2>2
      <4> QED
        BY <1>0, <4>1, PushFacts
    <3>3. CASE rx' = rx
      BY <2>1, <2>2, <3>1, <3>3, SilentStep
    <3>4. CASE rx' = Append(rx, b)
      <4>1. In' = Append(In, b) /\ UNCHANGED <<Taken, Out, sent, got>>
        BY <1>1, <1>2, <2>1, <2>2, <3>1, <3>4
      <4>2. (pc \in Usable) = TRUE /\ (pc' \in Usable) = TRUE
        BY <2>1, <2>2
      <4>3. Line!Receive
        BY <4>1, <4>2, Zenon DEF Line!Receive, Taken, Out, In
      <4> QED
        BY <4>3 DEF Line!Next
    <3> QED
      BY <3>2, <3>3, <3>4
  <2>3. CASE pc \notin Usable
    BY <1>3, <2>1, <2>3
  <2> QED
    BY <2>2, <2>3
<1>12. CASE UNCHANGED vars
  BY <1>12 DEF vars, device, driver, remote, Line!vars
<1> QED
  BY <1>4, <1>5, <1>6, <1>7, <1>8, <1>9, <1>10, <1>11, <1>12 DEF Next, Driver

(* The safety half of IsLine: whatever the device does with its FIFOs, an  *)
(* open port is a pair of channels that lose, invent and reorder nothing.  *)
THEOREM PortIsLine == Spec => Line!Init /\ [][Line!Next]_(Line!vars)
<1>1. Init => Line!Init
  BY DEF Init, Line!Init, Usable
<1> QED
  BY <1>1, StepIsLineStep, Invariant, PTL DEF Spec

=============================================================================
