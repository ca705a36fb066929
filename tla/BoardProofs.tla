----------------------------- MODULE BoardProofs -----------------------------
(***************************************************************************)
(* Proofs about Board, for any identifying levels, colours and lengths:    *)
(* that its arithmetic is right for every number its thermometer and its   *)
(* accelerometer can send, what a sensor that is changed at the wrong      *)
(* moment can do, that the accelerometer is set up from whatever state,    *)
(* that no colour is made up of the pieces of two commands, and the types. *)
(***************************************************************************)
EXTENDS Board, TLAPS

\* The temperature the board reports is the one the thermometer has sent, over
\* the whole of its 12 bits (Sensor.cpp:119-129).
THEOREM TemperatureDecoded == TemperatureIsDecoded
<1> SUFFICES ASSUME NEW t \in Temperatures
             PROVE  getTemperature(TemperatureMSB(t), TemperatureLSB(t)) = t
  BY DEF TemperatureIsDecoded
<1> DEFINE w == TemperatureWord(t)
<1>1. w = 16 * (IF t < 0 THEN t + 4096 ELSE t)
  BY DEF TemperatureWord, Temperatures
<1>2. (TemperatureMSB(t) * 256) + TemperatureLSB(t) = w
  BY <1>1 DEF TemperatureMSB, TemperatureLSB, Temperatures
<1>3. Int16(w) = 16 * t
  BY <1>1 DEF Int16, Temperatures
<1> QED
  BY <1>2, <1>3 DEF getTemperature, Temperatures

\* The acceleration the board reports is the one the accelerometer has sent, in
\* either of its modes, over the whole of its 10 bits (ninja.ino:194-214).
THEOREM AccelerationDecoded == AccelerationIsDecoded
<1> SUFFICES ASSUME NEW a \in Accelerations
             PROVE  /\ getAccXYZ(AccelerationMSB(a), AccelerationLSB(a), TRUE) = a
                    /\ getAccXYZ(AccelerationMSB(a), AccelerationLSB(a), FALSE)
                           = a - (a % 4)
  BY DEF AccelerationIsDecoded
<1>1. a % 1024 = IF a < 0 THEN a + 1024 ELSE a
  BY DEF Accelerations
<1>2. a % 4 \in 0 .. 3 /\ AccelerationLSB(a) \div 64 = a % 4
  BY DEF AccelerationLSB, Accelerations
<1>3. 4 * AccelerationMSB(a) = (a % 1024) - (a % 4)
  BY <1>1 DEF AccelerationMSB, Accelerations
<1>4. AccelerationMSB(a) * 4 + (a % 4) = a % 1024
  BY <1>3 DEF AccelerationMSB, Accelerations
<1>5. getAccXYZ(AccelerationMSB(a), AccelerationLSB(a), TRUE) = a
  BY <1>1, <1>2, <1>4 DEF getAccXYZ, Accelerations
<1>6. getAccXYZ(AccelerationMSB(a), AccelerationLSB(a), FALSE) = a - (a % 4)
  BY <1>1, <1>2, <1>3 DEF getAccXYZ, Accelerations, AccelerationMSB
<1> QED
  BY <1>5, <1>6

-----------------------------------------------------------------------------
\* What the sketch knows of the socket so far comes from the sensor in it.
Agrees ==
    /\ step \in {"type again", "value", "print"} => sample.type = idTheType(id)
    /\ step \in {"value", "print"} => sample.again = idTheType(id)
    /\ step = "print" => sample.value = getSensorValue(sample.again, id)

\* After the first false reading, the sample at hand is the sensor's own.
FalseInv ==
    /\ sample \in [type : Types, again : Types, value : Nat]
    /\ id \in IdLevels \ {0}
    /\ astray \in 0 .. 1
    /\ astray = 1 => Agrees

LEMMA TypeOfLevel == ASSUME NEW n PROVE idTheType(n) \in Types
BY DEF idTheType, Types

LEMMA ValueOfLevel ==
    ASSUME NEW type \in Types, NEW n \in Nat
    PROVE  getSensorValue(type, n) \in Nat
BY DEF getSensorValue

\* A sample that agrees with the sensor is a true one.
LEMMA AgreeingSampleIsTrue ==
    ASSUME FalseInv, Agrees, step = "print"
    PROVE  IsTrue(sample)
BY DEF FalseInv, Agrees, IsTrue, getSensorValue, IdLevels, Types

LEMMA FalseInvStep ==
    ASSUME FalseInv, [Next]_vars
    PROVE  FalseInv'
<1> USE DEF FalseInv
<1>1. CASE UNCHANGED <<id, step, sample, astray>>
  BY <1>1 DEF Agrees
<1>2. ASSUME UNCHANGED <<id, sample, astray>>,
             step' \notin {"type again", "value", "print"}
      PROVE  FalseInv'
  BY <1>2 DEF Agrees
<1>3. CASE ReadType
  BY <1>3, TypeOfLevel DEF ReadType, Go, Agrees
<1>4. CASE ReadTypeAgain
  BY <1>4, TypeOfLevel DEF ReadTypeAgain, Go, Agrees
<1>5. CASE ReadValue
  <2>1. getSensorValue(sample.again, id) \in Nat
    BY ValueOfLevel DEF IdLevels
  <2> QED
    BY <1>5, <2>1 DEF ReadValue, Go, Agrees
<1>6. CASE PrintSample
  <2>1. step = "print" /\ step' = "serial" /\ id' = id
    BY <1>6 DEF PrintSample, Go
  <2>2. sample' \in [type : Types, again : Types, value : Nat]
    BY <1>6 DEF PrintSample, NoSample, Types
  <2>3. astray' \in 0 .. 1
    <3>1. CASE astray = 0
      BY <1>6, <3>1 DEF PrintSample
    <3>2. CASE astray = 1
      <4>1. IsTrue(sample)
        BY <2>1, <3>2, AgreeingSampleIsTrue
      <4> QED
        BY <1>6, <3>2, <4>1 DEF PrintSample
    <3> QED
      BY <3>1, <3>2
  <2> QED
    BY <2>1, <2>2, <2>3 DEF Agrees
<1>7. CASE OutOfMemory
  BY <1>7 DEF OutOfMemory, NoSample, Types, Go, Agrees
<1>8. CASE ChangeSensor
  BY <1>8, BoardAssumption DEF ChangeSensor
<1>9. CASE Reset
  BY <1>9 DEF Reset, NoSample, Types, Agrees
<1>10. CASE HostSends
  BY <1>10, <1>1 DEF HostSends, socketVars
<1>11. CASE readSerialString
  BY <1>11, <1>2 DEF readSerialString, Go, socketVars
<1>12. CASE setup
  BY <1>12, <1>2 DEF setup, standbyMode, SetRange, hiResMode, activeMode, Go,
                     socketVars
<1>13. CASE UNCHANGED vars
  BY <1>13, <1>1 DEF vars, socketVars
<1> QED
  BY <1>3, <1>4, <1>5, <1>6, <1>7, <1>8, <1>9, <1>10, <1>11, <1>12,
     <1>13
  DEF Next, testObjects

\* However often and whenever a sensor is changed, the line publishes at most
\* one reading that is not what its channel says (ninja.ino:289-290).
THEOREM FalseReadingsAreFew == Spec => []FewFalseReadings
<1>1. Init => FalseInv
  BY BoardAssumption DEF Init, FalseInv, NoSample, Types
<1>2. FalseInv /\ [Next]_vars => FalseInv'
  BY FalseInvStep
<1>3. FalseInv => FewFalseReadings
  BY DEF FalseInv, FewFalseReadings
<1> QED
  BY <1>1, <1>2, <1>3, PTL DEF Spec

-----------------------------------------------------------------------------
\* What each step of setup has achieved.
SetupInv ==
    /\ reg \in [active : BOOLEAN, fast : BOOLEAN]
    /\ step \in Steps
    /\ step # "standby" => AccelerometerIsReady
    /\ step = "activate" => ~reg.active /\ ~reg.fast

LEMMA SetupInvStep ==
    ASSUME SetupInv, [Next]_vars
    PROVE  SetupInv'
<1> USE DEF SetupInv, AccelerometerIsReady, Steps
<1>1. CASE standbyMode
  BY <1>1 DEF standbyMode, Go
<1>2. CASE SetRange
  BY <1>2 DEF SetRange, Go
<1>3. CASE hiResMode
  BY <1>3 DEF hiResMode, Go
<1>4. CASE activeMode
  BY <1>4 DEF activeMode, Go
<1>5. CASE testObjects
  BY <1>5 DEF testObjects, ReadType, ReadTypeAgain, ReadValue, PrintSample,
              OutOfMemory, Go
<1>6. CASE readSerialString
  BY <1>6 DEF readSerialString, Go
<1>7. CASE HostSends \/ ChangeSensor
  BY <1>7 DEF HostSends, ChangeSensor
<1>8. CASE Reset
  BY <1>8 DEF Reset
<1>9. CASE UNCHANGED vars
  BY <1>9 DEF vars
<1> QED
  BY <1>1, <1>2, <1>3, <1>4, <1>5, <1>6, <1>7, <1>8, <1>9 DEF Next, setup

\* The accelerometer's registers are set in standby mode only, and its readings
\* are taken in the mode they are decoded for, whatever state a reset of the
\* board has found it in (ninja.ino:226-230).
THEOREM AccelerometerReady == Spec => []AccelerometerIsReady
<1>1. Init => SetupInv
  BY DEF Init, SetupInv, Steps
<1>2. SetupInv /\ [Next]_vars => SetupInv'
  BY SetupInvStep
<1>3. SetupInv => AccelerometerIsReady
  BY DEF SetupInv, AccelerometerIsReady
<1> QED
  BY <1>1, <1>2, <1>3, PTL DEF Spec

\* Whatever state a reset of the board has found the accelerometer in, an
\* acceleration is read as it is, for any set of accelerations
\* (ninja.ino:188-192 and 266).
THEOREM AccelerationRead == Spec => []AccelerationIsRead
<1>1. Init => SetupInv
  BY DEF Init, SetupInv, Steps
<1>2. SetupInv /\ [Next]_vars => SetupInv'
  BY SetupInvStep
<1>3. SetupInv => AccelerationIsRead
  <2> SUFFICES ASSUME SetupInv, step = "type", NEW a \in Forces
               PROVE  /\ ~reg.fast
                      /\ getAccXYZ(AccelerationMSB(a), AccelerationLSB(a), TRUE) = a
    BY DEF AccelerationIsRead
  <2>1. ~reg.fast
    BY DEF SetupInv, AccelerometerIsReady
  <2>2. getAccXYZ(AccelerationMSB(a), AccelerationLSB(a), TRUE) = a
    BY AccelerationDecoded, BoardAssumption DEF AccelerationIsDecoded
  <2> QED
    BY <2>1, <2>2
<1> QED
  BY <1>1, <1>2, <1>3, PTL DEF Spec

-----------------------------------------------------------------------------
\* The bytes that the sketch has not read yet, with those of the command that
\* is under way.
Stream(i) == IF i <= Len(rx) THEN rx[i] ELSE toSend[i - Len(rx)]

Left == Len(rx) + Len(toSend)

\* Every mark is followed by the rest of its command.
Followed(i) ==
    /\ i + (SLEN - 1) <= Left
    /\ \E c \in Colours : \A j \in 1 .. SLEN - 1 : Stream(i + j) = c

Framed == \A i \in 1 .. Len(rx) : rx[i] = "#" => Followed(i)

Painted == colour = Blank \/ \E c \in Colours : colour = Command(c)

PaintInv ==
    /\ rx \in Seq(Bytes)
    /\ toSend \in Seq(Bytes)
    /\ \A i \in 1 .. Len(toSend) : toSend[i] # "#"
    /\ lost \/ (Framed /\ Painted)

LEMMA CommandIsSeq ==
    ASSUME NEW c \in Colours
    PROVE  /\ Command(c) \in Seq(Bytes)
           /\ Len(Command(c)) = SLEN
           /\ Command(c)[1] = "#"
           /\ \A i \in 1 .. SLEN : i # 1 => Command(c)[i] = c /\ c # "#"
<1>1. SLEN \in Nat /\ SLEN >= 1 /\ c # "#"
  BY BoardAssumption
<1>2. Command(c) \in [1 .. SLEN -> Bytes]
  BY <1>1 DEF Command, Bytes
<1>3. Command(c) \in Seq(Bytes) /\ Len(Command(c)) = SLEN
  BY <1>1, <1>2
<1> QED
  BY <1>1, <1>3 DEF Command

\* What it means, byte by byte, that the first of bytes comes to rx and the
\* others wait.
Moves(bytes) ==
    /\ toSend' \in Seq(Bytes)
    /\ Len(toSend') = Len(bytes) - 1
    /\ \A k \in 1 .. Len(bytes) - 1 : toSend'[k] = bytes[k + 1]
    /\ rx' \in Seq(Bytes)
    /\ Len(rx') = Len(rx) + 1
    /\ \A i \in 1 .. Len(rx) : rx'[i] = rx[i]
    /\ rx'[Len(rx) + 1] = bytes[1]

LEMMA ByteMoves ==
    ASSUME NEW bytes \in Seq(Bytes), bytes # << >>, rx \in Seq(Bytes),
           toSend' = Tail(bytes),
           rx' = Append(rx, Head(bytes))
    PROVE  Moves(bytes)
<1>1. /\ toSend' \in Seq(Bytes)
      /\ Len(toSend') = Len(bytes) - 1
      /\ \A k \in 1 .. Len(bytes) - 1 : toSend'[k] = bytes[k + 1]
  OBVIOUS
<1>2. /\ rx' \in Seq(Bytes)
      /\ Len(rx') = Len(rx) + 1
      /\ \A i \in 1 .. Len(rx) : rx'[i] = rx[i]
      /\ rx'[Len(rx) + 1] = bytes[1]
  OBVIOUS
<1> QED
  BY <1>1, <1>2 DEF Moves

\* What the host has to send: the rest of a command, or a whole one.
Pending(bytes, c) == bytes = IF toSend = << >> THEN Command(c) ELSE toSend

LEMMA PendingBytes ==
    ASSUME PaintInv, NEW c \in Colours, NEW bytes, Pending(bytes, c)
    PROVE  /\ bytes \in Seq(Bytes) /\ bytes # << >>
           /\ Len(bytes) \in Nat /\ Len(bytes) >= 1
           /\ \A k \in 2 .. Len(bytes) : bytes[k] # "#"
<1>1. SLEN \in Nat /\ SLEN >= 1
  BY BoardAssumption
<1>2. CASE toSend = << >>
  BY <1>1, <1>2, CommandIsSeq DEF Pending
<1>3. CASE toSend # << >>
  BY <1>3 DEF Pending, PaintInv
<1> QED
  BY <1>2, <1>3

\* A byte arrives for which there is room.
LEMMA ByteArrives ==
    ASSUME PaintInv, ~lost, NEW c \in Colours, NEW bytes,
           Pending(bytes, c), Moves(bytes), UNCHANGED <<colour, lost>>
    PROVE  PaintInv'
<1> USE DEF PaintInv
<1>1. SLEN \in Nat /\ SLEN >= 1
  BY BoardAssumption
<1>2. /\ bytes \in Seq(Bytes) /\ bytes # << >>
      /\ Len(bytes) \in Nat /\ Len(bytes) >= 1
  BY PendingBytes
<1>3. /\ toSend' \in Seq(Bytes)
      /\ Len(toSend') = Len(bytes) - 1
      /\ \A k \in 1 .. Len(bytes) - 1 : toSend'[k] = bytes[k + 1]
  BY DEF Moves
<1>4. /\ rx' \in Seq(Bytes)
      /\ Len(rx') = Len(rx) + 1
      /\ \A i \in 1 .. Len(rx) : rx'[i] = rx[i]
      /\ rx'[Len(rx) + 1] = bytes[1]
      /\ Len(rx) \in Nat
  BY DEF Moves
<1>5. \A k \in 2 .. Len(bytes) : bytes[k] # "#"
  BY PendingBytes
<1>6. \A k \in 1 .. Len(toSend') : toSend'[k] # "#"
  BY <1>2, <1>3, <1>5
<1>7. Framed'
  <2> SUFFICES ASSUME NEW i \in 1 .. Len(rx'), rx'[i] = "#"
               PROVE  Followed(i)'
    BY DEF Framed
  <2>1. CASE i <= Len(rx)
    <3>1. rx[i] = "#" /\ i \in 1 .. Len(rx)
      BY <1>4, <2>1
    <3>2. i + (SLEN - 1) <= Left
      BY <3>1 DEF Framed, Followed
    <3>3. PICK d \in Colours : \A j \in 1 .. SLEN - 1 : Stream(i + j) = d
      BY <3>1 DEF Framed, Followed
    <3>4. Left \in Nat /\ Left' \in Nat /\ Left <= Left'
      <4>1. CASE toSend = << >>
        BY <1>2, <1>3, <1>4, <4>1 DEF Left, Pending
      <4>2. CASE toSend # << >>
        BY <1>2, <1>3, <1>4, <4>2 DEF Left, Pending
      <4> QED
        BY <4>1, <4>2
    <3>5. ASSUME NEW j \in 1 .. SLEN - 1
          PROVE  Stream(i + j)' = d
      <4>1. Stream(i + j) = d
        BY <3>3
      <4>2. CASE i + j <= Len(rx)
        BY <1>4, <4>1, <4>2 DEF Stream
      <4>3. CASE i + j > Len(rx)
        <5>1. toSend # << >> /\ bytes = toSend
          BY <1>1, <1>4, <3>2, <4>3 DEF Left, Pending
        <5>2. i + j - Len(rx) \in 1 .. Len(bytes) /\ bytes[i + j - Len(rx)] = d
          BY <1>1, <1>4, <3>2, <4>1, <4>3, <5>1 DEF Stream, Left
        <5>3. CASE i + j = Len(rx) + 1
          BY <1>4, <5>2, <5>3 DEF Stream
        <5>4. CASE i + j > Len(rx) + 1
          <6>1. i + j - Len(rx') \in 1 .. Len(bytes) - 1
            BY <1>4, <5>2, <5>4
          <6>2. toSend'[i + j - Len(rx')] = bytes[(i + j - Len(rx')) + 1]
            BY <1>3, <6>1
          <6>3. (i + j - Len(rx')) + 1 = i + j - Len(rx)
            BY <1>4
          <6> QED
            BY <1>4, <5>2, <5>4, <6>2, <6>3 DEF Stream
        <5>5. i + j = Len(rx) + 1 \/ i + j > Len(rx) + 1
          BY <1>1, <1>4, <4>3
        <5> QED
          BY <5>3, <5>4, <5>5
      <4> QED
        BY <1>4, <4>2, <4>3
    <3>6. i + (SLEN - 1) <= Left'
      BY <1>1, <1>4, <3>1, <3>2, <3>4
    <3> QED
      BY <3>5, <3>6 DEF Followed
  <2>2. CASE i = Len(rx) + 1
    <3>1. bytes[1] = "#"
      BY <1>4, <2>2
    <3>2. toSend = << >> /\ bytes = Command(c)
      BY <1>2, <3>1 DEF Pending
    <3>3. Len(bytes) = SLEN
      BY <3>2, CommandIsSeq
    <3>4. ASSUME NEW j \in 1 .. SLEN - 1
          PROVE  Stream(i + j)' = c
      <4>1. Stream(i + j)' = toSend'[j]
        <5>1. (i + j) - Len(rx') = j /\ ~((i + j) <= Len(rx'))
          BY <1>1, <1>4, <2>2
        <5> QED
          BY <5>1 DEF Stream
      <4>2. toSend'[j] = bytes[j + 1]
        BY <1>1, <1>3, <3>3
      <4>3. bytes[j + 1] = c
        BY <1>1, <3>2, CommandIsSeq
      <4> QED
        BY <4>1, <4>2, <4>3
    <3>5. i + (SLEN - 1) <= Left'
      <4>1. Left' = Len(rx) + SLEN
        BY <1>1, <1>2, <1>3, <1>4, <3>3 DEF Left
      <4> QED
        BY <1>1, <1>4, <2>2, <4>1
    <3> QED
      BY <3>4, <3>5 DEF Followed
  <2>3. i <= Len(rx) \/ i = Len(rx) + 1
    BY <1>4
  <2> QED
    BY <2>1, <2>2, <2>3
<1>8. Painted'
  BY DEF Painted
<1> QED
  BY <1>3, <1>4, <1>6, <1>7, <1>8

\* A round of the loop reads what there is.
LEMMA SerialIsRead ==
    ASSUME PaintInv, readSerialString
    PROVE  PaintInv'
<1> USE DEF PaintInv
<1> DEFINE n    == IF Len(rx) < SLEN THEN Len(rx) ELSE SLEN
           read == [i \in 1 .. SLEN |-> IF i <= n THEN rx[i] ELSE serInStr[i]]
<1>1. SLEN \in Nat /\ SLEN >= 1 /\ Len(rx) \in Nat
  BY BoardAssumption
<1>2. /\ rx' = SubSeq(rx, n + 1, Len(rx))
      /\ \/ n = SLEN /\ read[1] = "#" /\ colour' = read
         \/ colour' = colour
      /\ UNCHANGED <<toSend, lost>>
  BY DEF readSerialString
<1>3. n \in 0 .. Len(rx) /\ n \in Nat
  BY <1>1
<1> HIDE DEF n
<1>4. /\ rx' \in Seq(Bytes)
      /\ Len(rx') = Len(rx) - n
      /\ \A i \in 1 .. Len(rx) - n : rx'[i] = rx[i + n]
  BY <1>1, <1>2, <1>3
<1>5. ASSUME Framed
      PROVE  Framed'
  <2> SUFFICES ASSUME NEW i \in 1 .. Len(rx'), rx'[i] = "#"
               PROVE  Followed(i)'
    BY DEF Framed
  <2>1. i + n \in 1 .. Len(rx) /\ rx[i + n] = "#"
    BY <1>1, <1>3, <1>4
  <2>2. PICK d \in Colours : \A j \in 1 .. SLEN - 1 : Stream((i + n) + j) = d
    BY <1>5, <2>1 DEF Framed, Followed
  <2>3. (i + n) + (SLEN - 1) <= Left
    BY <1>5, <2>1 DEF Framed, Followed
  <2>4. ASSUME NEW j \in 1 .. SLEN - 1
        PROVE  Stream(i + j)' = d
    <3>1. Stream((i + n) + j) = d
      BY <2>2
    <3>2. CASE i + j <= Len(rx')
      <4>1. rx'[i + j] = rx[(i + j) + n]
        BY <1>1, <1>3, <1>4, <3>2
      <4>2. (i + j) + n = (i + n) + j /\ (i + n) + j <= Len(rx)
        BY <1>1, <1>3, <1>4, <3>2
      <4> QED
        BY <3>1, <3>2, <4>1, <4>2 DEF Stream
    <3>3. CASE i + j > Len(rx')
      <4>1. (i + n) + j > Len(rx) /\ ((i + n) + j) - Len(rx) = (i + j) - Len(rx')
        BY <1>1, <1>3, <1>4, <3>3
      <4>2. Stream((i + n) + j) = toSend[(i + j) - Len(rx')]
        BY <1>1, <1>3, <4>1 DEF Stream
      <4>3. Stream(i + j)' = toSend'[(i + j) - Len(rx')]
        BY <1>1, <1>3, <1>4, <3>3 DEF Stream
      <4> QED
        BY <1>2, <3>1, <4>2, <4>3
    <3> QED
      BY <1>1, <1>3, <1>4, <3>2, <3>3
  <2>5. i + (SLEN - 1) <= Left'
    <3>1. Left \in Nat /\ Left' = Left - n
      BY <1>1, <1>2, <1>3, <1>4 DEF Left
    <3>2. i \in Nat
      BY <1>1, <1>3, <1>4
    <3> QED
      BY <1>1, <1>3, <2>3, <3>1, <3>2
  <2> QED
    BY <2>4, <2>5 DEF Followed
<1>6. ASSUME Framed, Painted
      PROVE  Painted'
  <2>1. CASE colour' = colour
    BY <1>6, <2>1 DEF Painted, Blank
  <2>2. CASE n = SLEN /\ read[1] = "#" /\ colour' = read
    <3>1. SLEN <= Len(rx)
      BY <1>1, <1>3, <2>2
    <3>2. 1 \in 1 .. Len(rx) /\ rx[1] = "#"
      BY <1>1, <2>2, <3>1
    <3>3. PICK c \in Colours : \A j \in 1 .. SLEN - 1 : Stream(1 + j) = c
      BY <1>6, <3>2 DEF Framed, Followed
    <3>4. ASSUME NEW i \in 1 .. SLEN
          PROVE  read[i] = Command(c)[i]
      <4>1. read[i] = rx[i]
        BY <1>1, <2>2
      <4>2. CASE i = 1
        BY <3>2, <4>1, <4>2 DEF Command
      <4>3. CASE i # 1
        <5>1. i - 1 \in 1 .. SLEN - 1 /\ 1 + (i - 1) = i /\ i <= Len(rx)
          BY <1>1, <3>1, <4>3
        <5>2. Stream(i) = c
          BY <3>3, <5>1
        <5>3. rx[i] = c
          BY <5>1, <5>2 DEF Stream
        <5> QED
          BY <4>1, <4>3, <5>3 DEF Command
      <4> QED
        BY <4>2, <4>3
    <3>5. read = Command(c)
      BY <3>4 DEF Command
    <3>6. colour' = Command(c)'
      BY <2>2, <3>5 DEF Command
    <3> QED
      BY <3>6 DEF Painted
  <2> QED
    BY <1>2, <2>1, <2>2
<1> QED
  BY <1>2, <1>4, <1>5, <1>6

LEMMA PaintInvStep ==
    ASSUME PaintInv, [Next]_vars
    PROVE  PaintInv'
<1>1. CASE UNCHANGED serialVars
  BY <1>1 DEF serialVars, PaintInv, Framed, Followed, Left, Painted, Stream, Blank, Command
<1>2. CASE readSerialString
  BY <1>2, SerialIsRead
<1>3. CASE HostSends
  <2>1. PICK c \in Colours :
            LET bytes == IF toSend = << >> THEN Command(c) ELSE toSend
            IN  /\ toSend' = Tail(bytes)
                /\ IF Len(rx) < RxBound
                   THEN rx' = Append(rx, Head(bytes)) /\ UNCHANGED lost
                   ELSE lost' = TRUE /\ UNCHANGED rx
    BY <1>3 DEF HostSends
  <2>2. ~lost /\ UNCHANGED colour
    BY <1>3 DEF HostSends
  <2> DEFINE bytes == IF toSend = << >> THEN Command(c) ELSE toSend
  <2>3. Pending(bytes, c)
    BY DEF Pending
  <2>4. toSend' = Tail(bytes)
    BY <2>1
  <2>5. Len(rx) < RxBound => rx' = Append(rx, Head(bytes)) /\ lost' = lost
    BY <2>1
  <2> HIDE DEF bytes
  <2>6. bytes \in Seq(Bytes) /\ bytes # << >>
    BY <2>3, PendingBytes
  <2>7. CASE Len(rx) < RxBound
    <3>1. Moves(bytes)
      BY <2>4, <2>5, <2>6, <2>7, ByteMoves DEF PaintInv
    <3> QED
      BY <2>2, <2>3, <2>5, <2>7, <3>1, ByteArrives
  <2>8. CASE ~(Len(rx) < RxBound)
    <3>1. lost' = TRUE /\ rx' = rx
      BY <2>1, <2>8
    <3>2. /\ toSend' \in Seq(Bytes)
          /\ \A k \in 1 .. Len(toSend') : toSend'[k] # "#"
      BY <2>3, <2>4, <2>6, PendingBytes
    <3> QED
      BY <3>1, <3>2 DEF PaintInv
  <2> QED
    BY <2>7, <2>8
<1>4. CASE Reset
  <2>1. rx' = << >> /\ colour' = Blank /\ UNCHANGED <<toSend, lost>>
    BY <1>4 DEF Reset
  <2> QED
    BY <2>1 DEF PaintInv, Framed, Painted, Blank
<1> QED
  BY <1>1, <1>2, <1>3, <1>4
  DEF Next, setup, testObjects, standbyMode, SetRange, hiResMode, activeMode,
      ReadType, ReadTypeAgain, ReadValue, PrintSample, OutOfMemory, ChangeSensor, vars

\* A colour that is shown is one the host has sent, for any length of a command
\* and of the driver's buffer, unless the driver has dropped a byte
\* (ninja.ino:331-355).
THEOREM ColourWasSent == Spec => []PaintedColourWasSent
<1>1. Init => PaintInv
  BY DEF Init, PaintInv, Framed, Painted, Blank
<1>2. PaintInv /\ [Next]_vars => PaintInv'
  BY PaintInvStep
<1>3. PaintInv => PaintedColourWasSent
  BY DEF PaintInv, Painted, PaintedColourWasSent
<1> QED
  BY <1>1, <1>2, <1>3, PTL DEF Spec

-----------------------------------------------------------------------------
\* The types.  The dispatcher has a channel for what is in a sample.
TypeInv ==
    /\ TypeOK
    /\ tolower(sample.type) \in Channels

\* What a reading makes of the debouncer's memory is one of its states.
LEMMA RememberType ==
    ASSUME NEW channel \in Channels, NEW m \in ChannelMemory
    PROVE  Remember(channel, m) \in ChannelMemory
BY DebounceAssumption DEF Remember, PortChanged, ChannelMemory

LEMMA BlankType == Blank \in [1 .. SLEN -> Bytes]
BY DEF Blank, Bytes

\* A measurement keeps the types of the sample.
LEMMA SampleTypes ==
    ASSUME TypeInv, testObjects
    PROVE  TypeInv'
<1>0. /\ id \in Ids /\ idTheType(id) \in Types
      /\ tolower(idTheType(id)) \in Channels
      /\ tolower("UNKNOWN") \in Channels
  BY TypeOfLevel, ChannelAssumption, DebounceAssumption DEF TypeInv, TypeOK, tolower
<1>1. sample \in [type : Types, again : Types, value : Ids \union {0}]
  BY DEF TypeInv, TypeOK
<1>2. step' \in Steps
  BY DEF testObjects, ReadType, ReadTypeAgain, ReadValue, PrintSample,
         OutOfMemory, Go, Steps
<1>3. UNCHANGED <<id, reg, serialVars>>
  BY DEF testObjects, ReadType, ReadTypeAgain, ReadValue, PrintSample,
         OutOfMemory
<1>4. /\ sample' \in [type : Types, again : Types, value : Ids \union {0}]
      /\ tolower(sample'.type) \in Channels
  <2>1. CASE ReadType
    BY <1>0, <1>1, <2>1 DEF ReadType
  <2>2. CASE ReadTypeAgain
    BY <1>0, <1>1, <2>2 DEF ReadTypeAgain, TypeInv
  <2>3. CASE ReadValue
    <3>1. getSensorValue(sample.again, id) \in Ids \union {0}
      BY <1>0 DEF getSensorValue
    <3> QED
      BY <1>1, <2>3, <3>1 DEF ReadValue, TypeInv
  <2>4. CASE PrintSample \/ OutOfMemory
    <3>1. sample' = [type |-> sample.type, again |-> "UNKNOWN", value |-> 0]
      BY <2>4 DEF PrintSample, OutOfMemory, NoSample
    <3> QED
      BY <1>1, <3>1 DEF TypeInv, Types
  <2> QED
    BY <2>1, <2>2, <2>3, <2>4 DEF testObjects
<1>5. mem' \in ChannelMemory /\ astray' \in 0 .. 2
  <2>1. CASE PrintSample
    <3>1. mem' = Remember(tolower(sample.type), mem)
      BY <2>1 DEF PrintSample
    <3>2. mem' \in ChannelMemory
      BY <3>1, RememberType DEF TypeInv, TypeOK
    <3>3. astray \in 0 .. 2 /\ (astray' = astray \/ (astray < 2 /\ astray' = astray + 1))
      BY <2>1 DEF PrintSample, TypeInv, TypeOK
    <3> QED
      BY <3>2, <3>3
  <2>2. CASE ~PrintSample
    BY <2>2 DEF testObjects, ReadType, ReadTypeAgain, ReadValue, OutOfMemory,
                TypeInv, TypeOK
  <2> QED
    BY <2>1, <2>2
<1> QED
  BY <1>2, <1>3, <1>4, <1>5 DEF TypeInv, TypeOK, serialVars

\* A read stays within its buffer.
LEMMA ReadTypes ==
    ASSUME TypeInv, readSerialString
    PROVE  TypeInv'
<1> DEFINE n    == IF Len(rx) < SLEN THEN Len(rx) ELSE SLEN
           read == [i \in 1 .. SLEN |-> IF i <= n THEN rx[i] ELSE serInStr[i]]
<1>1. /\ SLEN \in Nat /\ RxBound \in Nat
      /\ rx \in Seq(Bytes) /\ Len(rx) \in Nat /\ Len(rx) <= RxBound
      /\ serInStr \in [1 .. SLEN -> Bytes] /\ colour \in [1 .. SLEN -> Bytes]
  BY BoardAssumption DEF TypeInv, TypeOK
<1>2. n \in 0 .. Len(rx)
  BY <1>1
<1>3. /\ step' = "type" /\ rx' = SubSeq(rx, n + 1, Len(rx))
      /\ serInStr' \in {Blank, read} /\ colour' \in {colour, read}
      /\ UNCHANGED <<id, reg, sample, mem, astray, toSend, lost>>
  BY DEF readSerialString, Go, socketVars
<1>4. read \in [1 .. SLEN -> Bytes]
  BY <1>1, <1>2
<1> HIDE DEF n, read
<1>5. rx' \in Seq(Bytes) /\ Len(rx') <= RxBound
  BY <1>1, <1>2, <1>3
<1>6. serInStr' \in [1 .. SLEN -> Bytes] /\ colour' \in [1 .. SLEN -> Bytes]
  BY <1>1, <1>3, <1>4, BlankType
<1>7. /\ id \in Ids /\ "type" \in Steps
      /\ sample \in [type : Types, again : Types, value : Ids \union {0}]
      /\ reg \in [active : BOOLEAN, fast : BOOLEAN]
      /\ mem \in ChannelMemory
      /\ toSend \in Seq(Bytes) /\ Len(toSend) < SLEN
      /\ astray \in 0 .. 2
      /\ lost \in BOOLEAN
      /\ tolower(sample.type) \in Channels
  BY DEF TypeInv, TypeOK, Steps
<1> QED
  BY ONLY <1>3, <1>5, <1>6, <1>7 DEF TypeInv, TypeOK

\* The host sends what is left of a command, or begins the next.
LEMMA SendTypes ==
    ASSUME TypeInv, HostSends
    PROVE  TypeInv'
<1>1. /\ SLEN \in Nat /\ SLEN >= 1 /\ RxBound \in Nat
      /\ rx \in Seq(Bytes) /\ Len(rx) \in Nat /\ Len(rx) <= RxBound
      /\ toSend \in Seq(Bytes) /\ Len(toSend) \in Nat /\ Len(toSend) < SLEN
  BY BoardAssumption DEF TypeInv, TypeOK
<1>2. PICK c \in Colours :
         LET bytes == IF toSend = << >> THEN Command(c) ELSE toSend
         IN  /\ toSend' = Tail(bytes)
             /\ IF Len(rx) < RxBound
                THEN rx' = Append(rx, Head(bytes)) /\ UNCHANGED lost
                ELSE lost' = TRUE /\ UNCHANGED rx
  BY DEF HostSends
<1> DEFINE bytes == IF toSend = << >> THEN Command(c) ELSE toSend
<1>3. /\ toSend' = Tail(bytes)
      /\ \/ Len(rx) < RxBound /\ rx' = Append(rx, Head(bytes)) /\ lost' = lost
         \/ rx' = rx /\ lost' = TRUE
  BY <1>2
<1>4. bytes \in Seq(Bytes) /\ bytes # << >> /\ Len(bytes) <= SLEN
  BY <1>1, CommandIsSeq
<1> HIDE DEF bytes
<1>5. /\ toSend' \in Seq(Bytes) /\ Len(toSend') < SLEN
      /\ Head(bytes) \in Bytes
  BY <1>1, <1>3, <1>4
<1>6. rx' \in Seq(Bytes) /\ Len(rx') <= RxBound
  <2>1. CASE rx' = rx
    BY <1>1, <2>1
  <2>2. CASE Len(rx) < RxBound /\ rx' = Append(rx, Head(bytes))
    <3>1. rx' \in Seq(Bytes) /\ Len(rx') = Len(rx) + 1
      BY <1>1, <1>5, <2>2
    <3> QED
      BY <1>1, <2>2, <3>1
  <2> QED
    BY <1>3, <2>1, <2>2
<1>7. lost' \in BOOLEAN
  BY <1>3 DEF TypeInv, TypeOK
<1>8. UNCHANGED <<id, step, reg, sample, mem, astray, serInStr, colour>>
  BY DEF HostSends, socketVars
<1> QED
  BY <1>5, <1>6, <1>7, <1>8 DEF TypeInv, TypeOK

LEMMA TypeInvStep ==
    ASSUME TypeInv, [Next]_vars
    PROVE  TypeInv'
<1>1. CASE setup
  BY <1>1 DEF setup, standbyMode, SetRange, hiResMode, activeMode, Go, Steps,
     socketVars, serialVars, TypeInv, TypeOK
<1>2. CASE ChangeSensor
  BY <1>2 DEF ChangeSensor, serialVars, TypeInv, TypeOK
<1>3. CASE Reset
  <2>1. /\ NoSample \in [type : Types, again : Types, value : Ids \union {0}]
        /\ tolower(NoSample.type) \in Channels
    BY DebounceAssumption DEF NoSample, Types, tolower
  <2>2. << >> \in Seq(Bytes) /\ Len(<< >>) <= RxBound
    BY BoardAssumption
  <2> QED
    BY <1>3, <2>1, <2>2, BlankType DEF Reset, Steps, TypeInv, TypeOK
<1>4. CASE UNCHANGED vars
  BY <1>4 DEF vars, socketVars, serialVars, TypeInv, TypeOK
<1> QED
  BY <1>1, <1>2, <1>3, <1>4, SampleTypes, ReadTypes, SendTypes DEF Next

\* No read of the serial port goes past its buffer, for any length of a command,
\* and the debouncer gets along with every sensor (ninja.ino:327-345).
THEOREM BoardTypes == Spec => []TypeOK
<1>1. Init => TypeInv
  <2> SUFFICES ASSUME Init PROVE TypeInv
    OBVIOUS
  <2>1. /\ NoSample \in [type : Types, again : Types, value : Ids \union {0}]
        /\ tolower(NoSample.type) \in Channels
        /\ InitialMemory \in ChannelMemory
    BY DebounceAssumption DEF NoSample, Types, tolower, InitialMemory, ChannelMemory
  <2>2. << >> \in Seq(Bytes) /\ Len(<< >>) <= RxBound /\ Len(<< >>) < SLEN
    BY BoardAssumption
  <2>3. /\ id \in Ids /\ step \in Steps
        /\ reg \in [active : BOOLEAN, fast : BOOLEAN]
        /\ sample = NoSample /\ mem = InitialMemory
        /\ toSend = << >> /\ rx = << >>
        /\ serInStr = Blank /\ colour = Blank
    BY DEF Init, Steps
  <2>4. astray \in 0 .. 2
    BY DEF Init
  <2>5. lost \in BOOLEAN
    BY Zenon DEF Init
  <2> QED
    BY ONLY <2>1, <2>2, <2>3, <2>4, <2>5, BlankType DEF TypeInv, TypeOK
<1>2. TypeInv /\ [Next]_vars => TypeInv'
  BY TypeInvStep
<1>3. TypeInv => TypeOK
  BY DEF TypeInv
<1> QED
  BY <1>1, <1>2, <1>3, PTL DEF Spec
=============================================================================
