--------------------------------- MODULE Board ---------------------------------
(***************************************************************************)
(* The sketch the Arduino runs (ninja.ino), with one socket, as far as the *)
(* line that its readings end up at: setup configures the accelerometer,   *)
(* and every round of loop samples the socket, prints the sample and looks *)
(* for a colour command from the host.                                     *)
(*                                                                         *)
(* The sensor in the socket may be changed between any two of the board's  *)
(* measurements, and the board may be reset at any time.  The data pin is  *)
(* taken to measure the sensor's identifying level, so that a value tells  *)
(* which sensor it comes from.                                             *)
(***************************************************************************)
EXTENDS Sensor, Debounce, Sequences

CONSTANTS
    Ids,      \* identifying levels that the socket may give
    Forces,   \* accelerations that the board may be put to
    Colours,  \* the colours of the host's commands
    SLEN,     \* ninja.ino:327
    RxBound   \* bytes the serial driver holds for the sketch

ASSUME BoardAssumption ==
    /\ Ids \subseteq IdLevels \ {0}
    /\ Forces \subseteq Accelerations
    /\ Colours \intersect {"#", "NUL"} = {}
    /\ SLEN \in Nat \ {0}
    /\ RxBound \in Nat

VARIABLES
    id,        \* the level of the sensor in the socket
    step,      \* the next thing the sketch does
    sample,    \* what it knows of the socket
    reg,       \* the mode bits of the accelerometer's CTRL_REG1
    mem,       \* channel_memory of the socket's line
    toSend,    \* the bytes of a command that the host has not sent yet
    rx,        \* bytes received and not yet read
    serInStr,
    colour,    \* the command the LED shows
    \* History variables.
    astray,    \* false readings published since the sensor changed, up to 2
    lost       \* a byte has arrived that there was no room for

socketVars == <<sample, mem, astray>>
serialVars == <<toSend, rx, serInStr, colour, lost>>
vars       == <<id, step, reg, socketVars, serialVars>>

Steps == {"standby", "range", "resolution", "activate",
          "type", "type again", "value", "print", "serial"}
Blank == [i \in 1 .. SLEN |-> "NUL"]
Bytes == Colours \union {"#", "NUL"}

TypeOK ==
    /\ id \in Ids
    /\ step \in Steps
    /\ sample \in [type : Types, again : Types, value : Ids \union {0}]
    /\ reg \in [active : BOOLEAN, fast : BOOLEAN]
    /\ mem \in ChannelMemory
    /\ toSend \in Seq(Bytes) /\ Len(toSend) < SLEN
    /\ rx \in Seq(Bytes) /\ Len(rx) <= RxBound
    /\ serInStr \in [1 .. SLEN -> Bytes]
    /\ colour \in [1 .. SLEN -> Bytes]
    /\ astray \in 0 .. 2
    /\ lost \in BOOLEAN

NoSample == [type |-> "UNKNOWN", again |-> "UNKNOWN", value |-> 0]

\* The accelerometer may be in any mode: resetting the board does not reset it.
Init ==
    /\ id \in Ids
    /\ step = "standby"
    /\ sample = NoSample
    /\ reg \in [active : BOOLEAN, fast : BOOLEAN]
    /\ mem = InitialMemory
    /\ toSend = << >>
    /\ rx = << >>
    /\ serInStr = Blank
    /\ colour = Blank
    /\ astray = 0
    /\ lost = FALSE

Go(from, to) == step = from /\ step' = to

-----------------------------------------------------------------------------
\* setup.  Each mode is set by reading the register and writing it back.

\* A slip: the accelerometer is taken to be in standby already.
standbyModeSkipped ==
    /\ Go("standby", "range")
    /\ UNCHANGED <<id, reg, socketVars, serialVars>>

standbyMode ==
    /\ Go("standby", "range")
    /\ reg' = [reg EXCEPT !.active = FALSE]
    /\ UNCHANGED <<id, socketVars, serialVars>>

SetRange ==
    /\ Go("range", "resolution")
    /\ UNCHANGED <<id, reg, socketVars, serialVars>>

hiResMode ==
    /\ Go("resolution", "activate")
    /\ reg' = [reg EXCEPT !.fast = FALSE]
    /\ UNCHANGED <<id, socketVars, serialVars>>

activeMode ==
    /\ Go("activate", "type")
    /\ reg' = [reg EXCEPT !.active = TRUE]
    /\ UNCHANGED <<id, socketVars, serialVars>>

-----------------------------------------------------------------------------
\* testObjects.  The temperature and the accelerometer go with the sample, but
\* no line gets them.

\* A slip: a sensor that has been identified is not identified again.
ReadTypeOnce ==
    /\ Go("type", "type again")
    /\ sample' = [sample EXCEPT !.type =
                     IF @ = "UNKNOWN" THEN idTheType(id) ELSE @]
    /\ UNCHANGED <<id, reg, mem, astray, serialVars>>

\* The sensor is identified for the sample's type ...
ReadType ==
    /\ Go("type", "type again")
    /\ sample' = [sample EXCEPT !.type = idTheType(id)]
    /\ UNCHANGED <<id, reg, mem, astray, serialVars>>

\* ... identified again for its value ...
ReadTypeAgain ==
    /\ Go("type again", "value")
    /\ sample' = [sample EXCEPT !.again = idTheType(id)]
    /\ UNCHANGED <<id, reg, mem, astray, serialVars>>

\* ... and measured, if it is taken for one whose value is measured.
ReadValue ==
    /\ Go("value", "print")
    /\ sample' = [sample EXCEPT !.value = getSensorValue(sample.again, id)]
    /\ UNCHANGED <<id, reg, mem, astray, serialVars>>

\* The dispatcher's view of a type.
tolower(type) ==
    CASE type = "DISTANCE" -> "distance"
      [] type = "HUMIDITY" -> "humidity"
      [] type = "PIR"      -> "pir"
      [] type = "LIGHT"    -> "light"
      [] type = "BUTTON"   -> "button"
      [] OTHER             -> "unknown"

\* A line may be on the channel of whatever is put into its socket.
ASSUME ChannelAssumption == \A n \in Ids : tolower(idTheType(n)) \in Channels

\* The value is one that a sensor of this type gives.
IsTrue(s) ==
    IF getSensorValue(s.type, 1) = 0 THEN s.value = 0
    ELSE idTheType(s.value) = s.type

\* The sample is printed and comes to the line, which publishes it if it is
\* settled on the channel, or settles on it now.  It is forgotten, but for its
\* type, which nothing will read.
PrintSample ==
    LET channel   == tolower(sample.type)
        published == channel = mem.current_channel \/ PortChanged(channel, mem)
    IN  /\ Go("print", "serial")
        /\ mem' = Remember(channel, mem)
        /\ astray' = IF published /\ ~IsTrue(sample) /\ astray < 2
                     THEN astray + 1 ELSE astray
        /\ sample' = [NoSample EXCEPT !.type = sample.type]
        /\ UNCHANGED <<id, reg, serialVars>>

\* An allocation fails.  testObjects gives the round up before it has looked at
\* the socket, or has sampled it and prints nothing.
OutOfMemory ==
    /\ Go("type", "serial") \/ Go("print", "serial")
    /\ sample' = [NoSample EXCEPT !.type = sample.type]
    /\ UNCHANGED <<id, reg, mem, astray, serialVars>>

-----------------------------------------------------------------------------
\* Two slips: the read goes one byte past the array, and how much has been read
\* does not matter as long as it begins well.
readSerialStringPastEnd ==
    LET n    == IF Len(rx) < SLEN + 1 THEN Len(rx) ELSE SLEN + 1
        size == IF n > SLEN THEN n ELSE SLEN
    IN  /\ Go("serial", "type")
        /\ rx' = SubSeq(rx, n + 1, Len(rx))
        /\ serInStr' = [i \in 1 .. size |-> IF i <= n THEN rx[i] ELSE serInStr[i]]
        /\ UNCHANGED <<id, reg, socketVars, toSend, colour, lost>>

readSerialStringAnyLength ==
    LET n    == IF Len(rx) < SLEN THEN Len(rx) ELSE SLEN
        read == [i \in 1 .. SLEN |-> IF i <= n THEN rx[i] ELSE serInStr[i]]
    IN  /\ Go("serial", "type")
        /\ rx' = SubSeq(rx, n + 1, Len(rx))
        /\ IF read[1] = "#"
           THEN colour' = read /\ serInStr' = Blank
           ELSE serInStr' = read /\ UNCHANGED colour
        /\ UNCHANGED <<id, reg, socketVars, toSend, lost>>

\* readSerialString reads what is there, up to SLEN bytes, over what it has read
\* before, and a full read that begins with # is painted and wiped out.
readSerialString ==
    LET n    == IF Len(rx) < SLEN THEN Len(rx) ELSE SLEN
        read == [i \in 1 .. SLEN |-> IF i <= n THEN rx[i] ELSE serInStr[i]]
    IN  /\ Go("serial", "type")
        /\ rx' = SubSeq(rx, n + 1, Len(rx))
        /\ IF n = SLEN /\ read[1] = "#"
           THEN colour' = read /\ serInStr' = Blank
           ELSE serInStr' = read /\ UNCHANGED colour
        /\ UNCHANGED <<id, reg, socketVars, toSend, lost>>

-----------------------------------------------------------------------------
\* The world.  Bytes that arrive while the board does something else are there
\* by the time it looks for them, so they need to arrive only then.
Command(c) == [i \in 1 .. SLEN |-> IF i = 1 THEN "#" ELSE c]

HostSends ==
    /\ step = "serial"
    /\ ~lost
    /\ \E c \in Colours :
          LET bytes == IF toSend = << >> THEN Command(c) ELSE toSend IN
             /\ toSend' = Tail(bytes)
             /\ IF Len(rx) < RxBound
                THEN rx' = Append(rx, Head(bytes)) /\ UNCHANGED lost
                ELSE lost' = TRUE /\ UNCHANGED rx
    /\ UNCHANGED <<id, step, reg, socketVars, serInStr, colour>>

ChangeSensor ==
    /\ id' \in Ids \ {id}
    /\ astray' = 0
    /\ UNCHANGED <<step, sample, reg, mem, serialVars>>

Reset ==
    /\ step # "standby"
    /\ step' = "standby"
    /\ sample' = NoSample
    /\ rx' = << >>
    /\ serInStr' = Blank
    /\ colour' = Blank
    /\ UNCHANGED <<id, reg, mem, astray, toSend, lost>>

setup       == standbyMode \/ SetRange \/ hiResMode \/ activeMode
testObjects ==
    ReadType \/ ReadTypeAgain \/ ReadValue \/ PrintSample \/ OutOfMemory

Next ==
    setup \/ testObjects \/ readSerialString \/ HostSends \/ ChangeSensor \/ Reset

Spec == Init /\ [][Next]_vars

-----------------------------------------------------------------------------
\* A sensor is identified and measured in three separate readings, so one that
\* is changed in between may pass for another: with every change the line
\* publishes at most one reading that is not what its channel says
\* (ninja.ino:289-290).
FewFalseReadings == astray <= 1

\* "Register settings must be made in standby mode" (ninja.ino:226), and the
\* readings are taken as those of an active accelerometer in the mode that
\* getAccXYZ assumes (ninja.ino:191-192), in whatever state a reset of the
\* board has found it.
AccelerometerIsReady ==
    IF step \in {"standby", "range", "resolution", "activate"}
    THEN step \in {"range", "resolution"} => ~reg.active
    ELSE reg.active /\ ~reg.fast

\* When a round begins with reading the accelerometer, what is read is the
\* acceleration, its sign included (ninja.ino:188-192 and 266).  An
\* accelerometer in its fast mode would have put another byte, the next axis's,
\* where the lower two bits are looked for.
AccelerationIsRead ==
    step = "type" =>
        \A a \in Forces :
            \A lsb \in IF reg.fast THEN {0, 255} ELSE {AccelerationLSB(a)} :
                getAccXYZ(AccelerationMSB(a), lsb, TRUE) = a

\* A colour on the LED is one that the host has sent in one command, however
\* its bytes fall into the rounds of the loop, as long as the serial driver
\* drops none (ninja.ino:331-355).
PaintedColourWasSent ==
    lost \/ colour = Blank \/ \E c \in Colours : colour = Command(c)
=============================================================================
