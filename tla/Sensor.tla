-------------------------------- MODULE Sensor --------------------------------
(***************************************************************************)
(* What the board makes of the signals of its sensors: the pure part of    *)
(* Sensor.cpp and of the accelerometer's driver in ninja.ino.  An int of   *)
(* the board has 16 bits.                                                  *)
(***************************************************************************)
EXTENDS Integers

\* The identifying resistor of whatever is in a socket, as a 10-bit reading.
IdLevels == 0 .. 1023

Types == {"DISTANCE", "HUMIDITY", "PIR", "LIGHT", "BUTTON", "UNKNOWN"}

idTheType(id) ==
    CASE id \in 178 .. 189 -> "DISTANCE"
      [] id \in 247 .. 260 -> "PIR"
      [] id \in 356 .. 377 -> "LIGHT"
      [] id \in 497 .. 526 -> "HUMIDITY"
      [] id \in 762 .. 807 -> "BUTTON"
      [] OTHER -> "UNKNOWN"

\* The value of a socket taken for a sensor of this type, where level is what
\* its data pin measures: a humidity sensor is not read yet.
getSensorValue(type, level) ==
    IF type \in {"LIGHT", "BUTTON", "DISTANCE", "PIR"} THEN level ELSE 0

Byte == 0 .. 255

Int16(n) == LET w == n % 65536 IN IF w >= 32768 THEN w - 65536 ELSE w

\* Sixteenths of a degree: 12 bits in the upper part of two bytes.
getTemperature(MSB, LSB) == Int16(MSB * 256 + LSB) \div 16

\* A slip: the largest positive number is taken for a negative one.
getAccXYZOffByOne(msb, lsb, isHighRes) ==
    LET x == IF isHighRes THEN msb * 4 + lsb \div 64 ELSE msb * 4
    IN  IF x >= 511 THEN x - 1024 ELSE x

\* One axis: 10 bits in the upper part of two bytes, or 8 in one.
getAccXYZ(msb, lsb, isHighRes) ==
    LET x == IF isHighRes THEN msb * 4 + lsb \div 64 ELSE msb * 4
    IN  IF x > 511 THEN x - 1024 ELSE x

\* External: the bytes in which the thermometer and the accelerometer send a
\* number, in two's complement and from the left.
Temperatures == -2048 .. 2047
TemperatureWord(t) == (t % 4096) * 16
TemperatureMSB(t) == TemperatureWord(t) \div 256
TemperatureLSB(t) == TemperatureWord(t) % 256

Accelerations == -512 .. 511
AccelerationMSB(a) == (a % 1024) \div 4
AccelerationLSB(a) == (a % 4) * 64

\* The board reads back what its thermometer and its accelerometer have sent,
\* negative numbers included ("using two's compliment for negative",
\* Sensor.cpp:126; ninja.ino:188-192): in the accelerometer's fast mode up to
\* the two bits that it then leaves out.
TemperatureIsDecoded ==
    \A t \in Temperatures :
        getTemperature(TemperatureMSB(t), TemperatureLSB(t)) = t

AccelerationIsDecoded ==
    \A a \in Accelerations :
        /\ getAccXYZ(AccelerationMSB(a), AccelerationLSB(a), TRUE) = a
        /\ getAccXYZ(AccelerationMSB(a), AccelerationLSB(a), FALSE) = a - (a % 4)
=============================================================================
