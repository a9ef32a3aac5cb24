---------------------------- MODULE SensorFrame ----------------------------
(***************************************************************************)
(* The two sensor drivers, as functions of what the bus returns:           *)
(* spi_master_read_sensor of prsb25.c, an angle in a frame of eight bytes  *)
(* with a checksum, and i2c_master_read_sensor of mb1222.c, a distance in  *)
(* two bytes without one.  A driver returns a status, and a value or the   *)
(* mark that the caller's variable is as it was.  Values are those of the  *)
(* sensor; the drivers' conversion to degrees and to text keeps different  *)
(* values different.                                                       *)
(*                                                                         *)
(* The sensors and the wires are external.  The angle sensor computes its  *)
(* checksum bit by bit; the wire damages any bits of one byte of a frame.  *)
(***************************************************************************)
EXTENDS Naturals, Sequences

CONSTANTS
  Angles,           \* angles the sensor measures, of 14 bits
  Distances,        \* distances the other sensor measures, of 16 bits
  Untouched         \* the caller's variable is as it was

ASSUME AnglesAssumption == Angles \subseteq 0..16383
ASSUME DistancesAssumption == Distances \subseteq 0..65535
ASSUME UntouchedAssumption == Untouched \notin Angles \cup Distances

\* Exclusive or of two bytes: the bit of a weight is the parity of theirs.
Parity(a, b, weight) == weight * ((a \div weight + b \div weight) % 2)
Xor(a, b) ==
  Parity(a, b, 1) + Parity(a, b, 2) + Parity(a, b, 4) + Parity(a, b, 8)
    + Parity(a, b, 16) + Parity(a, b, 32) + Parity(a, b, 64) + Parity(a, b, 128)

crc_array ==
  <<   0, 47, 94,113,188,147,226,205, 87,120,  9, 38,235,196,181,154,
     174,129,240,223, 18, 61, 76, 99,249,214,167,136, 69,106, 27, 52,
     115, 92, 45,  2,207,224,145,190, 36, 11,122, 85,152,183,198,233,
     221,242,131,172, 97, 78, 63, 16,138,165,212,251, 54, 25,104, 71,
     230,201,184,151, 90,117,  4, 43,177,158,239,192, 13, 34, 83,124,
      72,103, 22, 57,244,219,170,133, 31, 48, 65,110,163,140,253,210,
     149,186,203,228, 41,  6,119, 88,194,237,156,179,126, 81, 32, 15,
      59, 20,101, 74,135,168,217,246,108, 67, 50, 29,208,255,142,161,
     227,204,189,146, 95,112,  1, 46,180,155,234,197,  8, 39, 86,121,
      77, 98, 19, 60,241,222,175,128, 26, 53, 68,107,166,137,248,215,
     144,191,206,225, 44,  3,114, 93,199,232,153,182,123, 84, 37, 10,
      62, 17, 96, 79,130,173,220,243,105, 70, 55, 24,213,250,139,164,
       5, 42, 91,116,185,150,231,200, 82,125, 12, 35,238,193,176,159,
     171,132,245,218, 23, 56, 73,102,252,211,162,141, 64,111, 30, 49,
     118, 89, 40,  7,202,229,148,187, 33, 14,127, 80,157,178,195,236,
     216,247,134,169,100, 75, 58, 21,143,160,209,254, 51, 28,109, 66 >>

compute_crc(bytes) ==
  LET crc[i \in 0..Len(bytes)] ==
        IF i = 0 THEN 255 ELSE crc_array[Xor(crc[i - 1], bytes[i]) + 1]
  IN 255 - crc[Len(bytes)]

\* One byte through the sensor's shift register, whose polynomial is
\* x^8 + x^5 + x^3 + x^2 + x + 1.
Shift(r) == IF r >= 128 THEN Xor(2 * r - 256, 47) ELSE 2 * r
ShiftOut(register, byte) ==
  Shift(Shift(Shift(Shift(Shift(Shift(Shift(Shift(Xor(register, byte)))))))))

Checksum(bytes) ==
  LET register[i \in 0..Len(bytes)] ==
        IF i = 0 THEN 255 ELSE ShiftOut(register[i - 1], bytes[i])
  IN 255 - register[Len(bytes)]

\* The table of prsb25.h is that of the sensor's polynomial.
ASSUME CrcArrayAssumption == \A b \in 0..255 : crc_array[b + 1] = ShiftOut(0, b)
-----------------------------------------------------------------------------
\* The status bits of a frame; the sensor marks a valid angle with 2 or 3.
Frames == [angle : Angles, status : 0..3]
IsValid(frame) == frame.status > 1

\* The bytes the sensor sends; the gain and the counter are left at values.
Content(frame) ==
  <<frame.angle % 256, frame.angle \div 256 + 64 * frame.status, 0, 0, 90, 0, 17>>
FrameBytes(frame) == Append(Content(frame), Checksum(Content(frame)))

Damages(bytes) ==
  {[bytes EXCEPT ![i] = Xor(@, mask)] : i \in DOMAIN bytes, mask \in 1..255}

NotFound == [ret |-> "ESP_ERR_NOT_FOUND", value |-> Untouched]

\* The angle of a frame whose checksum is right, unless its status is an error.
ReadAngle(rx) ==
  LET alpha == rx[1] + (rx[2] % 64) * 256
      error == rx[2] \div 64
  IN IF error > 1 THEN [ret |-> "ESP_OK", value |-> alpha] ELSE NotFound

\* A faulty variant of spi_master_read_sensor, for a property to find: the
\* checksum is not looked at.
ReadUnchecked(rx) == ReadAngle(rx)

\* What spi_master_read_sensor does with a frame.
spi_master_read_sensor(rx) ==
  IF rx[8] = compute_crc(SubSeq(rx, 1, 7)) THEN ReadAngle(rx) ELSE NotFound

\* It for every frame as sent, with the value the sensor has measured, and
\* for every frame with one damaged byte.
WholeReads ==
  {[result |-> spi_master_read_sensor(FrameBytes(f)), frame |-> f] : f \in Frames}
DamagedReads ==
  {spi_master_read_sensor(rx) : rx \in UNION {Damages(FrameBytes(f)) : f \in Frames}}
=============================================================================
