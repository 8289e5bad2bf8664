---------------------------- MODULE FramingProofs ---------------------------
(***************************************************************************)
(* Proofs about Framing, for bytes of any base, any set of messages within   *)
(* the limit, and any number of frames and starts.                          *)
(***************************************************************************)
EXTENDS Framing, SequenceTheorems, TLAPS

USE FramingAssumption DEF HeaderSize

\* What two sequences are together.
LEMMA Joined ==
  ASSUME NEW S, NEW q \in Seq(S), NEW r \in Seq(S), NEW s, s = q \o r
  PROVE  /\ s \in Seq(S) /\ Len(q) \in Nat /\ Len(r) \in Nat /\ Len(s) = Len(q) + Len(r)
         /\ \A i \in 1..Len(q) : s[i] = q[i]
         /\ \A i \in 1..Len(r) : s[Len(q) + i] = r[i]
<1>1. /\ s \in Seq(S) /\ Len(q) \in Nat /\ Len(r) \in Nat /\ Len(s) = Len(q) + Len(r)
      /\ \A i \in 1..Len(s) : s[i] = IF i <= Len(q) THEN q[i] ELSE r[i - Len(q)]
  BY ConcatProperties, LenProperties
<1>2. ASSUME NEW i \in 1..Len(q) PROVE s[i] = q[i] BY <1>1
<1>3. ASSUME NEW i \in 1..Len(r) PROVE s[Len(q) + i] = r[i]
  <2>1. Len(q) + i \in 1..Len(s) /\ ~ (Len(q) + i <= Len(q)) /\ (Len(q) + i) - Len(q) = i BY <1>1
  <2> QED BY <1>1, <2>1
<1> QED BY <1>1, <1>2, <1>3

\* The number that a header of two bytes stands for.
Number(a, b) == a * Base + b

\* The numbers a header can hold.
LEMMA NumberType ==
  ASSUME NEW a \in Bytes, NEW b \in Bytes
  PROVE  Number(a, b) \in 0..(Base * Base - 1)
<1>1. a \in Nat /\ a <= Base - 1 /\ b \in Nat /\ b <= Base - 1 BY DEF Bytes
<1>2. a * Base \in Nat /\ a * Base <= (Base - 1) * Base BY <1>1
<1>3. (Base - 1) * Base = Base * Base - Base /\ Base * Base \in Nat OBVIOUS
<1> QED BY <1>1, <1>2, <1>3 DEF Number

\* The messages are sequences of bytes, no longer than the limit.
LEMMA MessageType ==
  ASSUME NEW m \in Messages
  PROVE  m \in Seq(Bytes) /\ Len(m) \in 1..MaxSize
<1>1. PICK n \in 1..MaxSize : m \in [1..n -> Bytes] OBVIOUS
<1>2. n \in Nat OBVIOUS
<1>3. m \in Seq(Bytes) /\ Len(m) = n BY <1>1, <1>2
<1> QED BY <1>1, <1>3

\* A frame: its size, in two bytes, and the message.
LEMMA FrameType ==
  ASSUME NEW m \in Messages
  PROVE  /\ Frame(m) \in Seq(Bytes) /\ Len(Frame(m)) = Len(m) + 2 /\ Len(m) \in Nat
         /\ Frame(m)[1] = Len(m) \div Base /\ Frame(m)[2] = Len(m) % Base
         /\ \A j \in 1..Len(m) : Frame(m)[j + 2] = m[j]
         /\ Number(Len(m) \div Base, Len(m) % Base) = Len(m)
<1>1. m \in Seq(Bytes) /\ Len(m) \in 1..MaxSize BY MessageType
<1>2. PICK n \in 1..MaxSize : n = Len(m) BY <1>1
<1>3. n \div Base = 0 /\ n % Base = n
  <2>1. n \in Nat /\ n < Base OBVIOUS
  <2> QED BY <2>1
<1>4. Len(m) \div Base \in Bytes /\ Len(m) % Base \in Bytes BY <1>2, <1>3 DEF Bytes
<1>5. PICK h : h = <<Len(m) \div Base, Len(m) % Base>> OBVIOUS
<1>6. h \in Seq(Bytes) /\ Len(h) = 2 /\ h[1] = Len(m) \div Base /\ h[2] = Len(m) % Base
  BY <1>4, <1>5
<1>7. Frame(m) = h \o m BY <1>5 DEF Frame
<1>8. PICK f : f = Frame(m) OBVIOUS
<1>9. /\ f \in Seq(Bytes) /\ Len(h) \in Nat /\ Len(m) \in Nat /\ Len(f) = Len(h) + Len(m)
      /\ \A i \in 1..Len(h) : f[i] = h[i]
      /\ \A i \in 1..Len(m) : f[Len(h) + i] = m[i]
  <2>1. f = h \o m BY <1>7, <1>8
  <2>2. h \in Seq(Bytes) /\ m \in Seq(Bytes) BY <1>1, <1>6
  <2> QED BY <2>1, <2>2, Joined
<1>10. Len(f) = Len(m) + 2 /\ f[1] = h[1] /\ f[2] = h[2] /\ \A i \in 1..Len(m) : f[i + 2] = m[i]
  <2>1. 1 \in 1..Len(h) /\ 2 \in 1..Len(h) BY <1>6
  <2>2. \A i \in 1..Len(m) : i + 2 = Len(h) + i BY <1>6
  <2> QED BY <1>6, <1>9, <2>1, <2>2
<1>11. Number(Len(m) \div Base, Len(m) % Base) = Len(m) BY <1>2, <1>3 DEF Number
<1> QED BY <1>6, <1>8, <1>9, <1>10, <1>11

\* A frame that is cut.
LEMMA FrameCut ==
  ASSUME NEW m \in Messages, NEW n \in 0..(Len(Frame(m)) - 1),
         NEW s, s = SubSeq(Frame(m), 1, n)
  PROVE  s \in Seq(Bytes) /\ Len(s) = n /\ n < Len(m) + 2 /\ \A i \in 1..n : s[i] = Frame(m)[i]
<1>1. PICK f : f = Frame(m) OBVIOUS
<1>2. f \in Seq(Bytes) /\ Len(f) = Len(m) + 2 /\ Len(m) \in Nat BY <1>1, FrameType
<1>3. n \in Int /\ 0 <= n /\ n <= Len(f) - 1 /\ Len(f) \in Nat BY <1>1, <1>2
<1>4. \A i \in 1..n : i \in 1..Len(f) BY <1>3
<1>5. \A i \in 1..n : f[i] \in Bytes BY <1>2, <1>4, ElementOfSeq
<1>6. /\ SubSeq(f, 1, n) \in Seq(Bytes)
      /\ Len(SubSeq(f, 1, n)) = IF 1 <= n THEN n - 1 + 1 ELSE 0
      /\ \A i \in 1..(n - 1 + 1) : SubSeq(f, 1, n)[i] = f[1 + i - 1]
  BY <1>3, <1>5, SubSeqProperties
<1>7. n - 1 + 1 = n /\ \A i \in 1..n : 1 + i - 1 = i BY <1>3
<1>8. \A i \in 1..n : SubSeq(f, 1, n)[i] = f[i] BY <1>6, <1>7
<1>9. Len(SubSeq(f, 1, n)) = n BY <1>3, <1>6
<1> QED BY <1>1, <1>2, <1>3, <1>6, <1>8, <1>9

\* What a call has put into the buffer.
LEMMA BufferType ==
  ASSUME bytes \in Seq(Bytes), pos \in Nat, want \in Nat, NEW n \in Nat, n <= want,
         pos + n <= Len(bytes)
  PROVE  /\ Buffer(n) \in Seq(Bytes) /\ Len(Buffer(n)) = want
         /\ \A i \in 1..n : Buffer(n)[i] = bytes[pos + i]
<1>1. PICK q : q = SubSeq(bytes, pos + 1, pos + n) OBVIOUS
<1>2. PICK z : z = [i \in 1..(want - n) |-> 0] OBVIOUS
<1>3. PICK b : b = Buffer(n) OBVIOUS
<1>4. b = q \o z BY <1>1, <1>2, <1>3 DEF Buffer
<1>5. q \in Seq(Bytes) /\ Len(q) = n /\ \A i \in 1..n : q[i] = bytes[pos + i]
  <2>1. Len(bytes) \in Nat BY LenProperties
  <2>2. pos + 1 \in 1..(Len(bytes) + 1) /\ pos + n \in ((pos + 1) - 1)..Len(bytes)
        /\ (pos + n) - (pos + 1) + 1 = n
    BY <2>1
  <2>3. /\ SubSeq(bytes, pos + 1, pos + n) \in Seq(Bytes)
        /\ Len(SubSeq(bytes, pos + 1, pos + n)) = (pos + n) - (pos + 1) + 1
        /\ \A i \in 1..((pos + n) - (pos + 1) + 1) :
              SubSeq(bytes, pos + 1, pos + n)[i] = bytes[(pos + 1) + i - 1]
    BY <2>2, SubSeqProperties
  <2>4. \A i \in 1..n : (pos + 1) + i - 1 = pos + i OBVIOUS
  <2> QED BY <1>1, <2>2, <2>3, <2>4
<1>6. z \in Seq(Bytes) /\ Len(z) = want - n
  <2>1. 0 \in Bytes /\ want - n \in Nat BY DEF Bytes
  <2> QED BY <1>2, <2>1
<1>7. /\ b \in Seq(Bytes) /\ Len(b) = Len(q) + Len(z) /\ \A i \in 1..Len(q) : b[i] = q[i]
  <2>1. q \in Seq(Bytes) /\ z \in Seq(Bytes) BY <1>5, <1>6
  <2> QED BY <1>4, <2>1, Joined
<1>8. Len(b) = want BY <1>5, <1>6, <1>7
<1> QED BY <1>3, <1>5, <1>7, <1>8

-----------------------------------------------------------------------------
(* The type invariant.                                                      *)

\* The variables have their types, and every message costs the reader a byte of a size.
Writer ==
    /\ kind \in Kinds
    /\ bytes \in Seq(Bytes)
    /\ frames \in 0..MaxFrames
    /\ arrived \in 0..Len(bytes)
    /\ written \in Seq(Messages)
    /\ Len(written) <= frames
    /\ cut \in {"no", "last", "inside"}
    /\ starts \in 1..MaxStarts
    /\ closed \in BOOLEAN /\ unsaved \in BOOLEAN
Reader ==
    /\ pos \in 0..arrived
    /\ phase \in {"size", "data", "up", "ended", "failed"}
    /\ phase = "size" => want = HeaderSize
    /\ want \in 0..(Base * Base - 1)
    /\ kind \in {"conn", "stream"} => want <= MaxSize
    /\ got \in Seq(Seq(Bytes))
    /\ short \in BOOLEAN
Paid ==
    /\ phase = "size" => Len(got) <= pos
    /\ phase = "data" => Len(got) + 1 <= pos
    /\ Len(got) <= pos + frames
TypeInv == Writer /\ Reader /\ Paid

\* A header of two bytes can be asked for.
LEMMA HeaderFits == HeaderSize \in 0..(Base * Base - 1) /\ HeaderSize <= MaxSize
<1>1. Base * Base >= 2 * Base OBVIOUS
<1> QED BY <1>1

\* At the start.
LEMMA TypeInit == Init => TypeInv
<1> SUFFICES ASSUME Init PROVE TypeInv OBVIOUS
<1>1. /\ <<>> \in Seq(Bytes) /\ <<>> \in Seq(Messages) /\ <<>> \in Seq(Seq(Bytes))
      /\ Len(<<>>) = 0
  OBVIOUS
<1>2. 0 \in 0..MaxFrames /\ 1 \in 1..MaxStarts /\ 0 \in 0..0 OBVIOUS
<1>3. Writer
  <2>1. bytes \in Seq(Bytes) /\ Len(bytes) = 0 /\ written \in Seq(Messages) /\ Len(written) = 0
    BY <1>1 DEF Init
  <2>2. closed \in BOOLEAN /\ unsaved \in BOOLEAN /\ kind \in Kinds BY DEF Init
  <2>3. frames = 0 /\ arrived = 0 /\ starts = 1 /\ cut = "no" BY DEF Init
  <2> QED BY <1>2, <2>1, <2>2, <2>3 DEF Writer
<1>4. Reader BY <1>1, <1>2, HeaderFits DEF Init, Reader
<1>5. Paid
  <2>1. Len(got) = 0 /\ pos = 0 /\ frames = 0 /\ phase = "size" BY <1>1 DEF Init
  <2> QED BY <2>1 DEF Paid
<1> QED BY <1>3, <1>4, <1>5 DEF TypeInv

\* Something is appended to the link.
LEMMA BytesAppended ==
  ASSUME TypeInv, NEW s \in Seq(Bytes), bytes' = bytes \o s
  PROVE  /\ bytes' \in Seq(Bytes) /\ Len(bytes) \in Nat /\ Len(s) \in Nat
         /\ Len(bytes') = Len(bytes) + Len(s) /\ arrived \in 0..Len(bytes')
         /\ \A i \in 1..Len(bytes) : bytes'[i] = bytes[i]
         /\ \A i \in 1..Len(s) : bytes'[Len(bytes) + i] = s[i]
<1>1. bytes \in Seq(Bytes) /\ arrived \in 0..Len(bytes) BY DEF TypeInv, Writer
<1>2. /\ bytes' \in Seq(Bytes) /\ Len(bytes) \in Nat /\ Len(s) \in Nat
      /\ Len(bytes') = Len(bytes) + Len(s)
      /\ \A i \in 1..Len(bytes) : bytes'[i] = bytes[i]
      /\ \A i \in 1..Len(s) : bytes'[Len(bytes) + i] = s[i]
  BY <1>1, Joined
<1>3. arrived \in 0..Len(bytes') BY <1>1, <1>2
<1> QED BY <1>2, <1>3

\* Frames, whole or cut, keep the types.
LEMMA TypeWrite ==
  ASSUME TypeInv, NEW m \in Messages, NEW s \in Seq(Bytes), bytes' = bytes \o s,
         frames < MaxFrames, frames' = frames + 1, Keep(m),
         written' = written \/ written' = Append(written, m),
         cut' \in {"no", "last", "inside"}, closed' \in BOOLEAN, unsaved' \in BOOLEAN,
         kind = "file" => phase = "up",
         UNCHANGED <<kind, arrived, readVars, starts>>
  PROVE  TypeInv'
<1>0. /\ m \in Seq(Bytes) /\ frames \in Nat /\ written \in Seq(Messages) /\ Len(written) <= frames
      /\ got \in Seq(Seq(Bytes)) /\ pos \in Nat
  <2>1. Len(bytes) \in Nat BY BytesAppended
  <2>2. frames \in Nat /\ written \in Seq(Messages) /\ Len(written) <= frames
        /\ arrived \in 0..Len(bytes)
    BY DEF TypeInv, Writer
  <2>3. got \in Seq(Seq(Bytes)) /\ pos \in 0..arrived BY DEF TypeInv, Reader
  <2>4. pos \in Nat BY <2>1, <2>2, <2>3
  <2> QED BY <2>2, <2>3, <2>4, MessageType
<1>1. /\ bytes' \in Seq(Bytes) /\ arrived \in 0..Len(bytes') BY BytesAppended
<1>2. written' \in Seq(Messages) /\ Len(written') <= frames + 1
  <2>1. Append(written, m) \in Seq(Messages) /\ Len(Append(written, m)) = Len(written) + 1
        /\ Len(written) \in Nat
    BY <1>0, AppendProperties, LenProperties
  <2>2. CASE written' = written BY <1>0, <2>1, <2>2
  <2>3. CASE written' = Append(written, m) BY <1>0, <2>1, <2>3
  <2> QED BY <2>2, <2>3
<1>3. frames' \in 0..MaxFrames BY <1>0
<1>4. Writer' BY <1>1, <1>2, <1>3 DEF TypeInv, Writer
<1>5. got' \in Seq(Seq(Bytes)) /\ Len(got') <= Len(got) + 1 /\ (phase # "up" => got' = got)
      /\ Len(got) \in Nat /\ Len(got') \in Nat
  <2>1. Append(got, m) \in Seq(Seq(Bytes)) /\ Len(Append(got, m)) = Len(got) + 1
        /\ Len(got) \in Nat
    BY <1>0, AppendProperties, LenProperties
  <2> QED BY <1>0, <2>1 DEF Keep
<1>6. Reader' BY <1>5 DEF TypeInv, Reader, readVars
<1>7. Paid'
  <2>1. Len(got') <= pos + (frames + 1) BY <1>0, <1>5 DEF TypeInv, Paid
  <2>2. UNCHANGED <<pos, phase>> BY DEF readVars
  <2> QED BY <1>5, <2>1, <2>2 DEF TypeInv, Paid
<1> QED BY <1>4, <1>6, <1>7 DEF TypeInv

\* What a call that returns n bytes finds.
LEMMA CallType ==
  ASSUME TypeInv, NEW n \in 0..Len(bytes), Returns(n)
  PROVE  /\ Len(bytes) \in Nat /\ arrived \in Nat /\ pos \in Nat /\ want \in Nat /\ n \in Nat
         /\ n <= want /\ pos + n <= arrived /\ arrived <= Len(bytes) /\ n <= Available
         /\ Buffer(n) \in Seq(Bytes) /\ Len(Buffer(n)) = want
         /\ \A i \in 1..n : Buffer(n)[i] = bytes[pos + i]
<1>1. bytes \in Seq(Bytes) /\ Len(bytes) \in Nat /\ arrived \in 0..Len(bytes)
  BY LenProperties DEF TypeInv, Writer
<1>2. Base * Base \in Nat OBVIOUS
<1>3. pos \in 0..arrived /\ want \in Nat BY <1>2 DEF TypeInv, Reader
<1>4. n <= want /\ n <= arrived - pos BY DEF Returns, Available
<1>5. arrived \in Nat /\ pos \in Nat /\ n \in Nat /\ pos + n <= arrived /\ arrived <= Len(bytes)
  BY <1>1, <1>3, <1>4
<1>6. pos + n <= Len(bytes) BY <1>1, <1>5
<1>7. /\ Buffer(n) \in Seq(Bytes) /\ Len(Buffer(n)) = want
      /\ \A i \in 1..n : Buffer(n)[i] = bytes[pos + i]
  BY <1>1, <1>3, <1>4, <1>5, <1>6, BufferType
<1> QED BY <1>1, <1>3, <1>4, <1>5, <1>7 DEF Available

\* The size is read, a byte at least.
LEMMA TypeReadSize ==
  ASSUME TypeInv, NEW n \in 0..Len(bytes), ReadSize(n)
  PROVE  TypeInv'
<1>1. /\ phase = "size" /\ Returns(n) /\ Consume(n) /\ UNCHANGED <<kind, writeVars, arrived, got, starts>>
  BY DEF ReadSize
<1>2. /\ Len(bytes) \in Nat /\ arrived \in Nat /\ pos \in Nat /\ n \in Nat
      /\ pos + n <= arrived
      /\ Buffer(n) \in Seq(Bytes) /\ Len(Buffer(n)) = want
  BY <1>1, CallType
<1>3. want = 2 BY <1>1 DEF TypeInv, Reader
<1>4. n # 0 BY <1>1, <1>3 DEF Returns
<1>5. PICK b : b = Buffer(n) OBVIOUS
<1>6. b[1] \in Bytes /\ b[2] \in Bytes
  <2>1. b \in Seq(Bytes) BY <1>2, <1>5
  <2>2. Len(b) = want BY <1>2, <1>5, Zenon
  <2>3. 1 \in 1..Len(b) /\ 2 \in 1..Len(b) BY <1>3, <2>2
  <2> QED BY <2>1, <2>3, ElementOfSeq
<1>7. PICK size : size = Number(b[1], b[2]) OBVIOUS
<1>8. size \in 0..(Base * Base - 1) BY <1>6, <1>7, NumberType
<1>9. \/ phase' = "failed" /\ UNCHANGED want
      \/ phase' = "data" /\ want' = size /\ ~ TooLarge(size)
  BY <1>5, <1>7 DEF ReadSize, Number
<1>10. kind \in {"conn", "stream"} => want' <= MaxSize
  BY <1>3, <1>8, <1>9, HeaderFits DEF TooLarge
<1>11. want' \in 0..(Base * Base - 1) BY <1>3, <1>8, <1>9, HeaderFits
<1>12. pos' = pos + n /\ pos' \in 0..arrived /\ short' \in BOOLEAN BY <1>1, <1>2 DEF Consume
<1>13. Writer' BY <1>1 DEF TypeInv, Writer, writeVars
<1>14. Reader' BY <1>1, <1>9, <1>10, <1>11, <1>12 DEF TypeInv, Reader
<1>15. Paid'
  <2>1. Len(got) \in Nat BY LenProperties DEF TypeInv, Reader
  <2>2. Len(got) <= pos /\ frames \in Nat BY <1>1 DEF TypeInv, Paid, Writer
  <2>3. Len(got) + 1 <= pos' /\ Len(got) <= pos' + frames BY <1>2, <1>4, <1>12, <2>1, <2>2
  <2>4. UNCHANGED <<got, frames>> BY <1>1 DEF writeVars
  <2> QED BY <1>9, <2>3, <2>4 DEF Paid
<1> QED BY <1>13, <1>14, <1>15 DEF TypeInv

\* The data are read.
LEMMA TypeReadData ==
  ASSUME TypeInv, NEW n \in 0..Len(bytes), ReadData(n)
  PROVE  TypeInv'
<1>1. /\ phase = "data" /\ Returns(n) /\ Consume(n) /\ UNCHANGED <<kind, writeVars, arrived, starts>>
      /\ want' = HeaderSize
      /\ (phase' = "size" /\ got' = Append(got, Buffer(n))) \/ (phase' = "failed" /\ UNCHANGED got)
  BY DEF ReadData
<1>2. /\ Len(bytes) \in Nat /\ arrived \in Nat /\ pos \in Nat /\ n \in Nat
      /\ pos + n <= arrived /\ Buffer(n) \in Seq(Bytes)
  BY <1>1, CallType
<1>3. PICK b \in Seq(Bytes) : b = Buffer(n) BY <1>2
<1>4. got \in Seq(Seq(Bytes)) BY DEF TypeInv, Reader
<1>5. Append(got, b) \in Seq(Seq(Bytes)) /\ Len(Append(got, b)) = Len(got) + 1 /\ Len(got) \in Nat
  BY <1>3, <1>4, AppendProperties, LenProperties
<1>6. got' \in Seq(Seq(Bytes)) /\ Len(got') \in Nat /\ Len(got') <= Len(got) + 1
  <2>1. CASE got' = got BY <1>4, <1>5, <2>1
  <2>2. CASE got' = Append(got, b) BY <1>5, <2>2
  <2>3. got' = got \/ got' = Append(got, b) BY <1>1, <1>3
  <2> QED BY <2>1, <2>2, <2>3
<1>7. pos' = pos + n /\ pos' \in 0..arrived /\ short' \in BOOLEAN BY <1>1, <1>2 DEF Consume
<1>8. Writer' BY <1>1 DEF TypeInv, Writer, writeVars
<1>9. Reader' BY <1>1, <1>6, <1>7, HeaderFits DEF TypeInv, Reader
<1>10. Paid'
  <2>1. Len(got) + 1 <= pos /\ frames \in Nat BY <1>1 DEF TypeInv, Paid, Writer
  <2>2. Len(got') <= pos' BY <1>2, <1>5, <1>6, <1>7, <2>1
  <2>3. Len(got') <= pos' + frames BY <1>2, <1>6, <1>7, <2>1, <2>2
  <2>4. UNCHANGED frames BY <1>1 DEF writeVars
  <2> QED BY <1>1, <2>2, <2>3, <2>4 DEF Paid
<1> QED BY <1>8, <1>9, <1>10 DEF TypeInv

\* Every step keeps the types.
LEMMA TypeNext == TypeInv /\ [Next]_vars => TypeInv'
<1> SUFFICES ASSUME TypeInv, [Next]_vars PROVE TypeInv' OBVIOUS
<1>0. bytes \in Seq(Bytes) /\ Len(bytes) \in Nat /\ arrived \in 0..Len(bytes) /\ pos \in 0..arrived
  BY LenProperties DEF TypeInv, Writer, Reader
<1>1. ASSUME NEW m \in Messages, Write(m) PROVE TypeInv'
  <2>1. /\ frames < MaxFrames /\ frames' = frames + 1 /\ Keep(m)
        /\ written' = Append(written, m) /\ (kind = "file" => phase = "up")
        /\ UNCHANGED <<kind, closed, unsaved, arrived, readVars, starts>>
        /\ bytes' = bytes \o Frame(m)
    BY <1>1 DEF Write, MayWrite
  <2>2. cut' \in {"no", "last", "inside"} BY <1>1 DEF Write
  <2>3. closed' \in BOOLEAN /\ unsaved' \in BOOLEAN BY <2>1 DEF TypeInv, Writer
  <2>4. Frame(m) \in Seq(Bytes) BY FrameType
  <2> QED BY <2>1, <2>2, <2>3, <2>4, TypeWrite
<1>2. ASSUME NEW m \in Messages, NEW n \in 0..(Len(Frame(m)) - 1), WriteCut(m, n) PROVE TypeInv'
  <2>1. PICK s : s = SubSeq(Frame(m), 1, n) OBVIOUS
  <2>2. /\ frames < MaxFrames /\ frames' = frames + 1 /\ Keep(m)
        /\ UNCHANGED written /\ (kind = "file" => phase = "up")
        /\ UNCHANGED <<kind, arrived, readVars, starts>>
        /\ bytes' = bytes \o s
    BY <1>2, <2>1 DEF WriteCut, MayWrite
  <2>3. cut' \in {"no", "last", "inside"} BY <1>2 DEF WriteCut, TypeInv, Writer
  <2>4. closed' \in BOOLEAN /\ unsaved' \in BOOLEAN BY <1>2 DEF WriteCut
  <2>5. s \in Seq(Bytes) BY <1>2, <2>1, FrameCut
  <2> QED BY <2>2, <2>3, <2>4, <2>5, TypeWrite
<1>3. CASE CloseWriter
  <2>1. UNCHANGED <<kind, bytes, frames, written, cut, unsaved, arrived, readVars, got, starts>>
        /\ closed' = TRUE
    BY <1>3 DEF CloseWriter
  <2>2. Writer' BY <2>1 DEF TypeInv, Writer
  <2>3. Reader' /\ Paid' BY <2>1 DEF TypeInv, Reader, Paid, readVars
  <2> QED BY <2>2, <2>3 DEF TypeInv
<1>4. ASSUME NEW n \in 1..Len(bytes), Arrive(n) PROVE TypeInv'
  <2>1. UNCHANGED <<kind, writeVars, readVars, got, starts>> /\ arrived' \in 0..Len(bytes)
        /\ pos \in 0..arrived'
    BY <1>0, <1>4 DEF Arrive
  <2>2. Writer' BY <2>1 DEF TypeInv, Writer, writeVars
  <2>3. Reader' BY <2>1 DEF TypeInv, Reader, readVars
  <2>4. Paid' BY <2>1 DEF TypeInv, Paid, readVars, writeVars
  <2> QED BY <2>2, <2>3, <2>4 DEF TypeInv
<1>5. CASE ReadEnd
  <2>1. UNCHANGED <<kind, writeVars, arrived, pos, want, short, got, starts>>
        /\ phase' \in {"up", "ended", "failed"}
    BY <1>5 DEF ReadEnd
  <2>2. Writer' BY <2>1 DEF TypeInv, Writer, writeVars
  <2>3. Reader' BY <2>1 DEF TypeInv, Reader
  <2>4. Paid' BY <2>1 DEF TypeInv, Paid, writeVars
  <2> QED BY <2>2, <2>3, <2>4 DEF TypeInv
<1>6. CASE Restart
  <2>1. /\ UNCHANGED <<kind, bytes, closed, frames, written, cut, short>>
        /\ arrived' = Len(bytes) /\ pos' = 0 /\ phase' = "size" /\ want' = HeaderSize
        /\ got' = <<>> /\ unsaved' = FALSE /\ starts' \in 1..MaxStarts
    BY <1>6 DEF Restart, TypeInv, Writer
  <2>2. Writer'
    <3>1. arrived' \in 0..Len(bytes') BY <1>0, <2>1
    <3>2. closed' \in BOOLEAN /\ unsaved' \in BOOLEAN BY <2>1 DEF TypeInv, Writer
    <3> QED BY <2>1, <3>1, <3>2 DEF TypeInv, Writer
  <2>3. got' \in Seq(Seq(Bytes)) /\ Len(got') = 0 BY <2>1
  <2>4. Reader' BY <1>0, <2>1, <2>3, HeaderFits DEF TypeInv, Reader
  <2>5. Paid'
    <3>1. frames \in Nat BY DEF TypeInv, Writer
    <3> QED BY <2>1, <2>3, <3>1 DEF Paid
  <2> QED BY <2>2, <2>4, <2>5 DEF TypeInv
<1>7. CASE UNCHANGED vars
  BY <1>7 DEF vars, TypeInv, Writer, Reader, Paid, writeVars, readVars
<1> QED BY <1>1, <1>2, <1>3, <1>4, <1>5, <1>6, <1>7, TypeReadSize, TypeReadData DEF Next, ReadStep

\* The variables of Framing have their types; a delegate connection and a stream are
\* never asked for more than the limit, and every message has cost a byte or a frame.
THEOREM TypeCorrect == Spec => []TypeOK
<1>1. TypeInv => TypeOK
  <2> SUFFICES ASSUME TypeInv PROVE TypeOK OBVIOUS
  <2>1. \A i \in 1..Len(bytes) : bytes[i] \in Bytes BY ElementOfSeq DEF TypeInv, Writer
  <2>2. Len(got) <= Len(bytes) + frames
    <3>1. Len(bytes) \in Nat /\ Len(got) \in Nat /\ frames \in Nat
      BY LenProperties DEF TypeInv, Writer, Reader
    <3>2. arrived \in 0..Len(bytes) /\ pos \in 0..arrived /\ Len(got) <= pos + frames
      BY DEF TypeInv, Writer, Reader, Paid
    <3> QED BY <3>1, <3>2
  <2>3. {closed, short, unsaved} \subseteq BOOLEAN
    <3>1. closed \in BOOLEAN BY DEF TypeInv, Writer
    <3>2. short \in BOOLEAN BY DEF TypeInv, Reader
    <3>3. unsaved \in BOOLEAN BY DEF TypeInv, Writer
    <3> QED BY <3>1, <3>2, <3>3, Zenon
  <2> QED BY <2>1, <2>2, <2>3 DEF TypeInv, Writer, Reader, TypeOK
<1> QED BY <1>1, TypeInit, TypeNext, PTL DEF Spec
-----------------------------------------------------------------------------
(* Where the frames lie.                                                    *)

\* The frame of m is in b, after its first o bytes.
Holds(b, o, m) ==
    /\ b[o + 1] = Len(m) \div Base
    /\ b[o + 2] = Len(m) % Base
    /\ \A j \in 1..Len(m) : b[o + 2 + j] = m[j]

\* The frames of the messages w follow each other in b, that of w[i] after off[i] bytes.
Whole(off, w, b) ==
    /\ off \in [1..(Len(w) + 1) -> Nat]
    /\ off[1] = 0
    /\ \A i \in 1..Len(w) : off[i + 1] = off[i] + 2 + Len(w[i]) /\ Holds(b, off[i], w[i])
    /\ \A i \in 1..(Len(w) + 1) : off[i] <= off[Len(w) + 1]

\* After o bytes there are only some bytes of a frame, fewer than it has.
CutTail(o, b) ==
    /\ o < Len(b)
    /\ o + 2 <= Len(b) => Len(b) < o + 2 + Number(b[o + 1], b[o + 2])

\* What follows the frames that are whole.
TailOf(o, b, c) ==
    /\ o <= Len(b)
    /\ c = "no" => o = Len(b)
    /\ c = "last" => CutTail(o, b)

\* A frame stays where it is when something is appended.
LEMMA HeldOn ==
  ASSUME NEW b \in Seq(Bytes), NEW s \in Seq(Bytes), NEW c, c = b \o s,
         NEW m \in Messages, NEW o \in Nat, Holds(b, o, m), o + 2 + Len(m) <= Len(b)
  PROVE  Holds(c, o, m)
<1>1. Len(b) \in Nat /\ \A i \in 1..Len(b) : c[i] = b[i] BY Joined
<1>2. Len(m) \in Nat BY FrameType
<1>3. o + 1 \in 1..Len(b) /\ o + 2 \in 1..Len(b) BY <1>1, <1>2
<1>4. ASSUME NEW j \in 1..Len(m) PROVE c[o + 2 + j] = m[j]
  <2>1. o + 2 + j \in 1..Len(b) BY <1>1, <1>2
  <2>2. b[o + 2 + j] = m[j] BY DEF Holds
  <2> QED BY <1>1, <2>1, <2>2
<1>5. c[o + 1] = Len(m) \div Base /\ c[o + 2] = Len(m) % Base BY <1>1, <1>3 DEF Holds
<1> QED BY <1>4, <1>5 DEF Holds

\* So do all of them.
LEMMA StillWhole ==
  ASSUME NEW w \in Seq(Messages), NEW b \in Seq(Bytes), NEW s \in Seq(Bytes), NEW c, c = b \o s,
         NEW off, Whole(off, w, b), off[Len(w) + 1] <= Len(b)
  PROVE  Whole(off, w, c)
<1>1. Len(w) \in Nat /\ Len(b) \in Nat BY LenProperties
<1>2. off \in [1..(Len(w) + 1) -> Nat] BY DEF Whole
<1>3. ASSUME NEW i \in 1..Len(w) PROVE Holds(c, off[i], w[i])
  <2>1. w[i] \in Messages BY ElementOfSeq
  <2>2. i \in 1..(Len(w) + 1) /\ i + 1 \in 1..(Len(w) + 1) /\ Len(w) + 1 \in 1..(Len(w) + 1) BY <1>1
  <2>3. off[i] \in Nat /\ off[i + 1] \in Nat /\ off[Len(w) + 1] \in Nat BY <1>2, <2>2
  <2>4. off[i + 1] = off[i] + 2 + Len(w[i]) /\ Holds(b, off[i], w[i]) BY DEF Whole
  <2>5. off[i + 1] <= off[Len(w) + 1] BY <2>2 DEF Whole
  <2>6. off[i] + 2 + Len(w[i]) <= Len(b) BY <1>1, <2>3, <2>4, <2>5
  <2> QED BY <2>1, <2>3, <2>4, <2>6, HeldOn
<1> QED BY <1>3 DEF Whole

\* One more frame, behind the others.
LEMMA OneMore ==
  ASSUME NEW w \in Seq(Messages), NEW b \in Seq(Bytes), NEW m \in Messages,
         NEW off, Whole(off, w, b), off[Len(w) + 1] = Len(b)
  PROVE  \E e : /\ Whole(e, Append(w, m), b \o Frame(m))
                /\ e[Len(Append(w, m)) + 1] = Len(b \o Frame(m))
                /\ \A i \in 1..(Len(w) + 1) : e[i] = off[i]
<1> HIDE FramingAssumption
<1>a. PICK c : c = b \o Frame(m) OBVIOUS
<1>b. PICK v : v = Append(w, m) OBVIOUS
<1>1. Len(w) \in Nat /\ Len(b) \in Nat BY LenProperties
<1>2. v \in Seq(Messages) /\ Len(v) = Len(w) + 1 /\ v[Len(w) + 1] = m
      /\ \A i \in 1..Len(w) : v[i] = w[i]
  BY <1>b, AppendProperties
<1>3. PICK f \in Seq(Bytes) : f = Frame(m) BY FrameType
<1>4. /\ Len(f) = Len(m) + 2 /\ Len(m) \in Nat
      /\ f[1] = Len(m) \div Base /\ f[2] = Len(m) % Base
      /\ \A j \in 1..Len(m) : f[j + 2] = m[j]
  BY <1>3, FrameType
<1>5. c = b \o f BY <1>a, <1>3
<1>6. /\ c \in Seq(Bytes) /\ Len(b) \in Nat /\ Len(f) \in Nat /\ Len(c) = Len(b) + Len(f)
      /\ \A i \in 1..Len(b) : c[i] = b[i]
      /\ \A i \in 1..Len(f) : c[Len(b) + i] = f[i]
  <2>1. b \in Seq(Bytes) /\ f \in Seq(Bytes) OBVIOUS
  <2> QED BY <1>5, <2>1, Joined
<1>7. Whole(off, w, c)
  <2>1. off[Len(w) + 1] <= Len(b) BY <1>1
  <2> QED BY <1>5, <2>1, StillWhole
<1>8. off \in [1..(Len(w) + 1) -> Nat] /\ off[1] = 0 BY <1>7 DEF Whole
<1>9. PICK e : e = [i \in 1..(Len(v) + 1) |-> IF i <= Len(w) + 1 THEN off[i] ELSE Len(c)]
  OBVIOUS
<1>10. Len(c) = Len(b) + 2 + Len(m) /\ Len(c) \in Nat BY <1>1, <1>4, <1>6
<1>11. e \in [1..(Len(v) + 1) -> Nat] BY <1>1, <1>2, <1>8, <1>9, <1>10
<1>12. \A i \in 1..(Len(w) + 1) : e[i] = off[i]
  <2> TAKE i \in 1..(Len(w) + 1)
  <2>1. i \in 1..(Len(v) + 1) /\ i <= Len(w) + 1 BY <1>1, <1>2
  <2> QED BY <1>9, <2>1
<1>13. e[Len(v) + 1] = Len(c)
  <2>1. Len(v) + 1 \in 1..(Len(v) + 1) /\ ~ (Len(v) + 1 <= Len(w) + 1) BY <1>1, <1>2
  <2> QED BY <1>9, <2>1
<1>14. Holds(c, Len(b), m)
  <2>1. 1 \in 1..Len(f) /\ 2 \in 1..Len(f) BY <1>4
  <2>2. c[Len(b) + 1] = Len(m) \div Base /\ c[Len(b) + 2] = Len(m) % Base BY <1>4, <1>6, <2>1
  <2>3. ASSUME NEW j \in 1..Len(m) PROVE c[Len(b) + 2 + j] = m[j]
    <3>1. j + 2 \in 1..Len(f) /\ Len(b) + 2 + j = Len(b) + (j + 2) BY <1>1, <1>4
    <3>2. f[j + 2] = m[j] BY <1>4
    <3> QED BY <1>6, <3>1, <3>2
  <2> QED BY <2>2, <2>3 DEF Holds
<1>15. ASSUME NEW i \in 1..Len(v)
       PROVE  e[i + 1] = e[i] + 2 + Len(v[i]) /\ Holds(c, e[i], v[i])
  <2>1. CASE i \in 1..Len(w)
    <3>1. i \in 1..(Len(w) + 1) /\ i + 1 \in 1..(Len(w) + 1) BY <1>1, <2>1
    <3>2. e[i] = off[i] /\ e[i + 1] = off[i + 1] BY <1>12, <3>1
    <3>3. v[i] = w[i] BY <1>2, <2>1
    <3>4. off[i + 1] = off[i] + 2 + Len(w[i]) /\ Holds(c, off[i], w[i]) BY <1>7, <2>1 DEF Whole
    <3> QED BY <3>2, <3>3, <3>4
  <2>2. CASE i = Len(w) + 1
    <3>1. i \in 1..(Len(w) + 1) /\ i + 1 = Len(v) + 1 BY <1>1, <1>2, <2>2
    <3>2. e[i] = Len(b) BY <1>12, <2>2, <3>1
    <3>3. e[i + 1] = Len(c) BY <1>13, <3>1
    <3>4. v[i] = m BY <1>2, <2>2
    <3> QED BY <1>10, <1>14, <3>2, <3>3, <3>4
  <2> QED BY <1>1, <1>2, <2>1, <2>2
<1>16. ASSUME NEW i \in 1..(Len(v) + 1) PROVE e[i] <= e[Len(v) + 1]
  <2>1. CASE i \in 1..(Len(w) + 1)
    <3>1. off[i] <= off[Len(w) + 1] BY <1>7, <2>1 DEF Whole
    <3>2. e[i] = off[i] /\ off[i] \in Nat BY <1>8, <1>12, <2>1
    <3> QED BY <1>1, <1>4, <1>10, <1>13, <3>1, <3>2
  <2>2. CASE i = Len(v) + 1 BY <1>10, <1>13, <2>2
  <2> QED BY <1>1, <1>2, <2>1, <2>2
<1>17. e[1] = 0
  <2>1. 1 \in 1..(Len(w) + 1) BY <1>1
  <2> QED BY <1>8, <1>12, <2>1
<1>18. Whole(e, v, c) BY <1>11, <1>15, <1>16, <1>17 DEF Whole
<1> QED BY <1>a, <1>b, <1>12, <1>13, <1>18

\* The bytes of a frame that is cut are fewer than its header announces.
LEMMA CutIsShort ==
  ASSUME NEW b \in Seq(Bytes), NEW m \in Messages, NEW n \in 1..(Len(Frame(m)) - 1),
         NEW c, c = b \o SubSeq(Frame(m), 1, n)
  PROVE  CutTail(Len(b), c)
<1> HIDE FramingAssumption
<1>1. PICK s : s = SubSeq(Frame(m), 1, n) OBVIOUS
<1>2. n \in 0..(Len(Frame(m)) - 1) OBVIOUS
<1>3. s \in Seq(Bytes) /\ Len(s) = n /\ n < Len(m) + 2 /\ \A i \in 1..n : s[i] = Frame(m)[i]
  BY <1>1, <1>2, FrameCut, Zenon
<1>4. c = b \o s BY <1>1
<1>5. Len(b) \in Nat /\ Len(c) = Len(b) + Len(s) /\ \A i \in 1..Len(s) : c[Len(b) + i] = s[i]
  BY <1>3, <1>4, Joined
<1>6. /\ Len(m) \in Nat
      /\ Frame(m)[1] = Len(m) \div Base /\ Frame(m)[2] = Len(m) % Base
      /\ Number(Len(m) \div Base, Len(m) % Base) = Len(m)
  BY FrameType
<1>7. Len(c) = Len(b) + n /\ n \in Nat /\ n >= 1 BY <1>3, <1>5
<1>8. ASSUME Len(b) + 2 <= Len(c)
      PROVE  Len(c) < Len(b) + 2 + Number(c[Len(b) + 1], c[Len(b) + 2])
  <2>1. 1 \in 1..n /\ 2 \in 1..n BY <1>5, <1>7, <1>8
  <2>2. s[1] = Len(m) \div Base /\ s[2] = Len(m) % Base BY <1>3, <1>6, <2>1
  <2>3. c[Len(b) + 1] = s[1] /\ c[Len(b) + 2] = s[2] BY <1>3, <1>5, <2>1
  <2>4. Number(c[Len(b) + 1], c[Len(b) + 2]) = Len(m) BY <1>6, <2>2, <2>3
  <2>5. Len(c) < Len(b) + 2 + Len(m) BY <1>3, <1>5, <1>6, <1>7
  <2> QED BY <2>4, <2>5
<1>9. Len(b) < Len(c) BY <1>5, <1>7
<1> QED BY <1>8, <1>9 DEF CutTail

-----------------------------------------------------------------------------
(* Where the reader is.                                                     *)

\* What it has returned is what was written first, and it has consumed these frames
\* exactly, or these and a header.  The peer with the file has all of them when it is
\* up, unless it has failed to save one.
At(off) ==
    /\ unsaved => kind = "file" /\ phase = "up"
    /\ ~ unsaved => Len(got) <= Len(written) /\ \A i \in 1..Len(got) : got[i] = written[i]
    /\ phase = "size" => pos = off[Len(got) + 1]
    /\ phase = "data" =>
           /\ pos = off[Len(got) + 1] + 2
           /\ want = Number(bytes[off[Len(got) + 1] + 1], bytes[off[Len(got) + 1] + 2])
    /\ (kind = "file" /\ phase = "up" /\ ~ unsaved) => (cut = "no" /\ Len(got) = Len(written))
Layout(off) == Whole(off, written, bytes) /\ TailOf(off[Len(written) + 1], bytes, cut)
Located == \E off : Layout(off) /\ At(off)
FrameInv == OutOfStep \/ cut = "inside" \/ Located

\* Every offset is within what has been written.
LEMMA Offsets ==
  ASSUME TypeInv, NEW off, Layout(off), NEW i \in 1..(Len(written) + 1)
  PROVE  /\ off[i] \in Nat /\ off[i] <= off[Len(written) + 1]
         /\ off[Len(written) + 1] \in Nat /\ off[Len(written) + 1] <= Len(bytes)
         /\ Len(written) \in Nat /\ Len(bytes) \in Nat
<1>1. Len(written) \in Nat /\ Len(bytes) \in Nat BY LenProperties DEF TypeInv, Writer
<1>2. off \in [1..(Len(written) + 1) -> Nat] /\ off[i] <= off[Len(written) + 1]
      /\ off[Len(written) + 1] <= Len(bytes)
  BY DEF Layout, Whole, TailOf
<1>3. Len(written) + 1 \in 1..(Len(written) + 1) BY <1>1
<1> QED BY <1>1, <1>2, <1>3

\* A reader that is not out of step has got all it has asked for.
LEMMA AllOfIt ==
  ASSUME TypeInv, NEW n \in 0..Len(bytes), Returns(n), Consume(n), UNCHANGED kind, ~ OutOfStep'
  PROVE  n = want
<1>1. CASE kind \in {"stream", "file"} BY <1>1 DEF Returns
<1>2. CASE kind \in {"conn", "pipe"}
  <2>1. short' = (short \/ n < want) BY DEF Consume
  <2>2. ~ short' BY <1>2 DEF OutOfStep
  <2>3. ~ (n < want) BY <2>1, <2>2
  <2>4. n \in Nat /\ want \in Nat /\ n <= want BY CallType
  <2> QED BY <2>3, <2>4
<1>3. kind \in Kinds BY DEF TypeInv, Writer
<1> QED BY <1>1, <1>2, <1>3 DEF Kinds

\* A reader that reads has returned what was written first.
LEMMA ReadSoFar ==
  ASSUME TypeInv, NEW off, At(off), Reading
  PROVE  /\ ~ unsaved /\ Len(got) \in Nat /\ Len(got) <= Len(written)
         /\ Len(got) + 1 \in 1..(Len(written) + 1)
         /\ \A i \in 1..Len(got) : got[i] = written[i]
<1>1. Len(got) \in Nat /\ Len(written) \in Nat BY LenProperties DEF TypeInv, Writer, Reader
<1>2. phase # "up" BY DEF Reading
<1>3. ~ unsaved BY <1>2 DEF At
<1>4. Len(got) <= Len(written) /\ \A i \in 1..Len(got) : got[i] = written[i] BY <1>3 DEF At
<1> QED BY <1>1, <1>3, <1>4

\* The header is that of the frame that follows those returned.
LEMMA SizeLocated ==
  ASSUME TypeInv, NEW off, Layout(off), At(off), NEW n \in 0..Len(bytes), ReadSize(n),
         ~ OutOfStep'
  PROVE  Layout(off)' /\ At(off)'
<1>1. /\ phase = "size" /\ Returns(n) /\ Consume(n)
      /\ UNCHANGED <<kind, writeVars, arrived, got, starts>>
  BY DEF ReadSize
<1>2. n = want BY <1>1, AllOfIt
<1>3. want = 2 BY <1>1 DEF TypeInv, Reader
<1>4. PICK o : o = off[Len(got) + 1] OBVIOUS
<1>5. pos = o BY <1>1, <1>4 DEF At
<1>6. PICK b : b = Buffer(n) OBVIOUS
<1>7. b[1] = bytes[o + 1] /\ b[2] = bytes[o + 2]
  <2>1. \A i \in 1..n : Buffer(n)[i] = bytes[pos + i] BY <1>1, CallType
  <2>2. 1 \in 1..n /\ 2 \in 1..n BY <1>2, <1>3
  <2> QED BY <1>5, <1>6, <2>1, <2>2
<1>8. \/ phase' = "failed"
      \/ phase' = "data" /\ want' = Number(bytes[o + 1], bytes[o + 2])
  <2>1. \/ phase' = "failed"
        \/ phase' = "data" /\ want' = Number(b[1], b[2])
    BY <1>6 DEF ReadSize, Number
  <2> QED BY <1>7, <2>1
<1>9. pos' = o + 2 BY <1>1, <1>2, <1>3, <1>5 DEF Consume
<1>10. UNCHANGED <<kind, bytes, written, cut, unsaved, got>> BY <1>1 DEF writeVars
<1>11. Reading BY <1>1 DEF Reading
<1>12. ~ unsaved /\ Len(got) <= Len(written) /\ \A i \in 1..Len(got) : got[i] = written[i]
  BY <1>11, ReadSoFar
<1>13. Layout(off)' BY <1>10 DEF Layout
<1>14. At(off)'
  <2>1. ~ unsaved' BY <1>10, <1>12
  <2>2. Len(got') <= Len(written') /\ \A i \in 1..Len(got') : got'[i] = written'[i] BY <1>10, <1>12
  <2>3. phase' \notin {"size", "up"} BY <1>8
  <2>4. phase' = "data" =>
            /\ pos' = off[Len(got') + 1] + 2
            /\ want' = Number(bytes'[off[Len(got') + 1] + 1], bytes'[off[Len(got') + 1] + 2])
    BY <1>4, <1>8, <1>9, <1>10
  <2> QED BY <2>1, <2>2, <2>3, <2>4 DEF At
<1> QED BY <1>13, <1>14

\* A peer or an agent never reads data behind the last frame that is whole.
LEMMA FrameThere ==
  ASSUME TypeInv, NEW off, Layout(off), At(off), cut # "inside", phase = "data",
         pos + want <= Len(bytes)
  PROVE  Len(got) + 1 \in 1..Len(written)
<1>1. Reading BY DEF Reading
<1>2. Len(got) \in Nat /\ Len(got) <= Len(written) /\ Len(got) + 1 \in 1..(Len(written) + 1)
  BY <1>1, ReadSoFar
<1>3. PICK o : o = off[Len(got) + 1] OBVIOUS
<1>4. o \in Nat /\ Len(written) \in Nat /\ Len(bytes) \in Nat BY <1>2, <1>3, Offsets
<1>5. pos = o + 2 /\ want = Number(bytes[o + 1], bytes[o + 2]) BY <1>3 DEF At
<1>6. Base * Base \in Nat OBVIOUS
<1>7. want \in Nat BY <1>6 DEF TypeInv, Reader
<1>8. ASSUME Len(got) = Len(written) PROVE FALSE
  <2>1. TailOf(o, bytes, cut) BY <1>3, <1>8 DEF Layout
  <2>2. o + 2 <= Len(bytes) BY <1>4, <1>5, <1>7
  <2>3. CASE cut = "no"
    <3>1. o = Len(bytes) BY <2>1, <2>3 DEF TailOf
    <3> QED BY <1>4, <2>2, <3>1
  <2>4. CASE cut = "last"
    <3>1. CutTail(o, bytes) BY <2>1, <2>4 DEF TailOf
    <3>2. Len(bytes) < o + 2 + want BY <1>5, <2>2, <3>1 DEF CutTail
    <3> QED BY <1>4, <1>5, <1>7, <3>2
  <2> QED BY <2>3, <2>4 DEF TypeInv, Writer
<1> QED BY <1>2, <1>4, <1>8

\* The data are those of that frame.
LEMMA DataLocated ==
  ASSUME TypeInv, NEW off, Layout(off), At(off), NEW n \in 0..Len(bytes), ReadData(n),
         cut # "inside", ~ OutOfStep'
  PROVE  Layout(off)' /\ At(off)'
<1>1. /\ phase = "data" /\ Returns(n) /\ Consume(n)
      /\ UNCHANGED <<kind, writeVars, arrived, starts>>
      /\ (phase' = "size" /\ got' = Append(got, Buffer(n))) \/ (phase' = "failed" /\ UNCHANGED got)
  BY DEF ReadData
<1>2. n = want BY <1>1, AllOfIt
<1>3. /\ Len(bytes) \in Nat /\ arrived \in Nat /\ pos \in Nat /\ n \in Nat
      /\ pos + n <= arrived /\ arrived <= Len(bytes)
      /\ Buffer(n) \in Seq(Bytes) /\ Len(Buffer(n)) = want
      /\ \A i \in 1..n : Buffer(n)[i] = bytes[pos + i]
  BY <1>1, CallType
<1>4. PICK g : g = Len(got) OBVIOUS
<1>5. g \in Nat /\ Len(written) \in Nat /\ g + 1 \in 1..Len(written)
  <2>1. pos + want <= Len(bytes) BY <1>2, <1>3
  <2>2. Len(got) + 1 \in 1..Len(written) BY <1>1, <2>1, FrameThere
  <2>3. Len(got) \in Nat /\ Len(written) \in Nat BY LenProperties DEF TypeInv, Writer, Reader
  <2> QED BY <1>4, <2>2, <2>3
<1>6. PICK o : o = off[g + 1] OBVIOUS
<1>7. PICK m \in Messages : m = written[g + 1] BY <1>5, ElementOfSeq DEF TypeInv, Writer
<1>8. off[g + 2] = o + 2 + Len(m) /\ Holds(bytes, o, m)
  <2>1. off[(g + 1) + 1] = off[g + 1] + 2 + Len(written[g + 1])
        /\ Holds(bytes, off[g + 1], written[g + 1])
    BY <1>5 DEF Layout, Whole
  <2>2. (g + 1) + 1 = g + 2 BY <1>5
  <2> QED BY <1>6, <1>7, <2>1, <2>2
<1>9. pos = o + 2 /\ want = Number(bytes[o + 1], bytes[o + 2]) BY <1>1, <1>4, <1>6 DEF At
<1>10. /\ Len(m) \in Nat /\ m \in Seq(Bytes)
       /\ Number(Len(m) \div Base, Len(m) % Base) = Len(m)
  BY FrameType, MessageType
<1>11. want = Len(m) BY <1>8, <1>9, <1>10 DEF Holds
<1>12. PICK b \in Seq(Bytes) : b = Buffer(n) BY <1>3
<1>13. b = m
  <2>1. Len(b) = Len(m) BY <1>3, <1>11, <1>12
  <2>2. ASSUME NEW i \in 1..Len(b) PROVE b[i] = m[i]
    <3>1. i \in 1..n /\ i \in 1..Len(m) BY <1>2, <1>11, <2>1
    <3>2. b[i] = bytes[pos + i] BY <1>3, <1>12, <3>1
    <3>3. bytes[o + 2 + i] = m[i] BY <1>8, <3>1 DEF Holds
    <3> QED BY <1>9, <3>2, <3>3
  <2> QED BY <1>10, <2>1, <2>2, SeqEqual
<1>14. pos' = off[g + 2] BY <1>1, <1>2, <1>8, <1>9, <1>11 DEF Consume
<1>15. UNCHANGED <<kind, bytes, written, cut, unsaved>> BY <1>1 DEF writeVars
<1>16. ~ unsaved /\ \A i \in 1..g : got[i] = written[i]
  <2>1. Reading BY <1>1 DEF Reading
  <2> QED BY <1>4, <2>1, ReadSoFar
<1>17. Layout(off)' BY <1>15 DEF Layout
<1>18. CASE phase' = "size" /\ got' = Append(got, b)
  <2>1. Len(got') = g + 1 /\ got'[g + 1] = b /\ \A i \in 1..g : got'[i] = got[i]
    BY <1>4, <1>12, <1>18, AppendProperties DEF TypeInv, Reader
  <2>2. ASSUME NEW i \in 1..(g + 1) PROVE got'[i] = written[i]
    <3>1. CASE i \in 1..g BY <1>16, <2>1, <3>1
    <3>2. CASE i = g + 1 BY <1>7, <1>13, <2>1, <3>2
    <3> QED BY <1>5, <3>1, <3>2
  <2>3. Len(got') <= Len(written) BY <1>5, <2>1
  <2>4. Len(got') + 1 = g + 2 BY <1>5, <2>1
  <2>5. ~ unsaved' BY <1>15, <1>16
  <2>6. Len(got') <= Len(written') /\ \A i \in 1..Len(got') : got'[i] = written'[i]
    BY <1>15, <2>1, <2>2, <2>3
  <2>7. pos' = off[Len(got') + 1] BY <1>14, <2>4
  <2> QED BY <1>17, <1>18, <2>5, <2>6, <2>7 DEF At
<1>19. CASE phase' = "failed" /\ UNCHANGED got
  <2>1. Len(got') <= Len(written') BY <1>4, <1>5, <1>15, <1>19
  <2>2. ~ unsaved' /\ \A i \in 1..Len(got') : got'[i] = written'[i] BY <1>4, <1>15, <1>16, <1>19
  <2> QED BY <1>17, <1>19, <2>1, <2>2 DEF At
<1> QED BY <1>1, <1>12, <1>18, <1>19

\* A peer is up when it has read all that is whole, and nothing else is there.
LEMMA EndLocated ==
  ASSUME TypeInv, NEW off, Layout(off), At(off), ReadEnd, cut # "inside"
  PROVE  Layout(off)' /\ At(off)'
<1>1. /\ Reading /\ arrived = Len(bytes)
      /\ phase' = IF CleanEnd THEN IF kind = "file" THEN "up" ELSE "ended" ELSE "failed"
      /\ UNCHANGED <<kind, writeVars, arrived, pos, want, short, got, starts>>
  BY DEF ReadEnd
<1>2. UNCHANGED <<kind, bytes, written, cut, unsaved, got>> BY <1>1 DEF writeVars
<1>3. /\ ~ unsaved /\ Len(got) \in Nat /\ Len(got) <= Len(written)
      /\ Len(got) + 1 \in 1..(Len(written) + 1)
      /\ \A i \in 1..Len(got) : got[i] = written[i]
  BY <1>1, ReadSoFar
<1>4. phase' \in {"up", "ended", "failed"} BY <1>1
<1>5. ASSUME phase' = "up" PROVE cut = "no" /\ Len(got) = Len(written)
  <2>1. phase = "size" /\ arrived - pos = 0 BY <1>1, <1>5 DEF CleanEnd, Available
  <2>2. PICK o : o = off[Len(got) + 1] OBVIOUS
  <2>3. PICK e : e = off[Len(written) + 1] OBVIOUS
  <2>4. o \in Nat /\ o <= e /\ e \in Nat /\ e <= Len(bytes) /\ Len(written) \in Nat
        /\ Len(bytes) \in Nat
    BY <1>3, <2>2, <2>3, Offsets
  <2>5. pos = o BY <2>1, <2>2 DEF At
  <2>6. o = Len(bytes) /\ e = Len(bytes) BY <1>1, <2>1, <2>4, <2>5
  <2>7. Len(got) = Len(written)
    <3> SUFFICES ASSUME Len(got) # Len(written) PROVE FALSE OBVIOUS
    <3>1. PICK i \in 1..Len(written) : i = Len(got) + 1 BY <1>3, <2>4
    <3>2. off[i + 1] = off[i] + 2 + Len(written[i]) BY DEF Layout, Whole
    <3>3. i + 1 \in 1..(Len(written) + 1) BY <2>4
    <3>4. off[i + 1] <= e BY <2>3, <3>3, Offsets
    <3>5. Len(written[i]) \in Nat
      <4>1. written[i] \in Messages BY ElementOfSeq DEF TypeInv, Writer
      <4> QED BY <4>1, FrameType
    <3>6. off[i] = o BY <2>2, <3>1
    <3>7. PICK l \in Nat : l = Len(written[i]) BY <3>5
    <3>8. o + 2 + l <= e BY <3>2, <3>4, <3>6, <3>7
    <3> QED BY <2>4, <2>6, <3>8
  <2>8. TailOf(e, bytes, cut) BY <2>3 DEF Layout
  <2>9. cut # "last"
    <3> SUFFICES ASSUME cut = "last" PROVE FALSE OBVIOUS
    <3>1. e < Len(bytes) BY <2>8 DEF TailOf, CutTail
    <3> QED BY <2>4, <2>6, <3>1
  <2> QED BY <2>7, <2>9 DEF TypeInv, Writer
<1>6. Layout(off)' BY <1>2 DEF Layout
<1>7. At(off)'
  <2>1. ~ unsaved' /\ Len(got') <= Len(written') /\ \A i \in 1..Len(got') : got'[i] = written'[i]
    BY <1>2, <1>3
  <2>2. phase' = "up" => (cut' = "no" /\ Len(got') = Len(written')) BY <1>2, <1>5
  <2> QED BY <1>4, <2>1, <2>2 DEF At
<1> QED BY <1>6, <1>7

\* A frame is written behind the others, and whoever reads is where it was; the peer with
\* the file has one record more, as the file has.
LEMMA WriteLocated ==
  ASSUME TypeInv, NEW off, Layout(off), At(off), NEW m \in Messages, Write(m), cut = "no"
  PROVE  Located'
<1>1. /\ bytes' = bytes \o Frame(m) /\ written' = Append(written, m) /\ cut' = "no" /\ Keep(m)
      /\ (kind = "file" => phase = "up")
      /\ UNCHANGED <<kind, unsaved, arrived, pos, phase, want>>
  BY DEF Write, MayWrite, readVars
<1>2. written \in Seq(Messages) /\ bytes \in Seq(Bytes) BY DEF TypeInv, Writer
<1>3. Whole(off, written, bytes) /\ off[Len(written) + 1] = Len(bytes) BY DEF Layout, TailOf
<1>4. PICK e : /\ Whole(e, written', bytes') /\ e[Len(written') + 1] = Len(bytes')
               /\ \A i \in 1..(Len(written) + 1) : e[i] = off[i]
  <2>1. \E e : /\ Whole(e, Append(written, m), bytes \o Frame(m))
               /\ e[Len(Append(written, m)) + 1] = Len(bytes \o Frame(m))
               /\ \A i \in 1..(Len(written) + 1) : e[i] = off[i]
    BY <1>2, <1>3, OneMore
  <2> QED BY <1>1, <2>1
<1>5. Len(written') = Len(written) + 1 /\ written'[Len(written) + 1] = m /\ Len(written) \in Nat
      /\ \A i \in 1..Len(written) : written'[i] = written[i]
  BY <1>1, <1>2, AppendProperties, LenProperties
<1>6. Len(got) \in Nat /\ got \in Seq(Seq(Bytes)) BY LenProperties DEF TypeInv, Reader
<1>7. Layout(e)'
  <2>1. Len(bytes') \in Nat
    <3>1. Frame(m) \in Seq(Bytes) BY FrameType
    <3> QED BY <1>1, <3>1, BytesAppended
  <2>2. TailOf(e[Len(written') + 1], bytes', cut') BY <1>1, <1>4, <2>1 DEF TailOf
  <2> QED BY <1>4, <2>2 DEF Layout
<1>8. unsaved' => kind' = "file" /\ phase' = "up" BY <1>1 DEF At
<1>9. CASE kind = "file"
  <2>1. phase = "up" /\ phase' = "up" /\ got' = Append(got, m) BY <1>1, <1>9 DEF Keep
  <2>2. m \in Seq(Bytes) BY MessageType
  <2>3. Len(got') = Len(got) + 1 /\ got'[Len(got) + 1] = m /\ \A i \in 1..Len(got) : got'[i] = got[i]
    BY <1>6, <2>1, <2>2, AppendProperties
  <2>4. ASSUME ~ unsaved
        PROVE  Len(got') = Len(written') /\ \A i \in 1..Len(got') : got'[i] = written'[i]
    <3>1. Len(got) = Len(written) /\ \A i \in 1..Len(got) : got[i] = written[i]
      BY <1>9, <2>1, <2>4 DEF At
    <3>2. Len(got') = Len(written') BY <1>5, <2>3, <3>1
    <3>3. ASSUME NEW i \in 1..Len(got') PROVE got'[i] = written'[i]
      <4>1. CASE i \in 1..Len(got)
        <5>1. got'[i] = got[i] BY <2>3, <4>1
        <5>2. written'[i] = written[i] BY <1>5, <3>1, <4>1
        <5> QED BY <3>1, <4>1, <5>1, <5>2
      <4>2. CASE i = Len(got) + 1 BY <1>5, <2>3, <3>1, <4>2
      <4> QED BY <1>6, <2>3, <4>1, <4>2
    <3> QED BY <3>2, <3>3
  <2>5. ~ unsaved' => Len(got') <= Len(written') /\ \A i \in 1..Len(got') : got'[i] = written'[i]
    <3>1. Len(written') \in Nat BY <1>5
    <3> QED BY <1>1, <2>4, <3>1
  <2>6. ~ unsaved' => cut' = "no" /\ Len(got') = Len(written') BY <1>1, <2>4
  <2>7. At(e)' BY <1>8, <2>1, <2>5, <2>6 DEF At
  <2> QED BY <1>7, <2>7 DEF Located
<1>10. CASE kind # "file"
  <2>1. got' = got /\ kind' # "file" BY <1>1, <1>10 DEF Keep
  <2>2. ~ unsaved BY <1>10 DEF At
  <2>3. Len(got) <= Len(written) /\ \A i \in 1..Len(got) : got[i] = written[i] BY <2>2 DEF At
  <2>4. Len(got) + 1 \in 1..(Len(written) + 1) /\ \A i \in 1..Len(got) : i \in 1..Len(written)
    BY <1>5, <1>6, <2>3
  <2>5. Len(got') <= Len(written') BY <1>5, <1>6, <2>1, <2>3
  <2>6. \A i \in 1..Len(got') : got'[i] = written'[i] BY <1>5, <2>1, <2>3, <2>4
  <2>7. PICK o : o = off[Len(got) + 1] OBVIOUS
  <2>8. e[Len(got) + 1] = o BY <1>4, <2>4, <2>7
  <2>9. phase' = "size" => pos' = e[Len(got') + 1] BY <1>1, <2>1, <2>7, <2>8 DEF At
  <2>10. ASSUME phase' = "data"
         PROVE  /\ pos' = o + 2
                /\ want' = Number(bytes'[o + 1], bytes'[o + 2])
    <3>1. pos = o + 2 /\ want = Number(bytes[o + 1], bytes[o + 2]) BY <1>1, <2>7, <2>10 DEF At
    <3>2. o \in Nat /\ Len(bytes) \in Nat BY <2>4, <2>7, Offsets
    <3>3. arrived \in 0..Len(bytes) /\ pos \in 0..arrived BY DEF TypeInv, Writer, Reader
    <3>4. o + 1 \in 1..Len(bytes) /\ o + 2 \in 1..Len(bytes) BY <3>1, <3>2, <3>3
    <3>5. Frame(m) \in Seq(Bytes) BY FrameType
    <3>6. \A i \in 1..Len(bytes) : bytes'[i] = bytes[i] BY <1>1, <3>5, BytesAppended
    <3>7. bytes'[o + 1] = bytes[o + 1] /\ bytes'[o + 2] = bytes[o + 2] BY <3>4, <3>6
    <3> QED BY <1>1, <3>1, <3>7
  <2>11. At(e)' BY <1>8, <2>1, <2>5, <2>6, <2>8, <2>9, <2>10 DEF At
  <2> QED BY <1>7, <2>11 DEF Located
<1> QED BY <1>9, <1>10

\* A frame is cut: the others stay where they are, and its bytes are no frame.
LEMMA CutLocated ==
  ASSUME TypeInv, NEW off, Layout(off), At(off), NEW m \in Messages,
         NEW n \in 0..(Len(Frame(m)) - 1), WriteCut(m, n), cut' # "inside"
  PROVE  Layout(off)' /\ At(off)'
<1>1. PICK s : s = SubSeq(Frame(m), 1, n) OBVIOUS
<1>2. /\ bytes' = bytes \o s /\ written' = written /\ Keep(m)
      /\ unsaved' = (kind = "file") /\ (kind = "file" => phase = "up")
      /\ UNCHANGED <<kind, arrived, pos, phase, want>>
      /\ cut' = CASE n = 0 -> cut [] n > 0 /\ cut = "no" -> "last" [] OTHER -> "inside"
  BY <1>1 DEF WriteCut, MayWrite, readVars
<1>3. s \in Seq(Bytes) /\ Len(s) = n BY <1>1, FrameCut
<1>4. /\ Len(bytes) \in Nat /\ Len(bytes') = Len(bytes) + n
      /\ \A i \in 1..Len(bytes) : bytes'[i] = bytes[i]
  BY <1>2, <1>3, BytesAppended
<1>5. written \in Seq(Messages) /\ bytes \in Seq(Bytes) BY DEF TypeInv, Writer
<1>6. Len(written) + 1 \in 1..(Len(written) + 1) BY <1>5, LenProperties
<1>7. PICK o : o = off[Len(written) + 1] OBVIOUS
<1>8. o \in Nat /\ o <= Len(bytes) BY <1>6, <1>7, Offsets
<1>9. Whole(off, written', bytes')
  <2>1. PICK c : c = bytes' OBVIOUS
  <2>2. c = bytes \o s BY <1>2, <2>1
  <2>3. Whole(off, written, bytes) /\ off[Len(written) + 1] <= Len(bytes) BY <1>7, <1>8 DEF Layout
  <2>4. Whole(off, written, c) BY <1>3, <1>5, <2>2, <2>3, StillWhole
  <2> QED BY <1>2, <2>1, <2>4
<1>10. TailOf(o, bytes', cut')
  <2>1. TailOf(o, bytes, cut) BY <1>7 DEF Layout
  <2>2. CASE n = 0
    <3>1. cut' = cut BY <1>2, <2>2
    <3>2. bytes' = bytes
      <4>1. bytes' \in Seq(Bytes) BY <1>2, <1>3, BytesAppended
      <4>2. Len(bytes') = Len(bytes) BY <1>4, <2>2
      <4>3. \A i \in 1..Len(bytes') : bytes'[i] = bytes[i] BY <1>4, <4>2
      <4> QED BY <1>5, <4>1, <4>2, <4>3, SeqEqual
    <3> QED BY <2>1, <3>1, <3>2
  <2>3. CASE n # 0
    <3>1. n > 0 /\ n \in 1..(Len(Frame(m)) - 1) BY <2>3
    <3>2. cut = "no" /\ cut' = "last" BY <1>2, <2>3, <3>1
    <3>3. o = Len(bytes) BY <2>1, <3>2 DEF TailOf
    <3>4. PICK c : c = bytes' OBVIOUS
    <3>5. c = bytes \o SubSeq(Frame(m), 1, n) BY <1>1, <1>2, <3>4
    <3>6. CutTail(Len(bytes), c) BY <1>5, <3>1, <3>5, CutIsShort
    <3>7. o <= Len(bytes') BY <1>4, <1>8
    <3> QED BY <3>2, <3>3, <3>4, <3>6, <3>7 DEF TailOf
  <2> QED BY <2>2, <2>3
<1>11. Layout(off)' BY <1>2, <1>7, <1>9, <1>10 DEF Layout
<1>12. CASE kind = "file"
  <2>1. kind' = "file" /\ phase' = "up" /\ unsaved' BY <1>2, <1>12
  <2> QED BY <1>11, <2>1 DEF At
<1>13. CASE kind # "file"
  <2>1. got' = got /\ kind' # "file" /\ ~ unsaved' BY <1>2, <1>13 DEF Keep
  <2>2. ~ unsaved BY <1>13 DEF At
  <2>3. Len(got') <= Len(written') /\ \A i \in 1..Len(got') : got'[i] = written'[i]
    BY <1>2, <2>1, <2>2 DEF At
  <2>4. PICK p : p = off[Len(got) + 1] OBVIOUS
  <2>5. phase' = "size" => pos' = p BY <1>2, <2>4 DEF At
  <2>6. ASSUME phase' = "data"
        PROVE  pos' = p + 2 /\ want' = Number(bytes'[p + 1], bytes'[p + 2])
    <3>1. pos = p + 2 /\ want = Number(bytes[p + 1], bytes[p + 2]) BY <1>2, <2>4, <2>6 DEF At
    <3>2. p \in Nat
      <4>1. Reading BY <1>2, <2>6 DEF Reading
      <4>2. Len(got) + 1 \in 1..(Len(written) + 1) BY <4>1, ReadSoFar
      <4> QED BY <2>4, <4>2, Offsets
    <3>3. arrived \in 0..Len(bytes) /\ pos \in 0..arrived BY DEF TypeInv, Writer, Reader
    <3>4. p + 1 \in 1..Len(bytes) /\ p + 2 \in 1..Len(bytes) BY <1>4, <3>1, <3>2, <3>3
    <3>5. bytes'[p + 1] = bytes[p + 1] /\ bytes'[p + 2] = bytes[p + 2] BY <1>4, <3>4
    <3> QED BY <1>2, <3>1, <3>5
  <2> QED BY <1>11, <2>1, <2>3, <2>4, <2>5, <2>6 DEF At
<1> QED BY <1>12, <1>13

\* At the start nothing has been written.
LEMMA FrameInit == Init => FrameInv
<1> SUFFICES ASSUME Init PROVE Located BY DEF FrameInv
<1>1. PICK off : off = [i \in 1..1 |-> 0] OBVIOUS
<1>2. Len(written) = 0 /\ Len(bytes) = 0 /\ Len(got) = 0 /\ pos = 0 /\ phase = "size"
      /\ cut = "no" /\ ~ unsaved
  BY DEF Init
<1>3. off \in [1..1 -> Nat] /\ off[1] = 0 BY <1>1
<1>4. Whole(off, written, bytes) BY <1>2, <1>3 DEF Whole
<1>5. TailOf(off[Len(written) + 1], bytes, cut) BY <1>2, <1>3 DEF TailOf
<1>6. At(off) BY <1>2, <1>3 DEF At
<1> QED BY <1>4, <1>5, <1>6 DEF Located, Layout

\* Every step keeps the frames and the reader in place.
LEMMA FrameNext == TypeInv /\ FrameInv /\ [Next]_vars => FrameInv'
<1> SUFFICES ASSUME TypeInv, FrameInv, [Next]_vars PROVE FrameInv' OBVIOUS
<1>1. kind' = kind /\ (short => short')
  <2>1. ASSUME NEW m, Write(m) PROVE kind' = kind /\ short' = short
    BY <2>1 DEF Write, readVars
  <2>2. ASSUME NEW m, NEW n, WriteCut(m, n) PROVE kind' = kind /\ short' = short
    BY <2>2 DEF WriteCut, readVars
  <2>3. CASE CloseWriter BY <2>3 DEF CloseWriter, readVars
  <2>4. ASSUME NEW n, Arrive(n) PROVE kind' = kind /\ short' = short
    BY <2>4 DEF Arrive, readVars
  <2>5. ASSUME NEW n, ReadSize(n) \/ ReadData(n) PROVE kind' = kind /\ (short => short')
    <3>1. kind' = kind /\ Consume(n) BY <2>5 DEF ReadSize, ReadData
    <3> QED BY <3>1 DEF Consume
  <2>6. CASE ReadEnd BY <2>6 DEF ReadEnd
  <2>7. CASE Restart BY <2>7 DEF Restart
  <2>8. CASE UNCHANGED vars BY <2>8 DEF vars, readVars
  <2> QED BY <2>1, <2>2, <2>3, <2>4, <2>5, <2>6, <2>7, <2>8 DEF Next, ReadStep
<1>2. CASE OutOfStep BY <1>1, <1>2 DEF OutOfStep, FrameInv
<1>3. CASE cut = "inside"
  <2>1. cut' = "inside"
    BY <1>3 DEF Next, ReadStep, Write, WriteCut, CloseWriter, Arrive, ReadSize, ReadData,
                ReadEnd, Restart, vars, writeVars
  <2> QED BY <2>1 DEF FrameInv
<1>4. CASE cut # "inside" /\ Located
  <2> SUFFICES ASSUME ~ OutOfStep', cut' # "inside" PROVE Located' BY DEF FrameInv
  <2>1. PICK off : Layout(off) /\ At(off) BY <1>4 DEF Located
  <2>2. ASSUME NEW m \in Messages, Write(m) PROVE Located'
    <3>1. cut = "no" BY <1>4, <2>2 DEF Write
    <3> QED BY <2>1, <2>2, <3>1, WriteLocated
  <2>3. ASSUME NEW m \in Messages, NEW n \in 0..(Len(Frame(m)) - 1), WriteCut(m, n) PROVE Located'
    BY <2>1, <2>3, CutLocated DEF Located
  <2>4. CASE UNCHANGED <<kind, bytes, written, cut, unsaved, got, pos, phase, want>>
    BY <2>1, <2>4 DEF Located, Layout, At
  <2>5. CASE CloseWriter BY <2>4, <2>5 DEF CloseWriter, readVars
  <2>6. ASSUME NEW n \in 1..Len(bytes), Arrive(n) PROVE Located'
    BY <2>4, <2>6 DEF Arrive, readVars, writeVars
  <2>7. CASE UNCHANGED vars BY <2>4, <2>7 DEF vars, readVars, writeVars
  <2>8. CASE ReadEnd BY <1>4, <2>1, <2>8, EndLocated DEF Located
  <2>9. ASSUME NEW n \in 0..Len(bytes), ReadSize(n) PROVE Located'
    BY <2>1, <2>9, SizeLocated DEF Located
  <2>10. ASSUME NEW n \in 0..Len(bytes), ReadData(n) PROVE Located'
    BY <1>4, <2>1, <2>10, DataLocated DEF Located
  <2>11. CASE Restart
    <3>1. UNCHANGED <<kind, bytes, written, cut>> /\ got' = <<>> /\ pos' = 0 /\ phase' = "size"
          /\ ~ unsaved'
      BY <2>11 DEF Restart
    <3>2. Layout(off)' BY <2>1, <3>1 DEF Layout
    <3>3. Len(written) \in Nat /\ Len(got') = 0 BY <3>1, LenProperties DEF TypeInv, Writer
    <3>4. off[1] = 0 BY <2>1 DEF Layout, Whole
    <3>5. Len(got') <= Len(written') /\ \A i \in 1..Len(got') : got'[i] = written'[i]
      BY <3>1, <3>3
    <3>6. pos' = off[Len(got') + 1] BY <3>1, <3>3, <3>4
    <3>7. At(off)' BY <3>1, <3>5, <3>6 DEF At
    <3> QED BY <3>2, <3>7 DEF Located
  <2> QED BY <2>2, <2>3, <2>5, <2>6, <2>7, <2>8, <2>9, <2>10, <2>11 DEF Next, ReadStep
<1> QED BY <1>2, <1>3, <1>4 DEF FrameInv

LEMMA FrameCorrect == Spec => [](TypeInv /\ FrameInv)
<1>1. Init => TypeInv /\ FrameInv BY TypeInit, FrameInit
<1>2. TypeInv /\ FrameInv /\ [Next]_vars => TypeInv' /\ FrameInv' BY TypeNext, FrameNext
<1> QED BY <1>1, <1>2, PTL DEF Spec

\* What is returned is what was written, in order and undivided, whatever the messages, the
\* segments the network makes of them and the frames that are cut.
THEOREM NothingGarbledCorrect == Spec => []NothingGarbled
<1>1. TypeInv /\ FrameInv => NothingGarbled
  <2> SUFFICES ASSUME TypeInv, ~ OutOfStep, cut # "inside", ~ unsaved, Located
               PROVE  IsPrefix(got, written)
    BY DEF FrameInv, NothingGarbled
  <2>1. PICK off : At(off) BY DEF Located
  <2>2. Len(got) <= Len(written) /\ \A i \in 1..Len(got) : got[i] = written[i] BY <2>1 DEF At
  <2>3. Len(got) \in Nat /\ Len(written) \in Nat /\ got \in Seq(Seq(Bytes))
        /\ written \in Seq(Messages)
    BY LenProperties DEF TypeInv, Writer, Reader
  <2>4. PICK q : q = SubSeq(got, 1, Len(got)) OBVIOUS
  <2>5. PICK r : r = SubSeq(written, 1, Len(got)) OBVIOUS
  <2>6. q \in Seq(Seq(Bytes)) /\ Len(q) = Len(got) /\ \A i \in 1..Len(got) : q[i] = got[i]
    BY <2>3, <2>4
  <2>7. /\ r \in Seq(Seq(Bytes)) /\ Len(r) = Len(got)
        /\ \A i \in 1..Len(got) : r[i] = written[i]
    <3>1. \A i \in 1..Len(written) : written[i] \in Seq(Bytes)
      BY <2>3, ElementOfSeq, MessageType
    <3>2. written \in Seq(Seq(Bytes)) BY <2>3, <3>1
    <3> QED BY <2>2, <2>3, <2>5, <3>2
  <2>8. q = r BY <2>2, <2>6, <2>7, SeqEqual
  <2> QED BY <2>2, <2>4, <2>5, <2>8 DEF IsPrefix
<1> QED BY <1>1, FrameCorrect, PTL

\* A peer that is up has the records of its file, all of them, and the last is whole,
\* after any number of crashes in the middle of an append.
THEOREM RecordsSurviveCorrect == Spec => []RecordsSurvive
<1>1. TypeInv /\ FrameInv => RecordsSurvive
  <2> SUFFICES ASSUME TypeInv, FrameInv, kind = "file", phase = "up", cut # "inside", ~ unsaved
               PROVE  cut = "no" /\ got = written
    BY DEF RecordsSurvive
  <2>1. Located BY DEF FrameInv, OutOfStep
  <2>2. PICK off : At(off) BY <2>1 DEF Located
  <2>3. cut = "no" /\ Len(got) = Len(written) /\ \A i \in 1..Len(got) : got[i] = written[i]
    BY <2>2 DEF At
  <2>4. got \in Seq(Seq(Bytes)) /\ written \in Seq(Messages) BY DEF TypeInv, Writer, Reader
  <2>5. written \in Seq(Seq(Bytes))
    <3>1. \A i \in 1..Len(written) : written[i] \in Seq(Bytes)
      BY <2>4, ElementOfSeq, MessageType
    <3> QED BY <2>4, <3>1
  <2>6. got = written BY <2>3, <2>4, <2>5, SeqEqual
  <2> QED BY <2>3, <2>6
<1> QED BY <1>1, FrameCorrect, PTL
=============================================================================
