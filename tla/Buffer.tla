------------------------------- MODULE Buffer -------------------------------
(***************************************************************************)
(* The byte buffer of net/buffer.{h,cc}: one contiguous vector and two     *)
(* indices into it, with kCheapPrepend bytes kept free in front of the     *)
(* data.  A buffer is a record, and the private helpers that build bigger  *)
(* operations (makeSpace, ensureWritableBytes, append) are functions from  *)
(* buffers to buffers, so that shrink() and readFd() compose them as the   *)
(* code does.                                                              *)
(***************************************************************************)
EXTENDS Integers, Sequences

CONSTANTS
  kCheapPrepend,
  kInitialSize,
  kExtraBuf,     \* sizeof extrabuf in readFd()
  Base,          \* byte values are 0..Base-1; 256 in the code
  CR, LF,        \* the bytes of kCRLF
  Widths,        \* sizeof of the integer types, in bytes
  MaxLen,        \* bound: bytes given to one call
  MaxReadable    \* bound: bytes a workload leaves in the buffer

ASSUME SizeAssumption ==
  /\ kCheapPrepend \in Nat /\ kInitialSize \in Nat /\ kExtraBuf \in Nat
  /\ MaxLen \in Nat /\ MaxReadable \in Nat
  /\ Base \in Nat \ {0}
  /\ Widths \subseteq Nat

ASSUME LineAssumption == {CR, LF} \subseteq 0..(Base - 1)

VARIABLES
  self,      \* this buffer
  peak,      \* history: most bytes that were ever readable and asked for
  prepended  \* history: bytes prepended and not given back: neither retrieved
             \* nor behind data that moved to kCheapPrepend

bufferVars == <<self, peak, prepended>>

Byte == 0..(Base - 1)

\* Byte strings of length n.
Strings(n) == [1..n -> Byte]

Data == UNION {Strings(n) : n \in 0..MaxLen}

(***************************************************************************)
(* The private members and the observers.                                  *)
(***************************************************************************)

\* Buffer(kInitialSize).  The vector buffer_ is bytes[0], ..., bytes[size - 1];
\* its elements are zero.
NewBuffer == [bytes |-> [i \in 0..(kCheapPrepend + kInitialSize - 1) |-> 0],
              size |-> kCheapPrepend + kInitialSize,
              readerIndex_ |-> kCheapPrepend,
              writerIndex_ |-> kCheapPrepend]

readableBytes(b) == b.writerIndex_ - b.readerIndex_
writableBytes(b) == b.size - b.writerIndex_
prependableBytes(b) == b.readerIndex_

\* The readable bytes as a string.
Content(b) == [i \in 1..readableBytes(b) |-> b.bytes[b.readerIndex_ + i - 1]]

\* std::copy(data, data + len, begin() + at).
CopyTo(bytes, at, data) ==
  [i \in DOMAIN bytes |-> IF i \in at..(at + Len(data) - 1) THEN data[i - at + 1] ELSE bytes[i]]

\* buffer_.resize(n) to a larger size; new elements are zero.
Resize(b, n) ==
  [b EXCEPT !.bytes = [i \in 0..(n - 1) |-> IF i < b.size THEN b.bytes[i] ELSE 0], !.size = n]

\* Mutant: the indices are moved, the data is not.
MoveIndicesOnly(b) ==
  [b EXCEPT !.readerIndex_ = kCheapPrepend,
            !.writerIndex_ = kCheapPrepend + readableBytes(b)]

\* makeSpace(), second branch: the readable data moves to kCheapPrepend.
MoveToFront(b) ==
  [b EXCEPT !.bytes = CopyTo(b.bytes, kCheapPrepend, Content(b)),
            !.readerIndex_ = kCheapPrepend,
            !.writerIndex_ = kCheapPrepend + readableBytes(b)]

\* Mutant: the free bytes in front of the data are never used again.
RoomAtEndOnly(b, len) == FALSE

\* makeSpace()'s test: the free bytes at both ends are enough together.
RoomInside(b, len) == writableBytes(b) + prependableBytes(b) >= len + kCheapPrepend

makeSpace(b, len) == IF RoomInside(b, len) THEN MoveToFront(b) ELSE Resize(b, b.writerIndex_ + len)

ensureWritableBytes(b, len) == IF writableBytes(b) < len THEN makeSpace(b, len) ELSE b

\* std::copy to beginWrite() and hasWritten().
Written(b, data) ==
  [b EXCEPT !.bytes = CopyTo(b.bytes, b.writerIndex_, data), !.writerIndex_ = @ + Len(data)]

\* prepend(): std::copy to begin() + readerIndex_, after readerIndex_ went down.
Prepended(b, data) ==
  [b EXCEPT !.bytes = CopyTo(b.bytes, b.readerIndex_ - Len(data), data),
            !.readerIndex_ = @ - Len(data)]

\* The places where findCRLF(start) and findEOL(start) may stop: memory past
\* beginWrite() is not looked at, so a CR that ends the data is no match.
CRLFs(b, start) == {i \in start..(b.writerIndex_ - 2) : b.bytes[i] = CR /\ b.bytes[i + 1] = LF}
EOLs(b, start) == {i \in start..(b.writerIndex_ - 1) : b.bytes[i] = LF}

\* The search stops at the first of them, and returns NULL if there is none.
First(i, places) == i \in places /\ \A j \in places : i <= j

append(b, data) == Written(ensureWritableBytes(b, Len(data)), data)

(***************************************************************************)
(* Network byte order: the most significant byte first, two's complement.  *)
(***************************************************************************)

\* The values of an integer type of w bytes.
IntOf(w) == -((Base^w) \div 2)..((Base^w - 1) \div 2)

\* hostToNetwork*() and the object representation of its result.
hostToNetwork(x, w) == [i \in 1..w |-> (x \div Base^(w - i)) % Base]

\* The unsigned number that a big-endian string denotes.
BigEndian(s) ==
  LET value[i \in 0..Len(s)] == IF i = 0 THEN 0 ELSE value[i - 1] * Base + s[i]
  IN  value[Len(s)]

\* networkToHost*() into the signed type.
networkToHost(s) ==
  LET v == BigEndian(s)
  IN  IF v > (Base^Len(s) - 1) \div 2 THEN v - Base^Len(s) ELSE v

\* peekInt*(): needs w readable bytes.
peekInt(b, w) == networkToHost(SubSeq(Content(b), 1, w))

(***************************************************************************)
(* Operations.                                                             *)
(***************************************************************************)

Larger(m, n) == IF m < n THEN n ELSE m

\* The history: a call that asks for room for len more bytes.
Asks(len) == peak' = Larger(peak, readableBytes(self) + len)

\* The data moves to kCheapPrepend, so the prepended bytes are given back.
MovesFor(len) == writableBytes(self) < len /\ RoomInside(self, len)

BufferInit ==
  /\ self = NewBuffer
  /\ peak = 0
  /\ prepended = 0

\* append(), for strings and for encoded integers.
Append_(data) ==
  /\ readableBytes(self) + Len(data) <= MaxReadable
  /\ self' = append(self, data)
  /\ Asks(Len(data))
  /\ prepended' = IF MovesFor(Len(data)) THEN 0 ELSE prepended

\* appendInt64(), appendInt32(), appendInt16(), appendInt8().
AppendInt(x, w) == Append_(hostToNetwork(x, w))

\* ensureWritableBytes() called by a user about to write at beginWrite().
EnsureWritableBytes(len) ==
  /\ readableBytes(self) + len <= MaxReadable
  /\ self' = ensureWritableBytes(self, len)
  /\ Asks(len)
  /\ prepended' = IF MovesFor(len) THEN 0 ELSE prepended

\* A user writes at beginWrite() and calls hasWritten().
HasWritten(data) ==
  /\ Len(data) <= writableBytes(self)
  /\ readableBytes(self) + Len(data) <= MaxReadable
  /\ self' = Written(self, data)
  /\ Asks(Len(data))
  /\ UNCHANGED prepended

Unwrite(len) ==
  /\ len <= readableBytes(self)
  /\ self' = [self EXCEPT !.writerIndex_ = @ - len]
  /\ UNCHANGED <<peak, prepended>>

\* Mutant: the comparison that ends in retrieveAll() is off by one.
RetrieveOffByOne(len) ==
  /\ len <= readableBytes(self)
  /\ self' = IF len + 1 < readableBytes(self)
               THEN [self EXCEPT !.readerIndex_ = @ + len]
               ELSE [self EXCEPT !.readerIndex_ = kCheapPrepend, !.writerIndex_ = kCheapPrepend]
  /\ prepended' = IF len + 1 < readableBytes(self) THEN Larger(0, prepended - len) ELSE 0
  /\ UNCHANGED peak

\* retrieve(), retrieveUntil(), retrieveInt*(), retrieveAsString(), readInt*();
\* all of it is retrieveAll(), which rewinds both indices.
Retrieve(len) ==
  /\ len <= readableBytes(self)
  /\ self' = IF len < readableBytes(self)
               THEN [self EXCEPT !.readerIndex_ = @ + len]
               ELSE [self EXCEPT !.readerIndex_ = kCheapPrepend, !.writerIndex_ = kCheapPrepend]
  /\ prepended' = IF len < readableBytes(self) THEN Larger(0, prepended - len) ELSE 0
  /\ UNCHANGED peak

\* A user takes a line: retrieveUntil() past what findCRLF() found ...
RetrieveCRLF ==
  \E i \in CRLFs(self, self.readerIndex_) :
    First(i, CRLFs(self, self.readerIndex_)) /\ Retrieve(i + 2 - self.readerIndex_)

\* ... or past what findEOL() found.
RetrieveEOL ==
  \E i \in EOLs(self, self.readerIndex_) :
    First(i, EOLs(self, self.readerIndex_)) /\ Retrieve(i + 1 - self.readerIndex_)

Prepend(data) ==
  /\ Len(data) <= prependableBytes(self)
  /\ readableBytes(self) + Len(data) <= MaxReadable
  /\ self' = Prepended(self, data)
  /\ prepended' = prepended + Len(data)
  /\ UNCHANGED peak

\* prependInt64(), prependInt32(), prependInt16(), prependInt8().
PrependInt(x, w) == Prepend(hostToNetwork(x, w))

\* shrink(): the content is copied into a new buffer, which is swapped in.
Shrink(reserve) ==
  /\ readableBytes(self) + reserve <= MaxReadable
  /\ self' = append(ensureWritableBytes(NewBuffer, readableBytes(self) + reserve), Content(self))
  /\ Asks(reserve)
  /\ prepended' = 0

\* readFd() after readv() filled the writable bytes and then extrabuf.
ReadFdStores(data) ==
  LET writable == writableBytes(self)
  IN  IF Len(data) <= writable THEN Written(self, data)
      ELSE append(Written(self, SubSeq(data, 1, writable)),
                  SubSeq(data, writable + 1, Len(data)))

\* readFd(): what readv() may deliver depends on whether extrabuf takes part; an
\* error or the end of the stream delivers nothing.
ReadFd(data) ==
  LET writable == writableBytes(self)
      room == IF writable < kExtraBuf THEN writable + kExtraBuf ELSE writable
      extra == Len(data) - writable
  IN  /\ Len(data) <= room
      /\ readableBytes(self) + Len(data) <= MaxReadable
      /\ self' = ReadFdStores(data)
      /\ Asks(Len(data))
      /\ prepended' = IF extra > 0 /\ self.readerIndex_ >= extra + kCheapPrepend
                        THEN 0 ELSE prepended

BufferNext ==
  \/ \E data \in Data : Append_(data) \/ HasWritten(data) \/ Prepend(data) \/ ReadFd(data)
  \/ \E len \in 0..MaxLen : EnsureWritableBytes(len) \/ Shrink(len)
  \/ \E len \in 0..MaxReadable : Unwrite(len) \/ Retrieve(len)
  \/ RetrieveCRLF
  \/ RetrieveEOL
  \/ \E w \in Widths : \E x \in IntOf(w) : AppendInt(x, w) \/ PrependInt(x, w)

BufferSpec == BufferInit /\ [][BufferNext]_bufferVars

(***************************************************************************)
(* Properties.                                                             *)
(***************************************************************************)

\* The vector has the size the indices are compared with.
BufferTypeOK ==
  /\ self \in [bytes : [0..(self.size - 1) -> Byte], size : Nat, readerIndex_ : Nat,
               writerIndex_ : Nat]
  /\ peak \in Nat
  /\ prepended \in Nat

\* The diagram at the head of the class: 0 <= readerIndex <= writerIndex <= size,
\* after every sequence of calls, with the unsigned subtractions in
\* readableBytes() and writableBytes() never wrapping around.
IndicesOrdered ==
  /\ 0 <= self.readerIndex_
  /\ self.readerIndex_ <= self.writerIndex_
  /\ self.writerIndex_ <= self.size

\* The class keeps kCheapPrepend bytes in front of the data for a header: the
\* room there is short of kCheapPrepend only by bytes that prepend() stored and
\* that were neither retrieved nor given back by a move of the data.
PrependRoom == self.readerIndex_ + prepended >= kCheapPrepend

\* The vector does not grow with the number of bytes that pass through it: a
\* workload that never has more than peak bytes readable and asked for keeps it
\* within twice that, although resize() also keeps the bytes already read.
SizeBounded == self.size <= kCheapPrepend + Larger(kInitialSize, 2 * peak)

\* An integer stored with appendInt*() is what the last bytes decode to, and one
\* stored with prependInt*() is what peekInt*() returns next, sign included.
IntegersSurvive ==
  [][\A w \in Widths : \A x \in IntOf(w) :
       /\ PrependInt(x, w) => peekInt(self', w) = x
       /\ (AppendInt(x, w) /\ readableBytes(self) = 0) => peekInt(self', w) = x]_bufferVars

\* makeSpace() asserts kCheapPrepend < readerIndex_ before it moves data to the
\* front: std::copy then goes to a lower address, and is needed.
MakeSpaceAssertion ==
  \A len \in 0..MaxLen : MovesFor(len) => kCheapPrepend < self.readerIndex_

Queue == INSTANCE ByteQueue WITH
  content <- Content(self),
  Data <- UNION {Strings(n) : n \in 0..MaxReadable}

\* Every call does to the readable bytes what it does to a queue of bytes; moving
\* data inside the vector, growing and shrinking it are invisible.
ImplementsByteQueue == Queue!Spec

\* The first n bytes of s end with kCRLF.
EndsLine(s, n) == s[n - 1] = CR /\ s[n] = LF

\* Each call does to the content exactly what its argument says: data goes in whole
\* and unchanged wherever it was split between the vector and extrabuf, exactly len
\* bytes come out, a line comes out with its terminator and no other line's, and
\* making room or shrinking changes nothing.
CallsActOnContent ==
  [][/\ \A data \in Data :
          /\ (Append_(data) \/ HasWritten(data) \/ ReadFd(data)) => Queue!Append_(data)
          /\ Prepend(data) => Queue!Prepend(data)
     /\ \A len \in 0..MaxReadable :
          /\ Retrieve(len) => Queue!Retrieve(len)
          /\ Unwrite(len) => Queue!Unwrite(len)
     /\ RetrieveCRLF => \E n \in 2..readableBytes(self) :
                          /\ Queue!Retrieve(n)
                          /\ \A k \in 2..n : EndsLine(Content(self), k) <=> k = n
     /\ RetrieveEOL => \E n \in 1..readableBytes(self) :
                         /\ Queue!Retrieve(n)
                         /\ \A k \in 1..n : Content(self)[k] = LF <=> k = n
     /\ \A len \in 0..MaxLen :
          (EnsureWritableBytes(len) \/ Shrink(len)) => UNCHANGED Content(self)]_bufferVars
=============================================================================
