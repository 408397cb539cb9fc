------------------------------ MODULE Streams ------------------------------
(***************************************************************************)
(* The streams everything is read from (Stream.cpp, MemoryStream.cpp,      *)
(* ExtMemStream.cpp, FileStream.cpp): "memory" grows, "external" is a      *)
(* buffer of somebody else's, "file" reads a file through a buffer of its  *)
(* own. Beside each runs what a stream promises, as a sequence of bytes    *)
(* and a position. Files are only opened for reading (FileStream's one     *)
(* mode), so that its write buffer stays empty.                            *)
(***************************************************************************)
EXTENDS Integers, Sequences

CONSTANTS
  Contents,   \* what files and external buffers hold
  Buffers,    \* sizes of a file's buffer
  Counts,     \* how much one call reads
  Writes,     \* what one call writes
  Room,       \* how far writes go
  Most        \* the longest stream met, and how far seeks go

VARIABLE io   \* the stream, its promise, and what the last call gave

LF == 10
CR == 13
Bom == <<239, 187, 191>>
Garbage == 99      \* what malloc'd memory holds
Least(a, b) == IF a < b THEN a ELSE b
Greatest(a, b) == IF a < b THEN b ELSE a
Piece(bytes, p, n) == SubSeq(bytes, p + 1, p + n)
Available(size, p) == Greatest(size - p, 0)

Size == IF io.kind = "file" THEN Len(io.fdata) ELSE io.size

Opened(kind, bytes, bufsize, writable) ==
  [kind |-> kind, writable |-> writable,
   buf |-> IF kind = "file" THEN <<>> ELSE bytes, size |-> Len(bytes), pos |-> 0,
   fdata |-> bytes, fd |-> 0, bufsize |-> bufsize, offs |-> 0, seek |-> FALSE,
   is |-> bytes, at |-> 0, out |-> <<>>, want |-> <<>>, code |-> 0, lost |-> FALSE]

----------------------------------------------------------------------------
(* MemoryStream and ExtMemStream. buf is what is allocated.                *)

Pow2(n) ==
  LET p[k \in 0 .. n] == IF k = 0 THEN 1 ELSE IF p[k - 1] >= n THEN p[k - 1] ELSE 2 * p[k - 1] IN p[n]

\* grow_if_necessary: the bytes between the old end and hole_end become zero.
Grown(s, required, hole) ==
  IF required <= s.size THEN s
  ELSE LET alloced == IF required > Len(s.buf) THEN Pow2(required) ELSE Len(s.buf)
       IN [s EXCEPT !.size = required,
             !.buf = [i \in 1 .. alloced |->
                        IF i > s.size /\ i <= hole THEN 0
                        ELSE IF i <= Len(s.buf) THEN s.buf[i] ELSE Garbage]]

\* What the promise of a write is.
Promised(is, at, bytes) ==
  [i \in 1 .. Greatest(Len(is), at + Len(bytes)) |->
     IF i > at /\ i <= at + Len(bytes) THEN bytes[i - at]
     ELSE IF i <= Len(is) THEN is[i] ELSE 0]

\* Nothing happens if an external buffer is too small or read-only, but throwing.
Write(bytes) ==
  /\ io.kind # "file"
  /\ io.pos + Len(bytes) <= Room
  /\ bytes # <<>>
  /\ IF io.kind = "external" /\ (~io.writable \/ io.pos + Len(bytes) > io.size)
     THEN io' = [io EXCEPT !.code = -2, !.out = <<>>, !.want = <<>>]
     ELSE LET s == Grown(io, io.pos + Len(bytes), io.pos)
          IN io' = [s EXCEPT !.buf = [i \in DOMAIN s.buf |->
                        IF i > io.pos /\ i <= io.pos + Len(bytes) THEN bytes[i - io.pos] ELSE s.buf[i]],
                      !.pos = @ + Len(bytes), !.is = Promised(@, io.at, bytes), !.at = @ + Len(bytes),
                      !.code = Len(bytes), !.out = <<>>, !.want = <<>>]

\* How much a read at s.pos gives.
MemCount(s, n) == Least(n, Available(s.size, s.pos))

\* shrink_to_fit.
Shrink ==
  /\ io.kind = "memory"
  /\ Len(io.buf) > io.size
  /\ io' = [io EXCEPT !.buf = Piece(@, 0, Greatest(io.size, 1)), !.out = <<>>, !.want = <<>>]

----------------------------------------------------------------------------
(* FileStream: fd is the file's position, and the buffer holds the bytes   *)
(* before it; offs of them are given out.                                  *)

\* read_ub: fail is how many bytes the system gives before an error, -1 if none.
Given(s, n, fail) == LET all == Least(n, Available(Len(s.fdata), s.fd))
                     IN IF fail >= 0 /\ fail < all THEN fail ELSE all
Fails(s, n, fail) == fail >= 0 /\ fail < Least(n, Available(Len(s.fdata), s.fd))

\* What is left of the buffer is given out, up to n bytes.
FromBuffer(s, n) ==
  LET c == Least(n, Len(s.buf) - s.offs)
  IN [s EXCEPT !.out = @ \o Piece(s.buf, s.offs, c), !.offs = @ + c, !.pos = @ + c]

\* The buffer is used up: the rest is read past it, or it is filled again. It is
\* empty after the file's end was met.
Refilled(s, n, fail) ==
  LET direct == n >= s.bufsize
      k == IF direct THEN n ELSE s.bufsize
      got == Given(s, k, fail)
      t == [s EXCEPT !.buf = <<>>, !.offs = 0, !.fd = @ + got]
  IN IF Fails(s, k, fail) THEN [t EXCEPT !.seek = TRUE, !.code = -2]
     ELSE IF direct \/ got < n THEN [t EXCEPT !.out = @ \o Piece(s.fdata, s.fd, got), !.pos = @ + got]
     ELSE FromBuffer([t EXCEPT !.buf = Piece(s.fdata, s.fd, got)], n)

\* FileStream::read: at most one refill is needed, as what the buffer does not
\* hold then is past it or past the file's end.
FileRead(s, n, fail) ==
  LET t == FromBuffer([s EXCEPT !.out = <<>>, !.code = 0], n)
      m == n - Len(t.out)
  IN IF m = 0 THEN t ELSE Refilled(t, m, fail)

\* Any stream's read; a throw is code -2.
Got(s, n, fail) ==
  IF s.kind = "file" THEN FileRead(s, n, fail)
  ELSE [s EXCEPT !.out = Piece(s.buf, s.pos, MemCount(s, n)), !.pos = @ + MemCount(s, n), !.code = 0]

\* FileStream::seek. Within the buffer nothing is asked of the system.
Sought(s, to) ==
  IF s.kind # "file" THEN [s EXCEPT !.pos = to]
  ELSE IF s.bufsize > 0 /\ ~s.seek /\ (s.offs + to - s.pos) \in 0 .. Len(s.buf)
  THEN [s EXCEPT !.offs = s.offs + to - s.pos, !.pos = to]
  ELSE [s EXCEPT !.buf = <<>>, !.offs = 0, !.fd = to, !.pos = to, !.seek = FALSE]

----------------------------------------------------------------------------
(* The operations.                                                         *)

Promise(n) == Piece(io.is, io.at, Least(n, Available(Len(io.is), io.at)))

\* A read of all or nothing throws at the end of a memory stream before it takes
\* anything; at the end of a file it has taken what there was.
Read(n, strict, fail) ==
  /\ fail >= 0 => io.kind = "file"
  /\ LET r == Got(io, n, fail)
         short == strict /\ Len(r.out) < n /\ r.code # -2
     IN IF short /\ io.kind # "file" THEN io' = [io EXCEPT !.code = -2, !.out = <<>>, !.want = <<>>]
        ELSE io' = [r EXCEPT !.want = IF r.code = -2 THEN <<>> ELSE Promise(n),
                             !.out = IF r.code = -2 THEN <<>> ELSE @,
                             !.code = IF short THEN -2 ELSE @,
                             !.lost = @ \/ r.code = -2,
                             !.at = r.pos]

\* The file's position is lost after an error until the next seek.
Seek(to) ==
  io' = [Sought(io, to) EXCEPT !.at = to, !.lost = FALSE, !.out = <<>>, !.want = <<>>, !.code = 0]

\* flush and set_buffer_size give the buffer up; the position stays.
Flushed(s) == IF s.buf # <<>> THEN Sought([s EXCEPT !.seek = TRUE], s.pos) ELSE s
SetBuffer(size) ==
  /\ io.kind = "file"
  /\ size # io.bufsize
  /\ ~io.lost
  /\ io' = [Flushed(io) EXCEPT !.bufsize = size, !.out = <<>>, !.want = <<>>, !.code = 0]

\* get_line: bytes up to an end-of-line, which is its value; 256 for a last
\* line without one, -1 at the end.
Longer(l) ==
  LET r == Got(l.s, 1, -1)
  IN IF l.done THEN l
     ELSE IF r.out = <<>> THEN [s |-> r, line |-> l.line, code |-> IF l.line = <<>> THEN -1 ELSE 256, done |-> TRUE]
     ELSE IF r.out[1] \in {LF, CR, 0} THEN [s |-> r, line |-> l.line, code |-> r.out[1], done |-> TRUE]
     ELSE [l EXCEPT !.s = r, !.line = Append(@, r.out[1])]
Line(s, most) ==
  LET read[k \in 0 .. most] ==
        IF k = 0 THEN [s |-> s, line |-> <<>>, code |-> 0, done |-> FALSE] ELSE Longer(read[k - 1])
      l == read[most]
  IN [l.s EXCEPT !.out = l.line, !.code = l.code]

Ends(bytes, p) == {i \in p + 1 .. Len(bytes) : bytes[i] \in {LF, CR, 0}}
First(set) == CHOOSE i \in set : \A j \in set : i <= j
NextLine(bytes, p) == IF Ends(bytes, p) = {} THEN Piece(bytes, p, Available(Len(bytes), p))
                      ELSE Piece(bytes, p, First(Ends(bytes, p)) - p - 1)

get_line == /\ ~io.lost
            /\ LET r == Line(io, Size + 1)
               IN io' = [r EXCEPT !.want = NextLine(io.is, io.at), !.at = r.pos]

\* get_line_mem takes a CR LF as one end of line.
get_line_mem ==
  /\ io.kind = "memory"
  /\ LET b == Piece(io.buf, 0, io.size)
         line == NextLine(b, io.pos)
         e == io.pos + Len(line) + 1
         next == IF Ends(b, io.pos) = {} THEN io.size
                 ELSE IF b[e] = CR /\ e < io.size /\ b[e + 1] = LF THEN e + 1 ELSE e
     IN io' = [io EXCEPT !.out = line, !.want = NextLine(io.is, io.at), !.pos = next, !.at = next,
                         !.code = IF Ends(b, io.pos) # {} THEN b[e] ELSE IF line = <<>> THEN -1 ELSE 256]

\* read_utf8_bom takes a mark and leaves anything else.
read_utf8_bom ==
  /\ ~io.lost
  /\ LET r == Got(io, 3, -1)
         s == IF r.out = Bom THEN r ELSE Sought(r, r.pos - Len(r.out))
     IN io' = [s EXCEPT !.out = IF r.out = Bom THEN Bom ELSE <<>>, !.at = s.pos, !.code = 0,
                        !.want = IF Promise(3) = Bom THEN Bom ELSE <<>>]

\* alloc_and_read: everything from the position on, unless it is too much.
alloc_and_read(limit) ==
  /\ ~io.lost
  /\ LET n == Available(Size, io.pos)
         r == Got(io, n, -1)
     IN io' = IF n > limit THEN [io EXCEPT !.code = -2, !.out = <<>>, !.want = <<>>]
              ELSE [r EXCEPT !.want = Promise(Most), !.at = r.pos]

\* A MemoryStream made of a stream has all its bytes, from its beginning, and the
\* stream is gone.
Became(s) == LET all == Got(Sought(s, 0), Size, -1).out
             IN [Opened("memory", all, 0, TRUE) EXCEPT !.buf = all, !.out = all, !.want = s.is]
Become == /\ io.kind # "memory"
          /\ ~io.lost
          /\ io' = Became(io)

Init == \/ \E c \in Contents, b \in Buffers : io = Opened("file", c, b, FALSE)
        \/ \E c \in Contents, w \in BOOLEAN : io = Opened("external", c, 0, w)
        \/ io = [Opened("memory", <<>>, 0, TRUE) EXCEPT !.buf = <<Garbage>>]

Next == \/ \E bytes \in Writes : Write(bytes)
        \/ \E n \in Counts, strict \in BOOLEAN, fail \in {-1, 1} : Read(n, strict, fail)
        \/ \E to \in 0 .. Most : Seek(to)
        \/ \E size \in Buffers : SetBuffer(size)
        \/ \E limit \in {1, Most} : alloc_and_read(limit)
        \/ Shrink \/ get_line \/ get_line_mem \/ read_utf8_bom \/ Become

Spec == Init /\ [][Next]_io

----------------------------------------------------------------------------
\* Whatever was read, written, sought and buffered before, a read gives the bytes
\* at the stream's position, a write changes those and no others, a hole is
\* zero, and the file is where the buffer says, except after an error.
StreamSound ==
  /\ ~io.lost => io.out = io.want /\ io.pos = io.at
  /\ io.kind # "file" => Piece(io.buf, 0, io.size) = io.is /\ Len(io.buf) >= io.size
  /\ (io.kind = "file" /\ ~io.seek) => io.fd = io.pos + Len(io.buf) - io.offs
  /\ io.kind = "file" => io.offs <= Len(io.buf) /\ Len(io.buf) <= io.bufsize
=============================================================================
