------------------------------- MODULE Copies -------------------------------
(***************************************************************************)
(* hcopy: a file of the volume is copied out to a UNIX file (copyout.c)    *)
(* and a UNIX file in to the volume (copyin.c), as MacBinary II, as BinHex *)
(* (binhex.c, crc.c), as text (charset.c) or raw.                          *)
(*                                                                         *)
(* A copy goes on by buffers.  Reading and writing may fail at any of them *)
(* and the copy may be killed; the UNIX file it leaves behind may be       *)
(* copied in all the same.                                                 *)
(*                                                                         *)
(* Forks are sequences of bytes.  A header has a byte each for the type,   *)
(* the flags and the two lengths; names, dates and creators are left out.  *)
(* A BinHex stream is of 6-bit codes and the marks below.                  *)
(***************************************************************************)
EXTENDS Integers, Sequences, SequencesExt, Bitwise

CONSTANTS Files,        \* files of the volume: [type, flags, data, rsrc]
          Foreign,      \* UNIX files that no copy made
          BUFSZ,        \* bytes in a buffer (HFS_BLOCKSZ * 4)
          MACB_BLOCKSZ, \* MacBinary files are padded to multiples of it
          MAXLINELEN,   \* codes in a line of BinHex
          MAXRUN,       \* the longest run that is coded (255)
          MaxCopies     \* bound: how many copies are begun

ASSUME CopiesAssumption ==
    /\ BUFSZ % MACB_BLOCKSZ = 0
    /\ MACB_BLOCKSZ = 6                 \* a header: four bytes and its checksum
    /\ MAXLINELEN \in Nat \ {0, 1}
    /\ MAXRUN \in 4 .. 255

VARIABLES file,         \* the file that is copied out
          unix,         \* the UNIX file: its bytes, the mode of the copy that made
                      \* it, and whether that copy was a success
          dest,         \* the file on the volume that is copied in
          copy,         \* the copy that is going on, or the last one
          copies

vars == <<file, unix, dest, copy, copies>>

Absent == [type |-> -1, flags |-> 0, data |-> << >>, rsrc |-> << >>]
Old == [type |-> 1, flags |-> 0, data |-> <<7>>, rsrc |-> << >>]
Idle == [way |-> "none", exit |-> "none"]

Init == /\ file \in Files
        /\ unix \in {[bytes |-> b, as |-> "none", whole |-> FALSE] : b \in Foreign}
        /\ dest \in {Absent, Old}
        /\ copy = Idle
        /\ copies = 0

Cut(s, n) == SubSeq(s, 1, n)
Rest(s, n) == SubSeq(s, n + 1, Len(s))
Least(a, b) == IF a < b THEN a ELSE b

-----------------------------------------------------------------------------
(* crc.c.  The table has the remainders of the bytes by x^16+x^12+x^5+1.   *)
ShiftedOut(r) == IF r >= 32768 THEN ((2 * r) % 65536) ^^ 4129 ELSE 2 * r

ShiftedEight(r) == FoldLeft(LAMBDA s, k : ShiftedOut(s), r, [k \in 1 .. 8 |-> k])

magic == [i \in 0 .. 255 |-> ShiftedEight(256 * i)]

crc_binh(bytes, crc) ==
    FoldLeft(LAMBDA c, b : ((c % 256) * 256 + b) ^^ magic[c \div 256], crc, bytes)

crc_macb(bytes, crc) ==
    FoldLeft(LAMBDA c, b : ((c % 256) * 256) ^^ magic[(c \div 256) ^^ b], crc, bytes)

Word(crc) == <<crc \div 256, crc % 256>>

-----------------------------------------------------------------------------
(* binhex.c, encoding.  Three bytes make four codes; what is left of a     *)
(* byte waits.  A run of a byte is the byte, the mark and its length; the  *)
(* mark itself is followed by a zero.                                      *)
colon   == 64
newline == 65
header  == 66           \* the line by which a file is known as BinHex
mark    == 144          \* 0x90

bh_start == [line |-> <<colon>>, state |-> 0, rest |-> 0, lastch |-> 0, runlen |-> 0,
             crc |-> 0, out |-> <<header>>]

flushline(st) == [st EXCEPT !.out = @ \o st.line \o <<newline>>, !.line = << >>]
IfFull(st) == IF Len(st.line) = MAXLINELEN THEN flushline(st) ELSE st
Code(st, c) == [st EXCEPT !.line = Append(@, c)]

addchar(st, c) ==
    LET s == IfFull(st)
        wait(t, state, rest) == [t EXCEPT !.state = state, !.rest = rest]
    IN  CASE s.state = 0 -> wait(Code(s, c \div 4), 1, c % 4)
          [] s.state = 1 -> wait(Code(s, s.rest * 16 + c \div 16), 2, c % 16)
          [] s.state = 2 -> wait(Code(IfFull(Code(s, s.rest * 4 + c \div 64)), c % 64),
                                 0, 0)

addchars(st, bytes) == FoldLeft(addchar, st, bytes)

rleflush(st) ==
    LET self  == IF st.lastch = mark THEN <<mark, 0>> ELSE <<st.lastch>>
        short == st.runlen < (IF st.lastch = mark THEN 3 ELSE 4)
        coded == IF short THEN FlattenSeq([k \in 1 .. st.runlen |-> self])
                 ELSE self \o <<mark, st.runlen % (MAXRUN + 1)>>
    IN  [addchars(st, coded) EXCEPT !.runlen = 0]

(* Faulty variant: the length of a run has no limit.                       *)
InsertLong(st, c) ==
    LET ends == st.runlen > 0 /\ st.lastch # c
        s    == IF ends THEN rleflush(st) ELSE st
    IN  [s EXCEPT !.lastch = c, !.runlen = @ + 1]

Insert(st, c) ==
    LET ends == st.runlen > 0 /\ (st.runlen = MAXRUN \/ st.lastch # c)
        s    == IF ends THEN rleflush(st) ELSE st
    IN  [s EXCEPT !.lastch = c, !.runlen = @ + 1]

bh_insert(st, bytes) ==
    FoldLeft(Insert, [st EXCEPT !.crc = crc_binh(bytes, @)], bytes)

bh_insertcrc(st) ==
    [bh_insert(st, Word(crc_binh(<<0, 0>>, st.crc))) EXCEPT !.crc = 0]

(* What is left of the last byte is padded; the line ends with a colon.    *)
bh_end(st) ==
    LET s == IF st.runlen > 0 THEN rleflush(st) ELSE st
        p == IF s.state # 0 THEN addchar(s, 0) ELSE s
    IN  flushline(Code(p, colon)).out

-----------------------------------------------------------------------------
(* binhex.c, decoding.  at: the next character of the file; a failure      *)
(* stays one.                                                              *)
Stream == unix.bytes

bh_open ==
    [at |-> 3, state |-> 0, rest |-> 0, byte |-> 0, lastch |-> 0, runlen |-> 0, crc |-> 0,
     got |-> << >>,
     ok |-> Len(Stream) >= 2 /\ Stream[1] = header /\ Stream[2] = colon]

RECURSIVE Skip(_)
Skip(at) == IF at <= Len(Stream) /\ Stream[at] = newline THEN Skip(at + 1) ELSE at

hqxchar(st) ==
    LET take(i) == [st EXCEPT !.at = i + 1,
                              !.ok = @ /\ i <= Len(Stream) /\ Stream[i] < colon]
    IN  take(Skip(st.at))

At(st) == Stream[st.at - 1]

(* The next byte, in the field of that name.                               *)
nextchar(st) ==
    LET put(s, byte, state, rest) ==
            [s EXCEPT !.byte = byte, !.state = state, !.rest = rest]
        join(a, b) ==
            IF ~a.ok \/ (st.state = 0 /\ ~b.ok)
            THEN put([a EXCEPT !.ok = FALSE], 0, 0, 0)
            ELSE CASE st.state = 0 -> put(b, At(a) * 4 + At(b) \div 16, 1, At(b) % 16)
                   [] st.state = 1 -> put(a, st.rest * 16 + At(a) \div 4, 2, At(a) % 4)
                   [] st.state = 2 -> put(a, st.rest * 64 + At(a), 0, 0)
    IN  join(hqxchar(st), hqxchar(hqxchar(st)))

(* s is the stream after the next byte, t after the one behind it, which   *)
(* is the length of a run if the first is the mark.                        *)
RECURSIVE ReadOn(_, _)
ReadOn(st, len) ==
    LET give(q, c) == ReadOn([q EXCEPT !.got = Append(@, c), !.lastch = c], len - 1)
        goon(s, t) ==
            IF ~s.ok THEN s
            ELSE IF s.byte # mark THEN give(s, s.byte)
            ELSE IF ~t.ok THEN t
            ELSE IF t.byte > 0 THEN ReadOn([t EXCEPT !.runlen = t.byte - 1], len)
            ELSE give(t, mark)
    IN  IF len = 0 \/ ~st.ok THEN st
        ELSE IF st.runlen > 0
        THEN ReadOn([st EXCEPT !.got = Append(@, st.lastch), !.runlen = @ - 1], len - 1)
        ELSE goon(nextchar(st), nextchar(nextchar(st)))

bh_read(st, len) ==
    LET summed(s) == [s EXCEPT !.crc = crc_binh(s.got, @), !.byte = 0]
    IN  summed(ReadOn([st EXCEPT !.got = << >>], len))

bh_readcrc(st) ==
    LET s == bh_read(st, 2)
    IN  [s EXCEPT !.ok = @ /\ s.got = Word(crc_binh(<<0, 0>>, st.crc)), !.crc = 0]

(* A zero code may be left of the padding.                                 *)
bh_close(st) ==
    LET i == Skip(st.at)
        k == IF i <= Len(Stream) /\ Stream[i] = 0 THEN Skip(i + 1) ELSE i
    IN  k <= Len(Stream) /\ Stream[k] = colon

-----------------------------------------------------------------------------
(* charset.c, by the kinds of characters: 0 to 99 are in both sets, 101    *)
(* and 102 in one of them only; the other set writes 40 and 41 instead.    *)
(* Line ends are 10 and 13.                                                *)
onlymac == 101
onlylatin == 102

Changed(bytes, from, to) ==
    [i \in DOMAIN bytes |-> IF bytes[i] = from THEN to ELSE bytes[i]]
Spelt(bytes, c) ==
    FlattenSeq([i \in DOMAIN bytes |-> IF bytes[i] = c THEN <<40, 41>> ELSE <<bytes[i]>>])

cs_latin1(bytes) == Spelt(bytes, onlymac)
cs_macroman(bytes) == Spelt(bytes, onlylatin)

(* hcopy without a mode: by the type and the forks of the file, or by the  *)
(* end of the UNIX file's name, which tells how it was copied out.         *)
TEXT == 5
automode_hfs == CASE file.type = TEXT -> "text"
                  [] file.type # TEXT /\ file.rsrc = << >> -> "raw"
                  [] OTHER -> "macb"
automode_unix == CASE unix.as = "none" -> {"raw"}
                   [] unix.as = "text" -> {"text", "raw"}   \* a name with a dot of its own
                   [] OTHER -> {unix.as}

Modes == {"macb", "binh", "text", "raw"}

(* hcopy begins the next of its copies.                                    *)
Start == [pc |-> "open", pos |-> 0, at |-> 0, head |-> << >>, exit |-> "running"]

do_copyout(mode) == copy' = Start @@ [way |-> "out", mode |-> mode, st |-> bh_start]
do_copyin(mode) == copy' = Start @@ [way |-> "in", mode |-> mode, st |-> bh_open]

Begin ==
    /\ copy.exit # "running"
    /\ copies < MaxCopies
    /\ \/ \E m \in Modes \cup {automode_hfs} : do_copyout(m)
       \/ \E m \in Modes \cup automode_unix : do_copyin(m)
    /\ copies' = copies + 1
    /\ UNCHANGED <<file, unix, dest>>

Going(way, modes, pcs) ==
    /\ copy.exit = "running" /\ copy.way = way /\ copy.mode \in modes /\ copy.pc \in pcs
    /\ UNCHANGED <<file, copies>>

Exit(how) == copy' = [copy EXCEPT !.exit = how]
Goto(pc) == copy' = [copy EXCEPT !.pc = pc, !.pos = 0]
AfterFork == CASE copy.pc = "data" -> "rsrc" [] copy.pc = "rsrc" -> "end"

Header(f) == <<f.type, f.flags, Len(f.data), Len(f.rsrc)>>
HeaderSize == 4

-----------------------------------------------------------------------------
(* copyout.c.  When a write fails any part of the bytes may have landed.   *)
write(bytes, next) ==
    \/ unix' = [unix EXCEPT !.bytes = @ \o bytes] /\ next
    \/ /\ \E n \in 0 .. Len(bytes) - 1 : unix' = [unix EXCEPT !.bytes = @ \o Cut(bytes, n)]
       /\ Exit("failed")

FromFork ==
    LET fork == IF copy.pc = "data" THEN file.data ELSE file.rsrc
    IN  SubSeq(fork, copy.pos + 1, Least(copy.pos + BUFSZ, Len(fork)))
GoOn == copy' = [copy EXCEPT !.pos = @ + BUFSZ]

OutOpen ==
    /\ Going("out", Modes, {"open"})
    /\ \/ /\ unix' = [bytes |-> << >>, as |-> copy.mode, whole |-> FALSE]
          /\ Goto(IF copy.mode \in {"macb", "binh"} THEN "header" ELSE "data")
       \/ Exit("failed") /\ UNCHANGED unix
    /\ UNCHANGED dest

do_macb_out ==
    /\ Going("out", {"macb"}, {"header"})
    /\ write(Header(file) \o Word(crc_macb(Header(file), 0)), Goto("data"))
    /\ UNCHANGED dest

Padding(n) == [k \in 1 .. (MACB_BLOCKSZ - (n % MACB_BLOCKSZ)) % MACB_BLOCKSZ |-> 0]
ForkSize == IF copy.pc = "data" THEN Len(file.data) ELSE Len(file.rsrc)

fork_macb_out ==
    /\ Going("out", {"macb"}, {"data", "rsrc"})
    /\ IF FromFork # << >> THEN write(FromFork, GoOn)
       ELSE write(Padding(ForkSize), Goto(AfterFork))
    /\ UNCHANGED dest

(* What is encoded stays in the buffer of the stream.                      *)
binhx_out ==
    /\ Going("out", {"binh"}, {"header"})
    /\ copy' = [copy EXCEPT !.pc = "data", !.st = bh_insertcrc(bh_insert(@, Header(file)))]
    /\ UNCHANGED <<unix, dest>>

fork_binh_out ==
    /\ Going("out", {"binh"}, {"data", "rsrc"})
    /\ copy' = IF FromFork # << >>
               THEN [copy EXCEPT !.pos = @ + BUFSZ, !.st = bh_insert(@, FromFork)]
               ELSE [copy EXCEPT !.pos = 0, !.pc = AfterFork, !.st = bh_insertcrc(@)]
    /\ UNCHANGED <<unix, dest>>

do_binh_out ==
    /\ Going("out", {"binh"}, {"end"})
    /\ write(bh_end(copy.st), Goto("close"))
    /\ UNCHANGED dest

do_text_out ==
    /\ Going("out", {"text"}, {"data"})
    /\ IF FromFork # << >> THEN write(cs_latin1(Changed(FromFork, 13, 10)), GoOn)
       ELSE Goto("close") /\ UNCHANGED unix
    /\ UNCHANGED dest

do_raw_out ==
    /\ Going("out", {"raw"}, {"data"})
    /\ IF FromFork # << >> THEN write(FromFork, GoOn) ELSE Goto("close") /\ UNCHANGED unix
    /\ UNCHANGED dest

(* The source cannot be read: what was encoded is ended all the same.      *)
OutFails ==
    /\ Going("out", Modes, {"header", "data", "rsrc"})
    /\ IF copy.mode = "binh" THEN write(bh_end(copy.st), Exit("failed"))
       ELSE Exit("failed") /\ UNCHANGED unix
    /\ UNCHANGED dest

OutKilled ==
    /\ Going("out", Modes, {"header", "data", "rsrc", "end", "close"})
    /\ Exit("killed")
    /\ IF copy.mode = "binh" /\ copy.pc # "close"
       THEN \E n \in 0 .. Len(copy.st.out) :
                unix' = [unix EXCEPT !.bytes = Cut(copy.st.out, n)]
       ELSE UNCHANGED unix
    /\ UNCHANGED dest

closefiles_out ==
    /\ Going("out", Modes, {"close"})
    /\ \/ Exit("ok") /\ unix' = [unix EXCEPT !.whole = TRUE]
       \/ Exit("failed") /\ UNCHANGED unix
    /\ UNCHANGED dest

-----------------------------------------------------------------------------
(* copyin.c.  The headers are checked before the old file is deleted.      *)
MaxLength == 127        \* 0x7fffffff

macb_header ==
    LET head == Cut(Stream, HeaderSize)
    IN  IF /\ Len(Stream) >= MACB_BLOCKSZ
           /\ SubSeq(Stream, HeaderSize + 1, MACB_BLOCKSZ) = Word(crc_macb(head, 0))
           /\ head[3] <= MaxLength /\ head[4] <= MaxLength
        THEN copy' = [copy EXCEPT !.pc = "create", !.head = head, !.at = MACB_BLOCKSZ]
        ELSE Exit("failed")

binhx_header ==
    LET h == bh_read(copy.st, HeaderSize)
        c == bh_readcrc(h)
    IN  IF h.ok /\ h.got[3] <= MaxLength /\ h.got[4] <= MaxLength /\ c.ok
        THEN copy' = [copy EXCEPT !.pc = "create", !.head = h.got, !.st = c]
        ELSE Exit("failed")

Empty(type) == [type |-> type, flags |-> 0, data |-> << >>, rsrc |-> << >>]
UnixType == IF copy.mode = "text" THEN TEXT ELSE 1      \* TEXT_TYPE, RAW_TYPE

(* Faulty variant: the header is looked at when the file is there.         *)
LooksLater ==
    /\ Going("in", Modes, {"open"})
    /\ CASE copy.mode = "macb" -> macb_header
         [] copy.mode = "binh" -> binhx_header
         [] OTHER -> Goto("create")
    /\ dest' \in {dest, Empty(UnixType)}
    /\ UNCHANGED unix

InOpen ==
    /\ Going("in", Modes, {"open"})
    /\ CASE copy.mode = "macb" -> macb_header
         [] copy.mode = "binh" -> binhx_header
         [] OTHER -> Goto("create")
    /\ UNCHANGED <<unix, dest>>

opendst ==
    /\ Going("in", Modes, {"create"})
    /\ \/ /\ dest' = Empty(IF copy.head = << >> THEN UnixType ELSE copy.head[1])
          /\ Goto("data")
       \/ dest' \in {dest, Absent} /\ Exit("failed")
    /\ UNCHANGED unix

hfs_write(bytes, next) ==
    LET put(b) == IF copy.pc = "data" THEN dest' = [dest EXCEPT !.data = @ \o b]
                  ELSE dest' = [dest EXCEPT !.rsrc = @ \o b]
    IN  \/ put(bytes) /\ next
        \/ (\E n \in 0 .. Len(bytes) - 1 : put(Cut(bytes, n))) /\ Exit("failed")

SizeLeft == copy.head[IF copy.pc = "data" THEN 3 ELSE 4] - copy.pos

(* Faulty variant: the padding of a fork stays in the file.                *)
NotUp(n) == n
Up(n) == n + Len(Padding(n))

read(n) == SubSeq(Stream, copy.at + 1, Least(copy.at + n, Len(Stream)))

fork_macb_in ==
    LET chunk == Least(Up(SizeLeft), BUFSZ)
        size  == Least(SizeLeft, BUFSZ)
    IN  /\ Going("in", {"macb"}, {"data", "rsrc"})
        /\ IF SizeLeft = 0 THEN Goto(AfterFork) /\ UNCHANGED dest
           ELSE IF Len(read(chunk)) < chunk THEN Exit("failed") /\ UNCHANGED dest
           ELSE hfs_write(Cut(read(chunk), size),
                          copy' = [copy EXCEPT !.pos = @ + size, !.at = @ + chunk])
        /\ UNCHANGED unix

fork_binh_in ==
    LET size == Least(SizeLeft, BUFSZ)
        s    == IF SizeLeft = 0 THEN bh_readcrc(copy.st) ELSE bh_read(copy.st, size)
    IN  /\ Going("in", {"binh"}, {"data", "rsrc"})
        /\ IF ~s.ok THEN Exit("failed") /\ UNCHANGED dest
           ELSE IF SizeLeft = 0
           THEN /\ copy' = [copy EXCEPT !.pos = 0, !.pc = AfterFork, !.st = s]
                /\ UNCHANGED dest
           ELSE hfs_write(s.got, copy' = [copy EXCEPT !.pos = @ + size, !.st = s])
        /\ UNCHANGED unix

ReadsOn == copy' = [copy EXCEPT !.at = @ + BUFSZ]

do_text_in ==
    /\ Going("in", {"text"}, {"data"})
    /\ IF read(BUFSZ) # << >>
       THEN hfs_write(cs_macroman(Changed(read(BUFSZ), 10, 13)), ReadsOn)
       ELSE Goto("end") /\ UNCHANGED dest
    /\ UNCHANGED unix

do_raw_in ==
    /\ Going("in", {"raw"}, {"data"})
    /\ IF read(BUFSZ) # << >> THEN hfs_write(read(BUFSZ), ReadsOn)
       ELSE Goto("end") /\ UNCHANGED dest
    /\ UNCHANGED unix

InFails ==
    /\ Going("in", Modes, {"open", "data", "rsrc", "end"})
    /\ Exit("failed")
    /\ UNCHANGED <<unix, dest>>

(* The flags of the desktop are cleared: BinHex clears the invisible's too. *)
Kept(mode, flags) == flags - (flags % (IF mode = "macb" THEN 2 ELSE 4))

closefiles_in ==
    /\ Going("in", Modes, {"end"})
    /\ IF copy.mode = "binh" /\ ~bh_close(copy.st) THEN Exit("failed") /\ UNCHANGED dest
       ELSE /\ dest' = IF copy.head = << >> THEN dest
                       ELSE [dest EXCEPT !.flags = Kept(copy.mode, copy.head[2])]
            /\ \E how \in {"ok", "failed"} : Exit(how)
    /\ UNCHANGED unix

-----------------------------------------------------------------------------
CopyOut == \/ OutOpen \/ do_macb_out \/ fork_macb_out \/ binhx_out \/ fork_binh_out
           \/ do_binh_out \/ do_text_out \/ do_raw_out \/ OutFails \/ OutKilled
           \/ closefiles_out

CopyIn == \/ InOpen \/ opendst \/ fork_macb_in \/ fork_binh_in \/ do_text_in \/ do_raw_in
          \/ InFails \/ closefiles_in

Next == Begin \/ CopyOut \/ CopyIn

Spec == Init /\ [][Next]_vars

-----------------------------------------------------------------------------
(* What a copy in takes for a success is the file that was copied out, but *)
(* for the flags that are cleared: also when the copy out was cut short,   *)
(* for MacBinary and BinHex tell; a raw copy is its beginning at least, and *)
(* text that both sets have comes back as it was.                          *)
Unspoilt == \A i \in DOMAIN file.data : file.data[i] \notin {10, onlymac, onlylatin}

CopiedIsTheFile ==
    (copy.exit = "ok" /\ copy.way = "in" /\ unix.as = copy.mode) =>
        CASE copy.mode \in {"macb", "binh"} ->
                 dest = [file EXCEPT !.flags = Kept(copy.mode, @)]
          [] copy.mode = "raw" ->
                 IsPrefix(dest.data, file.data) /\ (unix.whole => dest.data = file.data)
          [] OTHER -> (unix.whole /\ Unspoilt) => dest.data = file.data

(* A copy out that reports success left the whole file behind: its header, *)
(* both forks and what ends them, by whatever buffers it went; BinHex, by  *)
(* what the decoder gets back from it.                                     *)
padded(fork) == fork \o Padding(Len(fork))

Decoded ==
    LET h  == bh_read(bh_open, HeaderSize)
        hc == bh_readcrc(h)
        d  == bh_read(hc, Len(file.data))
        dc == bh_readcrc(d)
        r  == bh_read(dc, Len(file.rsrc))
        rc == bh_readcrc(r)
    IN  <<h.got, d.got, r.got, rc.ok /\ bh_close(rc)>>

ExitTellsTheTruth ==
    (copy.exit = "ok" /\ copy.way = "out") =>
        CASE copy.mode = "macb" ->
                 unix.bytes = Header(file) \o Word(crc_macb(Header(file), 0))
                                 \o padded(file.data) \o padded(file.rsrc)
          [] copy.mode = "binh" -> Decoded = <<Header(file), file.data, file.rsrc, TRUE>>
          [] copy.mode = "text" -> unix.bytes = cs_latin1(Changed(file.data, 13, 10))
          [] copy.mode = "raw"  -> unix.bytes = file.data

(* The file of the volume is replaced only by a copy that found a header   *)
(* with the right sum, if its mode has headers: a file of another kind, or *)
(* one that was cut short within its header, leaves the old file alone.    *)
HasHeader(mode) ==
    CASE mode = "macb" -> /\ Len(Stream) >= MACB_BLOCKSZ
                          /\ LET crc == crc_macb(Cut(Stream, 4), 0)
                             IN  Stream[5] = crc \div 256 /\ Stream[6] = crc % 256
      [] mode = "binh" -> bh_readcrc(bh_read(bh_open, HeaderSize)).ok
      [] OTHER -> TRUE

RefusedSparesTheOld == [][dest' # dest => HasHeader(copy.mode)]_vars
=============================================================================
