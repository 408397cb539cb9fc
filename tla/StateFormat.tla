---------------------------- MODULE StateFormat ----------------------------
(***************************************************************************)
(* Save states (state.cpp): a state is a sequence of sections, one per     *)
(* call of MDFNSS_StateAction, in one of two forms. The fast form is the   *)
(* raw variables behind the section's name; the full form names every      *)
(* variable and its size, so that a state of another version, which lacks  *)
(* variables or has others, can be read. A token of the stream stands for  *)
(* a name, the canary, a number or a byte; sizes and positions count       *)
(* tokens. The host is little-endian.                                      *)
(***************************************************************************)
EXTENDS Integers, Sequences, SequencesExt

CONSTANTS
  Values,     \* what the variables of a state may hold
  Others      \* layouts of the states of other versions

VARIABLE ss   \* the variables, the stream, and the last load

Name(n) == <<"name", n>>
Word(n) == <<"word", n>>
Byte(n) == <<"byte", n>>
Canary == <<"name", "canary">>
Magic == <<"name", "MDFNSVST">>

\* The version since which MemSelect is no longer a variable of its own, this
\* one's, and the first that is accepted at all.
OldVersion == 2
Version == 3
FirstVersion == 1

\* A variable: type is its element's size in bytes, 0 for a bool; size is the
\* bytes of one repetition (the elements, for bools).
Var(name, type, size, reps) == [name |-> name, type |-> type, size |-> size, reps |-> reps]
Section(name, vars) == [name |-> name, vars |-> vars]

\* Two of the sections this version has, with some of their variables, one of
\* each kind: of one byte, repeated (as the DSP's voices are), a bool, and an
\* index that is masked. MemSelect is read from old states only.
SnesVars == <<Var("Multiplicand", 1, 1, 1), Var("WMAddress", 2, 2, 2)>>
PpuSection == Section("PPU", <<Var("CGRAM_Toggle", 0, 1, 1), Var("OAM_Addr", 2, 2, 1)>>)
MemSelect == Var("MemSelect", 0, 1, 1)
Sections(load) ==
  <<Section("SNES", (IF load > 0 /\ load <= OldVersion THEN <<MemSelect>> ELSE <<>>) \o SnesVars),
    PpuSection>>

\* What the variables of a section hold, as bytes.
Bytes(var) == var.size * var.reps
Wide(var, v) == [i \in 1 .. Bytes(var) |->
                   IF var.type = 0 THEN v % 2 ELSE IF i = 1 THEN v ELSE (v + i) % 256]
Mem(sections, v) ==
  [n \in {sections[i].name : i \in DOMAIN sections} |->
     LET s == CHOOSE x \in Range(sections) : x.name = n IN
     [w \in {s.vars[i].name : i \in DOMAIN s.vars} |->
        Wide(CHOOSE x \in Range(s.vars) : x.name = w, v)]]

----------------------------------------------------------------------------
(* Writing.                                                                *)

Concat(seqs) == FlattenSeq(seqs)
Raw(values) == [i \in DOMAIN values |-> Byte(values[i])]

SubWrite(vars, mem) ==
  Concat([i \in DOMAIN vars |->
            <<Name(vars[i].name), Word(Bytes(vars[i]))>> \o Raw(mem[vars[i].name])])

FastWrite(vars, mem) == Concat([i \in DOMAIN vars |-> Raw(mem[vars[i].name])])

\* One MDFNSS_StateAction that saves.
SaveSection(fast, s, mem) ==
  IF fast THEN <<Name(s.name), Canary>> \o FastWrite(s.vars, mem)
          ELSE <<Name(s.name), Word(Len(SubWrite(s.vars, mem)))>> \o SubWrite(s.vars, mem)

Body(fast, sections, mem) ==
  Concat([i \in DOMAIN sections |-> SaveSection(fast, sections[i], mem[sections[i].name])])

\* The header MDFNSS_SaveSM writes: the version is its third word, and the
\* length, put there last, its sixth.
SaveHeader(len) == <<Magic, Magic, Word(Version), Word(0), Word(0), Word(6 + len)>>

\* The header MDFNSS_LoadSM reads, which other versions write.
OtherHeader(version, len) ==
  <<Magic, Magic, Word(0), Word(0), Word(version), Word(8 + len), Word(0), Word(0)>>

MDFNSS_SaveSM(fast, mem) ==
  IF fast THEN Body(TRUE, Sections(0), mem)
          ELSE SaveHeader(Len(Body(FALSE, Sections(0), mem))) \o Body(FALSE, Sections(0), mem)

----------------------------------------------------------------------------
(* Reading. A reader is [mem, err]; err is the deferred error. Reading     *)
(* past the end throws before anything is copied.                          *)

AsByte(token) == IF token[1] = "byte" THEN token[2] ELSE 7
AsWord(token) == IF token[1] = "word" THEN token[2] ELSE 7
Slice(st, p, n) == [i \in 1 .. n |-> AsByte(st[p + i])]
Ends(st, p, n) == p + n > Len(st)

\* How many repetitions of a variable can be read at p, and what is then held.
Repeated(st, p, var) ==
  LET left == (Len(st) - p) \div var.size
  IN IF left < var.reps THEN left ELSE var.reps
Held(st, p, var, old, full) ==
  [i \in 1 .. Bytes(var) |->
     IF i > Repeated(st, p, var) * var.size THEN old[i]
     ELSE IF full /\ var.type = 0 THEN AsByte(st[p + i]) % 2
     ELSE AsByte(st[p + i])]

\* The variables that are known are read, wherever they are; the others skipped.
ReadVariable(st, bound, vars, r) ==
  IF r.err \/ r.pos >= bound THEN r
  ELSE IF Ends(st, r.pos, 2) THEN [r EXCEPT !.err = TRUE]
  ELSE LET known == {v \in Range(vars) : Name(v.name) = st[r.pos + 1] /\ AsWord(st[r.pos + 2]) = Bytes(v)}
           next == [r EXCEPT !.pos = @ + 2 + AsWord(st[@ + 2])]
       IN IF known = {} THEN next
          ELSE LET v == CHOOSE v \in known : TRUE
               IN [next EXCEPT !.mem[v.name] = Held(st, r.pos + 2, v, @, TRUE),
                               !.err = Repeated(st, r.pos + 2, v) < v.reps]
ReadStateChunk(st, p, bound, vars, mem) ==
  LET read[i \in 0 .. Len(st)] == IF i = 0 THEN [mem |-> mem, pos |-> p, err |-> FALSE]
                                  ELSE ReadVariable(st, bound, vars, read[i - 1])
  IN read[Len(st)]

\* FastRWChunk<true>: the raw variables, in this version's order; r.pos moves.
FastRead(st, vars, first) ==
  LET ReadRaw(r, v) ==
        IF r.err THEN r
        ELSE [mem |-> [r.mem EXCEPT ![v.name] = Held(st, r.pos, v, @, FALSE)],
              pos |-> r.pos + Bytes(v), err |-> Repeated(st, r.pos, v) < v.reps]
      read[i \in 0 .. Len(vars)] == IF i = 0 THEN first ELSE ReadRaw(read[i - 1], vars[i])
  IN read[Len(vars)]

\* The sections of a full state between p and bound; a section twice is an error.
MapSection(st, bound, r) ==
  IF r.err \/ r.pos >= bound THEN r
  ELSE IF Ends(st, r.pos, 2) \/ \E e \in r.map : e.name = st[r.pos + 1] THEN [r EXCEPT !.err = TRUE]
  ELSE [r EXCEPT !.pos = @ + 2 + AsWord(st[@ + 2]),
                 !.map = @ \cup {[name |-> st[r.pos + 1], pos |-> r.pos + 2, size |-> AsWord(st[r.pos + 2])]}]
SectionMap(st, p, bound) ==
  LET found[i \in 0 .. Len(st)] == IF i = 0 THEN [map |-> {}, pos |-> p, err |-> FALSE]
                                   ELSE MapSection(st, bound, found[i - 1])
  IN found[Len(st)]

\* One MDFNSS_StateAction that loads: nothing more is read after an error.
LoadSection(fast, st, map, s, r) ==
  IF r.err THEN r
  ELSE IF fast
  THEN IF Ends(st, r.pos, 2) \/ st[r.pos + 1] # Name(s.name) \/ st[r.pos + 2] # Canary
       THEN [r EXCEPT !.err = TRUE]
       ELSE FastRead(st, s.vars, [r EXCEPT !.pos = @ + 2])
  ELSE LET entries == {e \in map : e.name = Name(s.name)}
       IN IF entries = {} THEN [r EXCEPT !.err = TRUE]
          ELSE LET e == CHOOSE e \in entries : TRUE
                   got == ReadStateChunk(st, e.pos, e.pos + e.size, s.vars, r.mem)
               IN [mem |-> got.mem, pos |-> r.pos, err |-> got.err]

\* What the PPU's handler does with what it was given, whether or not it was: its
\* index of a table is brought into it. OAM_Addr is masked with 0x3FF. Most
\* variables of the other sections are used as they were loaded.
TableSize == 4
Masked(addr) == <<addr[1], addr[2] % TableSize>>
\* Fault: an index is used as it was loaded.
SanitizedNot(name, mem) == mem

Sanitized(name, mem) == IF name = "PPU" THEN [mem EXCEPT !["OAM_Addr"] = Masked(@)] ELSE mem

\* StateAction of snes.cpp: a section and its device's checks, one by one.
\* MemSelect is not memory: it is made before the call, and used after it.
WithMemSelect(load, mem) ==
  IF load > 0 /\ load <= OldVersion THEN [w \in DOMAIN mem \cup {"MemSelect"} |->
                             IF w = "MemSelect" THEN mem["MemSelectCycles"] ELSE mem[w]] ELSE mem
UsedMemSelect(load, mem) ==
  IF load > 0 /\ load <= OldVersion
  THEN [w \in DOMAIN mem \ {"MemSelect"} |-> IF w = "MemSelectCycles" THEN mem["MemSelect"] ELSE mem[w]]
  ELSE mem

Loaded(fast, load, st, map, s, r) ==
  LET before == IF s.name = "SNES" THEN WithMemSelect(load, r.mem[s.name]) ELSE r.mem[s.name]
      got == LoadSection(fast, st, map, s, [r EXCEPT !.mem = before])
      after == IF s.name = "SNES" THEN UsedMemSelect(load, got.mem) ELSE Sanitized(s.name, got.mem)
  IN [mem |-> [r.mem EXCEPT ![s.name] = after], pos |-> got.pos, err |-> got.err]
StateAction(fast, load, st, map, sections, first) ==
  LET loaded[i \in 0 .. Len(sections)] ==
        IF i = 0 THEN first ELSE Loaded(fast, load, st, map, sections[i], loaded[i - 1])
  IN loaded[Len(sections)]

\* MDFNSS_LoadSM: what the variables are then, whether there was an error, and
\* whether the caller was told. The fast form's deferred error is not thrown.
Refused(mem) == [mem |-> mem, err |-> TRUE, thrown |-> TRUE]
Told(r, thrown) == [mem |-> r.mem, err |-> r.err, thrown |-> thrown]
LoadFull(st, mem) ==
  IF Ends(st, 0, 8) \/ st[1] # Magic \/ AsWord(st[5]) < FirstVersion THEN Refused(mem)
  ELSE LET found == SectionMap(st, 8, AsWord(st[6]))
           r == StateAction(FALSE, AsWord(st[5]), st, found.map, Sections(AsWord(st[5])),
                            [mem |-> mem, pos |-> 8, err |-> FALSE])
       IN IF found.err THEN Refused(mem) ELSE Told(r, r.err)
LoadFast(st, mem) ==
  LET r == StateAction(TRUE, Version, st, {}, Sections(Version), [mem |-> mem, pos |-> 0, err |-> FALSE])
  IN Told(r, FALSE)
MDFNSS_LoadSM(fast, st, mem) == IF fast THEN LoadFast(st, mem) ELSE LoadFull(st, mem)

----------------------------------------------------------------------------
\* The memory a device runs with: MemSelectCycles and what is saved of it.
Device(v) == [n \in {"SNES", "PPU"} |->
                IF n = "PPU" THEN Sanitized("PPU", Mem(Sections(0), v)["PPU"])
                ELSE [w \in {"MemSelectCycles", "Multiplicand", "WMAddress"} |->
                        IF w = "MemSelectCycles" THEN <<v % 2>> ELSE Mem(Sections(0), v)["SNES"][w]]]

NoLoad == [done |-> FALSE, fast |-> FALSE, was |-> Device(0), err |-> FALSE, thrown |-> FALSE]

Init == ss = [mem |-> Device(0), st |-> <<>>, held |-> Device(0), from |-> "nobody", load |-> NoLoad]

\* The emulation runs and leaves other values; it does so after every load, which
\* bounds the memories met.
Run(v) == ss' = [ss EXCEPT !.mem = Device(v), !.load = NoLoad]

Save(fast) ==
  /\ ~ss.load.done
  /\ ss' = [ss EXCEPT !.st = MDFNSS_SaveSM(fast, ss.mem), !.held = ss.mem,
                       !.from = IF fast THEN "fast" ELSE "full"]

\* A full state another version wrote, of its own layout.
Foreign(o, v) ==
  /\ ~ss.load.done
  /\ LET body == Body(FALSE, o.sections, Mem(o.sections, v)) IN
     ss' = [ss EXCEPT !.st = OtherHeader(o.version, Len(body)) \o body,
                      !.held = Mem(o.sections, v), !.from = "other"]

\* The stream is short: a buffer of another size, a file not wholly written.
Cut(n) ==
  /\ ~ss.load.done
  /\ ss.from \in {"fast", "other"}
  /\ n < Len(ss.st)
  /\ ss' = [ss EXCEPT !.st = SubSeq(@, 1, n), !.from = "cut " \o @]

\* A caller loads the form it has saved.
Load(fast) ==
  /\ ~ss.load.done
  /\ fast <=> ss.from \in {"fast", "cut fast"}
  /\ ss.st # <<>>
  /\ LET r == MDFNSS_LoadSM(fast, ss.st, ss.mem)
     IN ss' = [ss EXCEPT !.mem = r.mem,
                 !.load = [done |-> TRUE, fast |-> fast, was |-> ss.mem, err |-> r.err, thrown |-> r.thrown]]

Next == \/ \E v \in Values : Run(v) \/ \E o \in Others : Foreign(o, v)
        \/ \E fast \in BOOLEAN : Save(fast) \/ Load(fast)
        \/ \E n \in 1 .. 20 : Cut(n)

Spec == Init /\ [][Next]_ss

----------------------------------------------------------------------------
\* The elements of what is saved, in the order of the stream: a section, a variable
\* and the bytes of it that are copied together.
Elements == <<<<"SNES", "Multiplicand", {1}>>, <<"SNES", "WMAddress", {1, 2}>>, <<"SNES", "WMAddress", {3, 4}>>,
              <<"PPU", "CGRAM_Toggle", {1}>>, <<"PPU", "OAM_Addr", {1, 2}>>>>
Of(e, mem)       == mem[e[1]][e[2]]
Same(e, m1, m2)  == \A i \in e[3] : Of(e, m1)[i] = Of(e, m2)[i]
\* What a state of another version has for an element, if it is of this one's size.
Has(e)  == /\ e[1] \in DOMAIN ss.held /\ e[2] \in DOMAIN ss.held[e[1]]
           /\ Len(Of(e, ss.held)) = Len(Of(e, ss.load.was))
Given(e) == \A i \in e[3] : Of(e, ss.mem)[i] = Sanitized(e[1], ss.held[e[1]])[e[2]][i]
Kept(e)  == Same(e, ss.mem, ss.load.was)
All      == Range(Elements)

\* A fast state that is whole is restored whole; of one that is cut, a beginning is,
\* element by element, and the rest is what it was.
FastRestored ==
  /\ ss.from = "fast" => ~ss.load.err /\ \A e \in All : Same(e, ss.mem, ss.held)
  /\ ss.from = "cut fast" =>
       /\ ss.load.err
       /\ \E n \in 0 .. Len(Elements) : \A k \in DOMAIN Elements :
            Same(Elements[k], ss.mem, IF k <= n THEN ss.held ELSE ss.load.was)

\* A full state as this version saves it has another header than is loaded, which
\* holds no version (state.cpp:511 and 584-596): it is refused, nothing of it is
\* loaded, and the caller is told.
FullRefused == ss.from = "full" => ss.load.err /\ ss.load.thrown /\ ss.mem = ss.load.was

\* A state with the header that is loaded, of any layout: a variable is restored
\* where the state has it, in its size, and kept where not; a missing section is an
\* error that keeps all from there on, told to the caller; an old state's MemSelect
\* is used. Of one that is cut no element is anything but the saved or the kept, and
\* the caller is told.
OtherRestored ==
  /\ ss.from = "other" =>
       /\ ss.load.err <=> ~{"SNES", "PPU"} \subseteq DOMAIN ss.held
       /\ \A e \in All : IF "SNES" \in DOMAIN ss.held /\ Has(e) THEN Given(e) ELSE Kept(e)
       /\ ss.mem["SNES"]["MemSelectCycles"] =
            IF "SNES" \in DOMAIN ss.held /\ "MemSelect" \in DOMAIN ss.held["SNES"]
            THEN ss.held["SNES"]["MemSelect"] ELSE ss.load.was["SNES"]["MemSelectCycles"]
  /\ ss.from = "cut other" => ss.load.err /\ \A e \in All : Kept(e) \/ (Has(e) /\ Given(e))
  /\ ~ss.load.fast => ss.load.thrown = ss.load.err

\* What a section's handler brings into range is there however the load went, and a
\* bool of a full state is one. Nothing is claimed of the variables no handler looks
\* at: README.md:28-29 says of states that they are not sanitized properly.
IndexInRange ==
  /\ ss.mem["PPU"]["OAM_Addr"][2] < TableSize
  /\ ~ss.load.fast => ss.mem["PPU"]["CGRAM_Toggle"][1] \in {0, 1}

StateSound == ss.load.done => FastRestored /\ FullRefused /\ OtherRestored /\ IndexInRange

\* state.h says of a load: "throws exceptions on errors."
LoadThrows == ss.load.done /\ ss.load.err => ss.load.thrown
=============================================================================
