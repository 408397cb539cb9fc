------------------------------ MODULE Settings ------------------------------
(***************************************************************************)
(* The settings (settings.cpp) and the numbers in their texts (Xfromstr of *)
(* string.cpp). They are kept in the order of a 32-bit hash of their names *)
(* and found by it; texts are checked when they are set and translated     *)
(* whenever they are asked for. A text is a sign, whether 0x follows, and  *)
(* its characters: digits up to 35, or another (36). Numbers have W bits.  *)
(* No setting of this program is an alias or a list of enumerators, and    *)
(* the one real number is never set.                                       *)
(***************************************************************************)
EXTENDS Integers, Sequences, FiniteSets

CONSTANTS
  Names,      \* of the settings
  Hash,       \* of the names; two may have the same
  Desc,       \* of each its type, default, bounds (texts, or none), enumeration
  Notified,   \* the names whose changes a game is told of
  Texts,      \* what the front end sets
  Unknown,    \* a name no setting has, with the hash of one that has
  W           \* the width of a number

VARIABLE st   \* the settings, and what the game was told

None == [sign |-> "", hex |-> FALSE, chars |-> <<>>]
All1 == (2 ^ W) - 1

----------------------------------------------------------------------------
(* Xfromstr, of a signed or an unsigned type.                              *)

\* The least or the greatest number, for what is beyond it.
Beyond(signed, neg) ==
  [error |-> IF neg THEN "underflow" ELSE "overflow",
   v |-> IF signed THEN IF neg THEN -((All1 \div 2) + 1) ELSE All1 \div 2
         ELSE IF neg THEN 0 ELSE All1]

\* The magnitude so far is tmp; it is watched before it is multiplied, and whether
\* the sum wraps after. A character after that is not looked at.
Scaled(tmp, c, base) ==
  IF c >= base THEN [error |-> "malformed", v |-> 0]
  ELSE IF tmp > (All1 \div base) \/ (((tmp * base) + c) % (2 ^ W)) < (tmp * base)
  THEN [error |-> "beyond", v |-> 0]
  ELSE [error |-> "none", v |-> (tmp * base) + c]
Magnitude(chars, base) ==
  LET m[i \in 0 .. Len(chars)] ==
        IF i = 0 THEN [error |-> "none", v |-> 0]
        ELSE IF m[i - 1].error # "none" THEN m[i - 1]
        ELSE Scaled(m[i - 1].v, chars[i], base)
  IN m[Len(chars)]

Xfromstr(text, signed) ==
  LET neg == text.sign = "-"
      m == Magnitude(text.chars, IF text.hex THEN 16 ELSE 10)
      most == IF signed THEN (All1 \div 2) + (IF neg THEN 1 ELSE 0) ELSE IF neg THEN 0 ELSE All1
  IN IF text.chars = <<>> THEN [error |-> "malformed", v |-> 0]
     ELSE IF m.error = "malformed" THEN m
     ELSE IF m.error = "beyond" \/ m.v > most THEN Beyond(signed, neg)
     ELSE [error |-> "none", v |-> IF neg THEN -m.v ELSE m.v]

----------------------------------------------------------------------------
(* The settings. An entry is a name and a value, the text.                 *)

Signed(name) == Desc[name].type = "int"
Named(entries, text) == {i \in DOMAIN entries : entries[i].text = text}
Number(name, text) == Xfromstr(text, Signed(name)).v

\* ValidateSetting. Of an enumeration, every text is let through.
InBounds(name, text) ==
  /\ Xfromstr(text, Signed(name)).error = "none"
  /\ Desc[name].min # None => Number(name, text) >= Number(name, Desc[name].min)
  /\ Desc[name].max # None => Number(name, text) <= Number(name, Desc[name].max)
ValidateSetting(name, text) ==
  CASE Desc[name].type \in {"int", "uint"} -> InBounds(name, text)
    [] Desc[name].type = "bool" -> text \in {[None EXCEPT !.chars = <<0>>], [None EXCEPT !.chars = <<1>>]}
    [] Desc[name].type = "enum" -> TRUE

\* Merge and Finalize: all settings, with their defaults, in any order std::sort
\* may leave, which is not a stable one.
Sorted(list) == \A i, j \in DOMAIN list : i < j => Hash[list[i].name] <= Hash[list[j].name]
Distinct(list) == \A i, j \in DOMAIN list : i # j => list[i].name # list[j].name
Finalized == {list \in [1 .. Cardinality(Names) -> {[name |-> n, value |-> Desc[n].default] : n \in Names}] :
                Sorted(list) /\ Distinct(list)}

\* FindSetting: from the first entry that has the hash, or a greater one, on, until
\* the hash is another; 0 if there is none of that name.
LowerBound(list, hash) ==
  CHOOSE i \in 1 .. Len(list) + 1 :
    /\ \A j \in 1 .. i - 1 : Hash[list[j].name] < hash
    /\ i <= Len(list) => Hash[list[i].name] >= hash
Scanned(list, i, name) ==
  {j \in i .. Len(list) : \A k \in i .. j : Hash[list[k].name] = Hash[name]}
FindSetting(list, name) ==
  LET found == {j \in Scanned(list, LowerBound(list, Hash[name]), name) : list[j].name = name}
  IN IF found = {} THEN 0 ELSE CHOOSE j \in found : \A k \in found : j <= k

\* GetUI, GetI, and GetEnum below them: 0 for what is not in the enumeration.
GetEnum(name, text) ==
  IF Named(Desc[name].enum, text) = {} THEN 0
  ELSE Desc[name].enum[CHOOSE i \in Named(Desc[name].enum, text) :
                         \A j \in Named(Desc[name].enum, text) : i <= j].number
Get(list, name) ==
  LET e == list[FindSetting(list, name)]
  IN IF Desc[e.name].type = "enum" THEN GetEnum(e.name, e.value) ELSE Number(e.name, e.value)

\* Set, of a setting there is; an unknown name returns false. A text that is not
\* accepted throws, and a game is told if there is one.
Set(name, text) ==
  /\ FindSetting(st.list, name) # 0
  /\ ValidateSetting(name, text)
  /\ LET list == [st.list EXCEPT ![FindSetting(st.list, name)].value = text]
     IN st' = [st EXCEPT !.list = list, !.want[name] = text,
                 !.told = IF st.game /\ name \in Notified THEN [@ EXCEPT ![name] = Get(list, name)] ELSE @]

\* MDFNI_LoadGame, MDFNI_CloseGame: a game that is loaded is told what is set.
LoadGame ==
  /\ ~st.game
  /\ st' = [st EXCEPT !.game = TRUE, !.told = [n \in Notified |-> Get(st.list, n)]]
CloseGame ==
  /\ st.game
  /\ st' = [st EXCEPT !.game = FALSE]

Init == \E list \in Finalized :
          st = [list |-> list, want |-> [n \in Names |-> Desc[n].default], game |-> FALSE,
                told |-> [n \in Notified |-> Get(list, n)]]

Next == \/ \E name \in Names \cup {Unknown}, text \in Texts : Set(name, text)
        \/ LoadGame \/ CloseGame

Spec == Init /\ [][Next]_st

----------------------------------------------------------------------------
\* What a text means, however wide it is: its characters as digits of its base.
Value(chars, base) ==
  LET v[i \in 0 .. Len(chars)] == IF i = 0 THEN 0 ELSE (v[i - 1] * base) + chars[i] IN v[Len(chars)]
Base(text) == IF text.hex THEN 16 ELSE 10
Means(text) == (IF text.sign = "-" THEN -1 ELSE 1) * Value(text.chars, Base(text))
IsNumber(text) == text.chars # <<>> /\ \A i \in DOMAIN text.chars : text.chars[i] < Base(text)

\* A number that fits is translated to itself, one that does not to the nearest
\* that does, and says so.
NumbersTranslate ==
  \A text \in {t \in Texts : IsNumber(t)}, signed \in BOOLEAN :
    LET low == IF signed THEN -((All1 \div 2) + 1) ELSE 0
        high == IF signed THEN All1 \div 2 ELSE All1
        r == Xfromstr(text, signed)
    IN /\ r.error = "none" <=> Means(text) \in low .. high
       /\ r.v = IF Means(text) < low THEN low ELSE IF Means(text) > high THEN high ELSE Means(text)

\* Every setting is found, whatever names share its hash, and holds the last text
\* that was accepted for it; a number that is asked for is in its bounds, an
\* enumerator one of its enumeration, and a game knows the setting of now.
SettingsSound ==
  /\ NumbersTranslate
  /\ \A n \in Names :
       LET i == FindSetting(st.list, n) IN
       /\ i # 0 /\ st.list[i] = [name |-> n, value |-> st.want[n]]
       /\ Desc[n].type \in {"int", "uint"} =>
            /\ Means(st.want[n]) = Get(st.list, n)
            /\ Desc[n].min # None => Get(st.list, n) >= Means(Desc[n].min)
            /\ Desc[n].max # None => Get(st.list, n) <= Means(Desc[n].max)
       /\ Desc[n].type = "bool" => Get(st.list, n) \in {0, 1}
       /\ Desc[n].type = "enum" => Get(st.list, n) \in {Desc[n].enum[k].number : k \in DOMAIN Desc[n].enum}
  /\ FindSetting(st.list, Unknown) = 0
  /\ st.game => \A n \in Notified : st.told[n] = Get(st.list, n)
=============================================================================
