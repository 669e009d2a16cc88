---------------------------- MODULE Startup_proofs ----------------------------
(***************************************************************************)
(* Proofs about command lines and configuration files, for all of them.    *)
(***************************************************************************)
EXTENDS Startup, FiniteSetTheorems, WellFoundedInduction, TLAPS

-----------------------------------------------------------------------------
(***************************************************************************)
(* Numbers.                                                                *)
(***************************************************************************)
\* A set of places has a first one.
LEMMA MinLemma ==
  ASSUME NEW S \in SUBSET Nat, S # {}
  PROVE  Min(S) \in S /\ \A y \in S : Min(S) <= y
<1> DEFINE R == {p \in Nat \X Nat : p[1] < p[2]}
<1>1. OpToRel(<, Nat) = R
  BY DEF OpToRel
<1>2. IsWellFoundedOn(R, Nat)
  BY <1>1, NatLessThanWellFounded
<1>3. \A x, y \in Nat : <<y, x>> \in R <=> y < x
  OBVIOUS
<1> HIDE DEF R
<1>4. PICK x \in S : \A y \in S : ~ (<<y, x>> \in R)
  BY <1>2, WFMin
<1>5. ASSUME NEW y \in S PROVE x <= y
  <2>1. x \in Nat /\ y \in Nat
    OBVIOUS
  <2>2. <<y, x>> \in R <=> y < x
    BY <2>1, <1>3
  <2>3. ~ (<<y, x>> \in R)
    BY <1>4
  <2>4. QED
    BY <2>1, <2>2, <2>3
<1>6. QED
  BY <1>5 DEF Min

\* A set of places none of which is behind n has a last one.
LEMMA MaxLemma ==
  ASSUME NEW n \in Nat, NEW S \in SUBSET (0 .. n), S # {}
  PROVE  Max(S) \in S /\ \A y \in S : Max(S) >= y
<1> DEFINE T == {n - x : x \in S}
<1>1. T \in SUBSET Nat /\ T # {}
  <2>1. \A x \in S : n - x \in Nat
    OBVIOUS
  <2>2. PICK x \in S : TRUE
    OBVIOUS
  <2>3. n - x \in T
    OBVIOUS
  <2>4. QED
    BY <2>1, <2>3
<1>2. Min(T) \in T /\ \A z \in T : Min(T) <= z
  BY <1>1, MinLemma
<1>3. PICK x \in S : Min(T) = n - x
  BY <1>2
<1>4. \A y \in S : n - x <= n - y
  BY <1>2, <1>3
<1>5. \A y \in S : x >= y
  BY <1>4
<1>6. QED
  BY <1>5 DEF Max

\* The last of a set of places is the one that nothing of it is behind.
LEMMA MaxIs ==
  ASSUME NEW n \in Nat, NEW S \in SUBSET (0 .. n), NEW x \in S, \A y \in S : x >= y
  PROVE  Max(S) = x
<1>1. Max(S) \in S /\ \A y \in S : Max(S) >= y
  BY MaxLemma
<1>2. Max(S) >= x /\ x >= Max(S)
  BY <1>1
<1> DEFINE m == Max(S)
<1>3. \A y \in S : y \in Int
  OBVIOUS
<1>4. m \in S
  BY <1>1
<1> HIDE DEF m
<1>5. m >= x /\ x >= m => m = x
  BY <1>3, <1>4
<1>6. QED
  BY <1>2, <1>5 DEF m

-----------------------------------------------------------------------------
(***************************************************************************)
(* What takes the one behind it: a switch its argument, a blank line the   *)
(* next line.  Of a run of them every other one is itself taken.  Those at *)
(* the places free do not take anything.                                   *)
(***************************************************************************)
Odd(free, i) ==
    LET Others == {j \in 1 .. i - 1 : j \in free}
    IN  (i - 1 - Max(Others \cup {0})) % 2 = 1

\* Whether a switch or a blank line is itself taken alternates along a run of them
\* (read_config.c:118-142, 335).
LEMMA OddLemma ==
  ASSUME NEW free
  PROVE  /\ ~Odd(free, 1)
         /\ \A i \in Nat \ {0} : Odd(free, i + 1) <=> i \notin free /\ ~Odd(free, i)
<1> DEFINE Others(i) == {j \in 1 .. i - 1 : j \in free} \cup {0}
<1>1. ASSUME NEW i \in Nat \ {0}
      PROVE  /\ Others(i) \in SUBSET (0 .. i - 1)
             /\ Max(Others(i)) \in 0 .. i - 1 /\ Max(Others(i)) \in Others(i)
             /\ \A j \in Others(i) : Max(Others(i)) >= j
  <2>1. Others(i) \in SUBSET (0 .. i - 1) /\ Others(i) # {} /\ i - 1 \in Nat
    OBVIOUS
  <2> HIDE DEF Others
  <2>2. QED
    BY <2>1, MaxLemma
<1>2. ~Odd(free, 1)
  <2>1. Max(Others(1)) = 0
    <3>1. Max(Others(1)) \in 0 .. 0
      BY <1>1
    <3>2. QED
      BY <3>1
  <2>2. QED
    BY <2>1 DEF Odd
<1>3. ASSUME NEW i \in Nat \ {0}
      PROVE  Odd(free, i + 1) <=> i \notin free /\ ~Odd(free, i)
  <2>1. Odd(free, i) <=> (i - 1 - Max(Others(i))) % 2 = 1
    BY DEF Odd
  <2>2. Odd(free, i + 1) <=> (i - Max(Others(i + 1))) % 2 = 1
    <3>1. i + 1 - 1 = i
      OBVIOUS
    <3>2. QED
      BY <3>1 DEF Odd
  <2>3. i + 1 \in Nat \ {0}
    OBVIOUS
  <2>4. CASE i \in free
    <3>1. i \in Others(i + 1) /\ Others(i + 1) \in SUBSET (0 .. i)
      BY <2>4
    <3>2. \A j \in Others(i + 1) : i >= j
      BY <3>1
    <3> HIDE DEF Others
    <3>3. Max(Others(i + 1)) = i
      BY <3>1, <3>2, MaxIs
    <3>4. QED
      BY <2>2, <2>4, <3>3
  <2>5. CASE i \notin free
    <3>1. Others(i + 1) = Others(i)
      BY <2>5
    <3>2. Max(Others(i)) \in 0 .. i - 1
      BY <1>1
    <3> HIDE DEF Others
    <3>3. (i - Max(Others(i))) % 2 = 1 <=> ~((i - 1 - Max(Others(i))) % 2 = 1)
      BY <3>2
    <3>4. QED
      BY <2>1, <2>2, <2>5, <3>1, <3>3
  <2>6. QED
    BY <2>4, <2>5
<1>4. QED
  BY <1>2, <1>3

\* An argument is the one a switch takes exactly when a switch stands before it
\* that takes one and is not taken itself.
LEMMA TakenLemma ==
  /\ ~IsTaken(1)
  /\ \A i \in Nat \ {0} : IsTaken(i + 1) <=> input.args[i] \in Taking /\ ~IsTaken(i)
<1> DEFINE free == {j \in Nat : input.args[j] \notin Taking}
<1>1. \A i \in Nat \ {0} : IsTaken(i) <=> Odd(free, i)
  <2> SUFFICES ASSUME NEW i \in Nat \ {0} PROVE IsTaken(i) <=> Odd(free, i)
    OBVIOUS
  <2>1. {j \in 1 .. i - 1 : input.args[j] \notin Taking} = {j \in 1 .. i - 1 : j \in free}
    OBVIOUS
  <2> HIDE DEF free
  <2>2. QED
    BY <2>1 DEF IsTaken, Odd
<1>2. \A i \in Nat \ {0} : i \in free <=> input.args[i] \notin Taking
  OBVIOUS
<1> HIDE DEF free
<1>3. \A i \in Nat \ {0} : i + 1 \in Nat \ {0}
  OBVIOUS
<1>4. QED
  BY <1>1, <1>2, <1>3, OddLemma

\* A line is swallowed exactly when a blank line stands before it that is not
\* swallowed itself.
LEMMA SwallowedLemma ==
  ASSUME NEW lines
  PROVE  /\ ~Swallowed(lines, 1)
         /\ \A i \in Nat \ {0} :
              Swallowed(lines, i + 1) <=> lines[i].form = "blank" /\ ~Swallowed(lines, i)
<1> DEFINE free == {j \in Nat : lines[j].form # "blank"}
<1>1. \A i \in Nat \ {0} : Swallowed(lines, i) <=> Odd(free, i)
  <2> SUFFICES ASSUME NEW i \in Nat \ {0} PROVE Swallowed(lines, i) <=> Odd(free, i)
    OBVIOUS
  <2>1. {j \in 1 .. i - 1 : lines[j].form # "blank"} = {j \in 1 .. i - 1 : j \in free}
    OBVIOUS
  <2> HIDE DEF free
  <2>2. QED
    BY <2>1 DEF Swallowed, Odd
<1>2. \A i \in Nat \ {0} : i \in free <=> lines[i].form # "blank"
  OBVIOUS
<1> HIDE DEF free
<1>3. \A i \in Nat \ {0} : i + 1 \in Nat \ {0}
  OBVIOUS
<1>4. QED
  BY <1>1, <1>2, <1>3, OddLemma

-----------------------------------------------------------------------------
(***************************************************************************)
(* The last line of an option that counts, as the lines are read one after *)
(* the other.                                                              *)
(***************************************************************************)
Before(options, lines, o, otherwise, k) ==
    LET S == {i \in Counting(options, lines, o) : i < k}
    IN  IF S = {} THEN otherwise ELSE lines[Max(S)].value

\* Before the first line nothing has been said.
LEMMA BeforeFirst ==
  ASSUME NEW options, NEW lines \in Seq(Line), NEW o, NEW otherwise
  PROVE  Before(options, lines, o, otherwise, 1) = otherwise
<1>1. {i \in Counting(options, lines, o) : i < 1} = {}
  BY DEF Counting
<1>2. QED
  BY <1>1 DEF Before

\* A line that does not count changes nothing.
LEMMA BeforeSame ==
  ASSUME NEW options, NEW lines \in Seq(Line), NEW o, NEW otherwise,
         NEW k \in Nat, k \notin Counting(options, lines, o)
  PROVE  Before(options, lines, o, otherwise, k + 1) = Before(options, lines, o, otherwise, k)
<1>1. Counting(options, lines, o) \subseteq Nat
  BY DEF Counting
<1>2. {i \in Counting(options, lines, o) : i < k + 1} = {i \in Counting(options, lines, o) : i < k}
  <2>1. \A i \in Counting(options, lines, o) : i < k + 1 <=> i < k
    BY <1>1
  <2>2. QED
    BY <2>1
<1>3. QED
  BY <1>2 DEF Before

\* A line that counts is the last word so far.
LEMMA BeforeNew ==
  ASSUME NEW options, NEW lines \in Seq(Line), NEW o, NEW otherwise,
         NEW k \in Counting(options, lines, o)
  PROVE  Before(options, lines, o, otherwise, k + 1) = lines[k].value
<1> DEFINE S == {i \in Counting(options, lines, o) : i < k + 1}
<1>1. Counting(options, lines, o) \subseteq Nat /\ k \in Nat
  BY DEF Counting
<1>2. k \in S /\ S \in SUBSET (0 .. k) /\ \A y \in S : k >= y
  BY <1>1
<1>3. S # {}
  BY <1>2
<1> HIDE DEF S
<1>4. Max(S) = k
  BY <1>1, <1>2, MaxIs
<1>5. QED
  BY <1>3, <1>4 DEF Before, S

\* What has been said when no line is left that counts.
LEMMA BeforeEnd ==
  ASSUME NEW options, NEW lines \in Seq(Line), NEW o, NEW otherwise,
         NEW k \in Nat \ {0},
         k > Len(lines) \/ (k = Len(lines) /\ lines[k].form = "blank")
  PROVE  Before(options, lines, o, otherwise, k) = Written(options, lines, o, otherwise)
<1>1. {i \in Counting(options, lines, o) : i < k} = Counting(options, lines, o)
  <2>1. \A i \in Counting(options, lines, o) :
            i \in Nat /\ i <= Len(lines) /\ lines[i].form = "option"
    BY DEF Counting
  <2>2. Len(lines) \in Nat
    OBVIOUS
  <2>3. \A i \in Counting(options, lines, o) : i < k
    <3> SUFFICES ASSUME NEW i \in Counting(options, lines, o) PROVE i < k
      OBVIOUS
    <3>1. i # k
      BY <2>1, <2>2
    <3>2. QED
      BY <2>1, <2>2, <3>1
  <2>4. QED
    BY <2>3
<1>2. QED
  BY <1>1 DEF Before, Written, LastOf

\* Reading a line that no blank line swallows: an option that takes its value is
\* the last word, anything else says nothing.
LEMMA ReadLine ==
  ASSUME NEW options, NEW lines \in Seq(Line), NEW otherwise,
         NEW k \in DOMAIN lines, ~Swallowed(lines, k), lines[k].form # "blank"
  PROVE  /\ ~Swallowed(lines, k + 1)
         /\ \A o : Before(options, lines, o, otherwise, k + 1) =
              IF /\ lines[k].form = "option" /\ lines[k].name = o
                 /\ Takes(options, o, lines[k].value)
              THEN lines[k].value ELSE Before(options, lines, o, otherwise, k)
<1>1. k \in Nat \ {0}
  OBVIOUS
<1>2. ~Swallowed(lines, k + 1)
  BY <1>1, SwallowedLemma
<1>3. ASSUME NEW o
      PROVE  Before(options, lines, o, otherwise, k + 1) =
              IF /\ lines[k].form = "option" /\ lines[k].name = o
                 /\ Takes(options, o, lines[k].value)
              THEN lines[k].value ELSE Before(options, lines, o, otherwise, k)
  <2>1. k \in Counting(options, lines, o) <=>
            /\ lines[k].form = "option" /\ lines[k].name = o
            /\ Takes(options, o, lines[k].value)
    BY DEF Counting
  <2>2. CASE k \in Counting(options, lines, o)
    BY <2>1, <2>2, BeforeNew
  <2>3. CASE k \notin Counting(options, lines, o)
    BY <1>1, <2>1, <2>3, BeforeSame
  <2>4. QED
    BY <2>2, <2>3
<1>4. QED
  BY <1>2, <1>3

\* Reading a blank line together with the next one: both say nothing.
LEMMA ReadBlank ==
  ASSUME NEW options, NEW lines \in Seq(Line), NEW otherwise,
         NEW k \in DOMAIN lines, k < Len(lines),
         ~Swallowed(lines, k), lines[k].form = "blank"
  PROVE  /\ ~Swallowed(lines, k + 2)
         /\ \A o : Before(options, lines, o, otherwise, k + 2) =
                     Before(options, lines, o, otherwise, k)
<1>1. k \in Nat \ {0} /\ k + 1 \in Nat \ {0} /\ k + 1 + 1 = k + 2
  OBVIOUS
<1>2. Swallowed(lines, k + 1)
  BY <1>1, SwallowedLemma
<1>3. ~Swallowed(lines, k + 2)
  <2>1. Swallowed(lines, k + 1 + 1) <=> lines[k + 1].form = "blank" /\ ~Swallowed(lines, k + 1)
    BY <1>1, SwallowedLemma
  <2>2. QED
    BY <1>1, <1>2, <2>1
<1>4. ASSUME NEW o
      PROVE  Before(options, lines, o, otherwise, k + 2) = Before(options, lines, o, otherwise, k)
  <2>1. k \notin Counting(options, lines, o) /\ k + 1 \notin Counting(options, lines, o)
    BY <1>2 DEF Counting
  <2>2. Before(options, lines, o, otherwise, k + 1) = Before(options, lines, o, otherwise, k)
    BY <1>1, <2>1, BeforeSame
  <2>3. Before(options, lines, o, otherwise, k + 1 + 1) = Before(options, lines, o, otherwise, k + 1)
    BY <1>1, <2>1, BeforeSame
  <2>4. QED
    BY <1>1, <2>2, <2>3
<1>5. QED
  BY <1>3, <1>4

-----------------------------------------------------------------------------
(***************************************************************************)
(* Types.                                                                  *)
(***************************************************************************)
\* Where a program is, and what it can have read there.
PlaceOK ==
    /\ input \in Inputs
    /\ settings["config_file"] \in {"default", "argument"}
    /\ pc \in {"section", "scan", "device"} => File.open = "ok"
    /\ pc = "section" => OfKind(SectionOf(input.program)) # {}
    /\ pc = "device" => found \in DeviceSections
    /\ pc \notin {"section", "device", "crashed"} => line = 1
    /\ pc \in {"arguments", "open", "section"} => found = 0 /\ parsed = {} /\ devices = {}

TypeInv == TypeOK /\ PlaceOK

Own == OptionsOf(input.program)

\* No option of a file is the name of the configuration file.
LEMMA OptionsLemma ==
  ASSUME NEW p \in Programs
  PROVE  "config_file" \notin All(OptionsOf(p))
BY DEF Programs, All, OptionsOf, ServerOptions, ClientOptions, PeerOptions

\* What the files contain.
LEMMA FileLemma ==
  ASSUME PlaceOK, File.open = "ok"
  PROVE  /\ Sections \in Seq(Section)
         /\ \A i \in DOMAIN Sections : i \in Nat \ {0} /\ Sections[i].length \in Nat
                                       /\ Sections[i].lines \in Seq(Line)
         /\ \A kind : OfKind(kind) # {} => Min(OfKind(kind)) \in OfKind(kind)
<1>1. Sections \in Seq(Section)
  BY InputAssumption DEF PlaceOK, File, Sections
<1>2. \A i \in DOMAIN Sections : i \in Nat \ {0} /\ Sections[i].length \in Nat
                                 /\ Sections[i].lines \in Seq(Line)
  <2> SUFFICES ASSUME NEW i \in DOMAIN Sections
               PROVE  i \in Nat \ {0} /\ Sections[i].length \in Nat /\ Sections[i].lines \in Seq(Line)
    OBVIOUS
  <2>1. i \in 1 .. Len(Sections) /\ Len(Sections) \in Nat
    BY <1>1
  <2>2. Sections[i] \in Section
    BY <1>1
  <2>3. QED
    BY <2>1, <2>2 DEF Section
<1>3. ASSUME NEW kind, OfKind(kind) # {} PROVE Min(OfKind(kind)) \in OfKind(kind)
  <2>1. OfKind(kind) \in SUBSET Nat
    BY <1>2 DEF OfKind
  <2>2. QED
    BY <1>3, <2>1, MinLemma
<1>4. QED
  BY <1>1, <1>2, <1>3

\* As long as the name of the file stays, the file is the same.
LEMMA SameFile ==
  ASSUME input' = input, settings'["config_file"] = settings["config_file"]
  PROVE  /\ File' = File /\ Sections' = Sections
         /\ \A kind : OfKind(kind)' = OfKind(kind)
         /\ DeviceSections' = DeviceSections
         /\ OwnSection' = OwnSection
<1>1. File' = File
  BY DEF File
<1>2. Sections' = Sections
  BY <1>1 DEF Sections
<1>3. \A kind : OfKind(kind)' = OfKind(kind)
  BY <1>2 DEF OfKind
<1>4. DeviceSections' = DeviceSections /\ OwnSection' = OwnSection
  BY <1>3 DEF DeviceSections, OwnSection
<1>5. QED
  BY <1>1, <1>2, <1>3, <1>4

\* The lines that a loop is reading.
LEMMA LinesLemma ==
  ASSUME TypeInv, pc \in {"section", "device"}
  PROVE  /\ Lines \in Seq(Line)
         /\ Lines = IF pc = "device" THEN Sections[found].lines ELSE Sections[OwnSection].lines
         /\ OwnLines = Lines \/ pc = "device"
<1>1. File.open = "ok" /\ PlaceOK
  BY DEF TypeInv, PlaceOK
<1>2. CASE pc = "device"
  <2>1. found \in DOMAIN Sections
    BY <1>2 DEF TypeInv, PlaceOK, DeviceSections, OfKind
  <2>2. QED
    BY <1>1, <1>2, <2>1, FileLemma DEF Lines
<1>3. CASE pc = "section"
  <2>1. OfKind(SectionOf(input.program)) # {}
    BY <1>1, <1>3 DEF PlaceOK
  <2>2. OwnSection \in OfKind(SectionOf(input.program))
    BY <1>1, <2>1, FileLemma DEF OwnSection
  <2>3. OwnSection \in DOMAIN Sections
    BY <2>2 DEF OfKind
  <2>4. Sections[OwnSection].lines \in Seq(Line)
    BY <1>1, <2>3, FileLemma
  <2>5. QED
    BY <1>1, <1>3, <2>1, <2>4 DEF Lines, OwnLines
<1>4. QED
  BY <1>2, <1>3

\* What a line can make of the settings leaves the file's name alone.
LEMMA EffectLemma ==
  ASSUME TypeInv, NEW l, l.form \in {"option", "bare", "noise"},
         NEW conf \in Effect(Own, settings, l)
  PROVE  DOMAIN conf = DOMAIN settings /\ conf["config_file"] = settings["config_file"]
<1>1. "config_file" \notin All(Own)
  BY OptionsLemma DEF TypeInv, TypeOK, Own
<1>2. \A o, v : Takes(Own, o, v) => o \in All(Own)
  BY DEF Takes, All
<1>3. \A o, v : /\ DOMAIN With(Own, settings, o, v) = DOMAIN settings
                /\ With(Own, settings, o, v)["config_file"] = settings["config_file"]
  <2> SUFFICES ASSUME NEW o, NEW v
               PROVE  /\ DOMAIN With(Own, settings, o, v) = DOMAIN settings
                      /\ With(Own, settings, o, v)["config_file"] = settings["config_file"]
    OBVIOUS
  <2>1. "config_file" \in DOMAIN settings
    BY DEF TypeInv, TypeOK
  <2>2. CASE Takes(Own, o, v)
    <3>1. o # "config_file"
      BY <1>1, <1>2, <2>2
    <3>2. QED
      BY <2>1, <2>2, <3>1 DEF With
  <2>3. CASE ~Takes(Own, o, v)
    BY <2>3 DEF With
  <2>4. QED
    BY <2>2, <2>3
<1>4. \A o \in All(Own) :
         LET g == [settings EXCEPT ![o] = "garbage"]
         IN  DOMAIN g = DOMAIN settings /\ g["config_file"] = settings["config_file"]
  BY <1>1
<1>5. CASE l.form = "option"
  BY <1>3, <1>5 DEF Effect
<1>6. CASE l.form = "bare"
  BY <1>6 DEF Effect
<1>7. CASE l.form = "noise" /\ value # None
  BY <1>3, <1>7 DEF Effect
<1>8. CASE l.form = "noise" /\ value = None
  <2>1. Effect(Own, settings, l) =
            {settings} \cup {[settings EXCEPT ![o] = "garbage"] : o \in All(Own) \cap {name}}
    BY <1>8 DEF Effect
  <2>2. CASE conf = settings
    BY <2>2
  <2>3. CASE conf # settings
    <3>1. PICK o \in All(Own) : conf = [settings EXCEPT ![o] = "garbage"]
      BY <2>1, <2>3
    <3>2. QED
      BY <1>4, <3>1
  <2>4. QED
    BY <2>2, <2>3
<1>9. QED
  BY <1>5, <1>6, <1>7, <1>8 DEF Effect

\* The line that is read, and where reading goes on.
LEMMA LineReadLemma ==
  ASSUME TypeInv, pc \in {"section", "device"}, ~AtEnd
  PROVE  /\ line \in DOMAIN Lines /\ Lines[line] \in Line
         /\ Blank(line) => /\ line < Len(Lines) /\ line + 1 \in DOMAIN Lines
                           /\ Lines[line + 1] \in Line
                           /\ LineRead = Glued(Lines[line + 1])
         /\ ~Blank(line) => LineRead = Lines[line]
         /\ LineRead.form \in {"option", "bare", "noise"}
         /\ (IF Blank(line) THEN line + 2 ELSE line + 1) \in 1 .. Len(Lines) + 1
<1>1. Lines \in Seq(Line) /\ Len(Lines) \in Nat /\ line \in 1 .. Len(Lines) + 1
  BY LinesLemma DEF TypeInv, TypeOK
<1>2. line \in DOMAIN Lines /\ Lines[line] \in Line
  BY <1>1 DEF AtEnd
<1>3. CASE Blank(line)
  <2>1. line < Len(Lines) /\ line + 1 \in 1 .. Len(Lines)
    BY <1>1, <1>2, <1>3 DEF AtEnd
  <2>2. Lines[line + 1] \in Line
    BY <1>1, <2>1
  <2>3. Glued(Lines[line + 1]).form \in {"option", "bare", "noise"}
    <3> DEFINE l == Lines[line + 1]
    <3>1. l.form \in {"option", "bare", "noise", "blank"}
      BY <2>2 DEF Line
    <3>2. CASE l.form \in {"noise", "blank"}
      BY <3>2 DEF Glued, Noise
    <3>3. CASE l.form \in {"bare", "option"}
      <4>1. DOMAIN l = {"form", "name", "value"} \/ DOMAIN l = {"form", "name"} \/ DOMAIN l = {"form"}
        BY <2>2 DEF Line
      <4>2. [l EXCEPT !.name = "\n"].form = l.form
        BY <4>1
      <4>3. QED
        BY <3>3, <4>2 DEF Glued
    <3>4. QED
      BY <3>1, <3>2, <3>3
  <2>4. QED
    BY <1>1, <1>2, <1>3, <2>1, <2>2, <2>3 DEF LineRead
<1>4. CASE ~Blank(line)
  <2>1. Lines[line].form \in {"option", "bare", "noise"}
    BY <1>2, <1>4 DEF Line, Blank
  <2>2. QED
    BY <1>1, <1>2, <1>4, <2>1 DEF LineRead
<1>5. QED
  BY <1>3, <1>4

\* The argument read leaves everything typed that it may change.
LEMMA ArgumentTyped ==
  ASSUME TypeInv, pc = "arguments",
         arg' \in 1 .. Len(input.args) + 1, pc' \in {"arguments", "failed", "crashed"},
         DOMAIN settings' = DOMAIN settings,
         settings'["config_file"] \in {"default", "argument"},
         command' \in {"UP", "DOWN", None}, device' \in {"word", None},
         UNCHANGED <<input, parsing, search, sent>>
  PROVE  TypeInv'
<1>1. UNCHANGED <<input, line, name, value, cur_pos, found, parsed, draft, devices, sent>>
  BY DEF parsing, search
<1>2. found = 0 /\ parsed = {} /\ devices = {} /\ line = 1
  BY DEF TypeInv, PlaceOK
<1>3. TypeOK'
  BY <1>1, <1>2 DEF TypeInv, TypeOK, Final
<1>4. PlaceOK'
  BY <1>1, <1>2 DEF TypeInv, PlaceOK
<1>5. QED
  BY <1>3, <1>4 DEF TypeInv

\* A switch, with what it takes, sets a variable there is.
LEMMA SwitchTyped ==
  ASSUME TypeInv, pc = "arguments", arg <= Len(input.args), Len(input.args) \in Nat,
         NEW o \in DOMAIN settings, NEW v, o = "config_file" => v = "argument",
         SwitchSets(o, v, 0) \/ (arg < Len(input.args) /\ SwitchSets(o, v, 1)),
         UNCHANGED <<input, parsing, search>>
  PROVE  TypeInv'
<1>1. arg \in Nat \ {0}
  BY DEF TypeInv, TypeOK
<1>2. arg' \in 1 .. Len(input.args) + 1
  BY <1>1 DEF SwitchSets
<1>3. settings' = [settings EXCEPT ![o] = v] /\ UNCHANGED <<pc, command, device, sent>>
  BY DEF SwitchSets, report
<1>4. DOMAIN settings' = DOMAIN settings
  BY <1>3
<1>5. settings'["config_file"] \in {"default", "argument"}
  BY <1>3 DEF TypeInv, TypeOK, PlaceOK
<1>6. command' \in {"UP", "DOWN", None} /\ device' \in {"word", None}
  BY <1>3 DEF TypeInv, TypeOK
<1>7. QED
  BY <1>2, <1>3, <1>4, <1>5, <1>6, ArgumentTyped

\* A switch may also find that nothing stands behind it.
LEMMA TakesTyped ==
  ASSUME TypeInv, pc = "arguments", arg <= Len(input.args), Len(input.args) \in Nat,
         NEW o \in DOMAIN settings, SwitchTakes(o),
         UNCHANGED <<input, parsing, search>>
  PROVE  TypeInv'
<1>1. CASE arg < Len(input.args)
  BY <1>1, SwitchTyped DEF SwitchTakes
<1>2. CASE ~(arg < Len(input.args))
  <2>1. pc' = "crashed" /\ UNCHANGED <<arg, settings, command, device, sent>>
    BY <1>2 DEF SwitchTakes, Crash, report
  <2>2. /\ arg \in 1 .. Len(input.args) + 1 /\ settings["config_file"] \in {"default", "argument"}
        /\ command \in {"UP", "DOWN", None} /\ device \in {"word", None}
    BY DEF TypeInv, TypeOK, PlaceOK
  <2>3. QED
    BY <2>1, <2>2, ArgumentTyped
<1>3. QED
  BY <1>1, <1>2

\* The arguments are read one after the other.
LEMMA ArgumentsTyped ==
  ASSUME TypeInv, ServerArgument \/ ClientArgument \/ PeerArgument
  PROVE  TypeInv'
<1>1. /\ pc = "arguments" /\ arg <= Len(input.args) /\ Len(input.args) \in Nat
      /\ arg \in 1 .. Len(input.args) + 1
      /\ UNCHANGED <<input, parsing, search>>
  BY InputAssumption DEF ServerArgument, ClientArgument, PeerArgument, Reading, TypeInv, TypeOK, PlaceOK
<1>2. /\ DOMAIN settings = All(Own) \cup {"config_file"}
      /\ settings["config_file"] \in {"default", "argument"}
      /\ command \in {"UP", "DOWN", None} /\ device \in {"word", None}
  BY DEF TypeInv, TypeOK, PlaceOK, Own
<1>3. ASSUME Ignored PROVE TypeInv'
  <2>1. arg' \in 1 .. Len(input.args) + 1 /\ UNCHANGED <<pc, settings, command, device, sent>>
    BY <1>1, <1>3 DEF Ignored, report
  <2>2. QED
    BY <1>1, <1>2, <2>1, ArgumentTyped
<1>4. CASE ServerArgument
  <2>1. {"fork", "debug", "poll_time", "config_file"} \subseteq DOMAIN settings
    BY <1>2, <1>4 DEF ServerArgument, Reading, Own, OptionsOf, ServerOptions, All
  <2>2. CASE Given = "-f" /\ SwitchSets("fork", "FALSE", 0)
    BY <1>1, <2>1, <2>2, SwitchTyped
  <2>3. CASE Given = "-d" /\ SwitchSets("debug", "TRUE", 0)
    BY <1>1, <2>1, <2>3, SwitchTyped
  <2>4. CASE SwitchTakes("config_file") \/ SwitchTakes("poll_time")
    BY <1>1, <2>1, <2>4, TakesTyped
  <2>5. QED
    BY <1>3, <1>4, <2>2, <2>3, <2>4 DEF ServerArgument
<1>5. CASE ClientArgument
  <2>1. {"debug", "config_file"} \subseteq DOMAIN settings
    BY <1>2, <1>5 DEF ClientArgument, Reading, Own, OptionsOf, ClientOptions, All
  <2>2. CASE Given = "-d" /\ SwitchSets("debug", "TRUE", 0)
    BY <1>1, <2>1, <2>2, SwitchTyped
  <2>3. CASE SwitchTakes("config_file")
    BY <1>1, <2>1, <2>3, TakesTyped
  <2>4. QED
    BY <1>3, <1>5, <2>2, <2>3 DEF ClientArgument
<1>6. CASE PeerArgument
  <2>1. {"debug", "config_file"} \subseteq DOMAIN settings
    BY <1>2, <1>6 DEF PeerArgument, Reading, Own, OptionsOf, PeerOptions, All
  <2>2. CASE Given = "-d" /\ SwitchSets("debug", "TRUE", 0)
    BY <1>1, <2>1, <2>2, SwitchTyped
  <2>3. CASE SwitchTakes("config_file")
    BY <1>1, <2>1, <2>3, TakesTyped
  <2>4. ASSUME NEW c \in {"UP", "DOWN"}, PeerCommand(c), UNCHANGED <<settings, device, sent>>
        PROVE  TypeInv'
    <3>1. arg' \in 1 .. Len(input.args) + 1 /\ pc' \in {"arguments", "failed"}
          /\ command' \in {"UP", "DOWN", None}
      BY <1>1, <1>2, <2>4 DEF PeerCommand
    <3>2. QED
      BY <1>1, <1>2, <2>4, <3>1, ArgumentTyped
  <2>5. ASSUME device' = "word", arg' = arg + 1, UNCHANGED <<pc, settings, command, sent>>
        PROVE  TypeInv'
    <3>1. arg' \in 1 .. Len(input.args) + 1
      BY <1>1, <2>5
    <3>2. QED
      BY <1>1, <1>2, <2>5, <3>1, ArgumentTyped
  <2>6. QED
    BY <1>3, <1>6, <2>2, <2>3, <2>4, <2>5 DEF PeerArgument
<1>7. QED
  BY <1>4, <1>5, <1>6

\* Every step goes to a place there is.
LEMMA TypeStep == TypeInv /\ [Next]_vars => TypeInv'
<1> SUFFICES ASSUME TypeInv, [Next]_vars PROVE TypeInv'
  OBVIOUS
<1>1. CASE ServerArgument \/ ClientArgument \/ PeerArgument
  BY <1>1, ArgumentsTyped
<1>2. ASSUME input' = input, settings'["config_file"] = settings["config_file"]
      PROVE  /\ DeviceSections' = DeviceSections /\ File' = File /\ Sections' = Sections
             /\ OwnSection' = OwnSection
             /\ OfKind(SectionOf(input.program))' = OfKind(SectionOf(input.program))
  <2>1. /\ DeviceSections' = DeviceSections /\ File' = File /\ Sections' = Sections
        /\ OwnSection' = OwnSection
    BY <1>2, SameFile
  <2>2. OfKind(SectionOf(input.program))' = OfKind(SectionOf(input.program))
    BY <1>2, <2>1 DEF OfKind
  <2>3. QED
    BY <2>1, <2>2
<1>3. /\ input.program \in Programs /\ Len(input.args) \in Nat
      /\ \A p \in Programs : After(p) \in {"scan", "ready"}
  BY InputAssumption DEF TypeInv, TypeOK, PlaceOK, After
<1>4. CASE ArgumentsRead
  <2>1. /\ pc = "arguments" /\ pc' \in {"failed", "open"}
        /\ UNCHANGED <<input, arg, settings, command, device, sent, line, name, value,
                       cur_pos, found, parsed, draft, devices>>
    BY <1>4 DEF ArgumentsRead, report, parsing, search
  <2>2. QED
    BY <1>2, <2>1 DEF TypeInv, TypeOK, PlaceOK, Final
<1>5. ASSUME NEW p \in Programs, Open(p) PROVE TypeInv'
  <2>1. /\ pc = "open"
        /\ UNCHANGED <<input, arg, settings, command, device, sent, line, name, value,
                       cur_pos, found, parsed, draft, devices>>
        /\ p = input.program
    BY <1>5 DEF Open, ConfigOnly, report, parsing, search
  <2>2. File.open \in {"missing", "error", "ok"}
    BY InputAssumption DEF File, TypeInv, PlaceOK
  <2>3. /\ pc' \in {"ready", "failed", "section", "scan"}
        /\ pc' = "section" => File.open = "ok" /\ OfKind(SectionOf(input.program)) # {}
        /\ pc' = "scan" => File.open = "ok"
    BY <1>3, <1>5, <2>1, <2>2 DEF Open
  <2>4. line = 1 /\ found = 0 /\ parsed = {} /\ devices = {}
    BY <2>1 DEF TypeInv, PlaceOK
  <2>5. PlaceOK'
    BY <1>2, <2>1, <2>3, <2>4 DEF TypeInv, PlaceOK
  <2>6. ASSUME pc' = "section" PROVE Lines' \in Seq(Line)
    <3>1. Lines' = Sections[OwnSection].lines
      BY <1>2, <2>1, <2>6 DEF Lines
    <3>2. OwnSection \in DOMAIN Sections
      BY <2>3, <2>6, FileLemma DEF OwnSection, OfKind, TypeInv
    <3>3. QED
      BY <2>3, <2>6, <3>1, <3>2, FileLemma DEF TypeInv
  <2>7. pc' = "section" => line' \in 1 .. Len(Lines') + 1
    BY <2>1, <2>4, <2>6
  <2>8. TypeOK'
    BY <1>2, <2>1, <2>3, <2>4, <2>7 DEF TypeInv, TypeOK, Final
  <2>9. QED
    BY <2>5, <2>8 DEF TypeInv
<1>6. ASSUME NEW p \in Programs, SectionLine(p) PROVE TypeInv'
  <2>1. /\ pc = "section" /\ ~AtEnd /\ p = input.program
        /\ UNCHANGED <<input, arg, command, device, sent, cur_pos, found, parsed, draft, devices>>
    BY <1>6 DEF SectionLine, ConfigOnly, report, search
  <2>2. CASE Unset(LineRead) /\ Crash(<<settings, parsing>>)
    <3>1. pc' = "crashed" /\ UNCHANGED <<settings, line, name, value>>
      BY <2>2 DEF Crash, parsing
    <3>2. QED
      BY <1>2, <2>1, <3>1 DEF TypeInv, TypeOK, PlaceOK, Final
  <2>3. CASE /\ settings' \in Effect(OptionsOf(p), settings, LineRead)
             /\ line' = IF Blank(line) THEN line + 2 ELSE line + 1
             /\ UNCHANGED pc
    <3>1. /\ DOMAIN settings' = DOMAIN settings
          /\ settings'["config_file"] = settings["config_file"]
      <4>1. LineRead.form \in {"option", "bare", "noise"}
        BY <2>1, LineReadLemma
      <4>2. settings' \in Effect(Own, settings, LineRead)
        BY <2>1, <2>3 DEF Own
      <4>3. QED
        BY <4>1, <4>2, EffectLemma
    <3>2. Lines' = Lines
      BY <1>2, <2>1, <2>3, <3>1 DEF Lines
    <3>3. line' \in 1 .. Len(Lines) + 1
      BY <2>1, <2>3, LineReadLemma
    <3>4. PlaceOK'
      BY <1>2, <2>1, <2>3, <3>1 DEF TypeInv, PlaceOK
    <3>5. TypeOK'
      BY <1>2, <2>1, <2>3, <3>1, <3>2, <3>3 DEF TypeInv, TypeOK, Final
    <3>6. QED
      BY <3>4, <3>5 DEF TypeInv
  <2>4. QED
    BY <1>6, <2>2, <2>3 DEF SectionLine
<1>7. CASE SectionEnds
  <2>1. /\ pc = "section" /\ line' = 1 /\ pc' \in {"scan", "ready", "crashed"}
        /\ UNCHANGED <<input, arg, command, device, sent, cur_pos, found, parsed, draft, devices>>
        /\ \/ UNCHANGED settings
           \/ settings' \in Effect(Own, settings, Noise)
    BY <1>3, <1>7 DEF SectionEnds, ConfigOnly, Crash, report, search, Own
  <2>2. /\ DOMAIN settings' = DOMAIN settings
        /\ settings'["config_file"] = settings["config_file"]
    <3>1. Noise.form \in {"option", "bare", "noise"}
      BY DEF Noise
    <3>2. CASE settings' \in Effect(Own, settings, Noise)
      BY <3>1, <3>2, EffectLemma
    <3>3. QED
      BY <2>1, <3>2
  <2>3. PlaceOK'
    BY <1>2, <2>1, <2>2 DEF TypeInv, PlaceOK
  <2>4. TypeOK'
    BY <1>2, <2>1, <2>2 DEF TypeInv, TypeOK, Final
  <2>5. QED
    BY <2>3, <2>4 DEF TypeInv
<1>8. CASE NextSection
  <2>1. /\ pc = "scan" /\ pc' = "device" /\ Following(cur_pos) # {}
        /\ found' = Min(Following(cur_pos))
        /\ cur_pos' \in {-1, Sections[found'].length + 1}
        /\ draft' = Defaults(DeviceOptions)
        /\ UNCHANGED <<input, arg, settings, command, device, sent, line, name, value, parsed, devices>>
    BY <1>8 DEF NextSection, ConfigOnly, report, parsing
  <2>2. File.open = "ok" /\ line = 1
    BY <2>1 DEF TypeInv, PlaceOK
  <2>3. found' \in DeviceSections
    <3>1. DeviceSections \in SUBSET Nat
      BY <2>2, FileLemma DEF TypeInv, DeviceSections, OfKind
    <3>2. Following(cur_pos) \in SUBSET Nat /\ Following(cur_pos) \subseteq DeviceSections
      BY <3>1 DEF Following
    <3>3. QED
      BY <2>1, <3>2, MinLemma
  <2>4. /\ found' \in DOMAIN Sections /\ Sections[found'].length \in Nat
        /\ Sections[found'].lines \in Seq(Line)
    <3>1. found' \in DOMAIN Sections
      BY <2>3 DEF DeviceSections, OfKind
    <3>2. QED
      BY <2>2, <3>1, FileLemma DEF TypeInv
  <2>5. Lines' = Sections[found'].lines
    BY <1>2, <2>1 DEF Lines
  <2>6. line' \in 1 .. Len(Lines') + 1
    BY <2>1, <2>2, <2>4, <2>5
  <2>7. PlaceOK'
    BY <1>2, <2>1, <2>2, <2>3 DEF TypeInv, PlaceOK
  <2>8. cur_pos' >= -1
    BY <2>1, <2>4
  <2>9. DOMAIN draft' = All(DeviceOptions)
    BY <2>1 DEF Defaults
  <2>10. TypeOK'
    BY <1>2, <2>1, <2>2, <2>3, <2>6, <2>8, <2>9 DEF TypeInv, TypeOK, Final
  <2>11. QED
    BY <2>7, <2>10 DEF TypeInv
<1>9. CASE NoMoreSections
  <2>1. /\ pc = "scan" /\ pc' = "ready" /\ cur_pos' = 0 /\ found' = 0
        /\ UNCHANGED <<input, arg, settings, command, device, sent, line, name, value,
                       parsed, draft, devices>>
    BY <1>9 DEF NoMoreSections, ConfigOnly, report, parsing
  <2>2. QED
    BY <1>2, <2>1 DEF TypeInv, TypeOK, PlaceOK, Final
<1>10. CASE DeviceLine
  <2>1. /\ pc = "device" /\ ~AtEnd
        /\ UNCHANGED <<input, arg, settings, command, device, sent, name, value, cur_pos, found,
                       parsed, devices>>
    BY <1>10 DEF DeviceLine, ConfigOnly, report
  <2>2. CASE Crash(<<draft, line>>)
    <3>1. pc' = "crashed" /\ UNCHANGED <<draft, line>>
      BY <2>2 DEF Crash
    <3>2. QED
      BY <1>2, <2>1, <3>1 DEF TypeInv, TypeOK, PlaceOK, Final
  <2>3. CASE /\ draft' = IF LineRead.form = "option"
                         THEN With(DeviceOptions, draft, LineRead.name, LineRead.value)
                         ELSE draft
             /\ line' = IF Blank(line) THEN line + 2 ELSE line + 1
             /\ UNCHANGED pc
    <3>1. Lines' = Lines
      BY <1>2, <2>1, <2>3 DEF Lines
    <3>2. line' \in 1 .. Len(Lines) + 1
      BY <2>1, <2>3, LineReadLemma
    <3>3. DOMAIN draft' = DOMAIN draft
      BY <2>3 DEF With
    <3>4. PlaceOK'
      BY <1>2, <2>1, <2>3 DEF TypeInv, PlaceOK
    <3>5. TypeOK'
      BY <1>2, <2>1, <2>3, <3>1, <3>2, <3>3 DEF TypeInv, TypeOK, Final
    <3>6. QED
      BY <3>4, <3>5 DEF TypeInv
  <2>4. QED
    BY <1>10, <2>2, <2>3 DEF DeviceLine
<1>11. CASE DeviceEnds
  <2>1. /\ pc = "device" /\ pc' \in {"scan", "crashed"} /\ line' = 1
        /\ \/ UNCHANGED <<parsed, devices>>
           \/ devices' = devices
           \/ devices' = AddDevice(devices, draft)
        /\ UNCHANGED <<input, arg, settings, command, device, sent, name, value, cur_pos, found,
                       draft>>
    BY <1>11 DEF DeviceEnds, ConfigOnly, Crash, report
  <2>2. devices' \subseteq devices \cup {draft}
    BY <2>1 DEF AddDevice
  <2>3. PlaceOK'
    BY <1>2, <2>1 DEF TypeInv, PlaceOK
  <2>4. TypeOK'
    BY <1>2, <2>1, <2>2 DEF TypeInv, TypeOK, Final
  <2>5. QED
    BY <2>3, <2>4 DEF TypeInv
<1>12. CASE PeerSends
  <2>1. /\ pc = "ready" /\ pc' \in {"crashed", "done"}
        /\ UNCHANGED <<input, arg, settings, command, device, line, name, value,
                       cur_pos, found, parsed, draft, devices>>
    BY <1>12 DEF PeerSends, Crash, parsing, search
  <2>2. QED
    BY <1>2, <2>1 DEF TypeInv, TypeOK, PlaceOK, Final
<1>13. CASE UNCHANGED vars
  <2>1. UNCHANGED <<input, pc, arg, settings, command, device, line, name, value,
                    cur_pos, found, parsed, draft, devices>>
    BY <1>13 DEF vars, report, parsing, search
  <2>2. Lines' = Lines
    BY <1>2, <2>1 DEF Lines
  <2>3. QED
    BY <1>2, <2>1, <2>2 DEF TypeInv, TypeOK, PlaceOK, Final
<1>14. QED
  BY <1>1, <1>4, <1>5, <1>6, <1>7, <1>8, <1>9, <1>10, <1>11, <1>12, <1>13
     DEF Next, ServerOpens, ClientOpens, PeerOpens, ServerLine, ClientLine, PeerLine, Programs

\* A program starts at its first argument, with nothing read.
LEMMA TypeInit == Init => TypeInv
<1> SUFFICES ASSUME Init PROVE TypeInv
  OBVIOUS
<1>1. Len(input.args) \in Nat /\ input.program \in Programs
  BY InputAssumption DEF Init
<1>2. TypeOK
  BY <1>1 DEF Init, TypeOK, Final, Defaults
<1>3. PlaceOK
  BY DEF Init, PlaceOK
<1>4. QED
  BY <1>2, <1>3 DEF TypeInv

\* parse_command_line(), read_config() and the search for devices stay within the
\* arguments, the file and its sections, whatever they are given.
THEOREM TypeTheorem == Spec => []TypeOK
<1>1. TypeInv => TypeOK
  BY DEF TypeInv
<1>2. QED
  BY <1>1, TypeInit, TypeStep, PTL DEF Spec

-----------------------------------------------------------------------------
(***************************************************************************)
(* The peer.                                                               *)
(***************************************************************************)
\* The arguments before k that say UP or DOWN.
Told(k) == {i \in 1 .. k - 1 : input.args[i] \in {"-U", "-D"} /\ ~IsTaken(i)}

\* parse_command_line() of the peer keeps the one command it has met, and a
\* device; behind it there is a command or there were no arguments.  What is sent
\* says the command.
PeerInv ==
    /\ sent # None => /\ input.program = "peer" /\ pc = "done" /\ device # None
                      /\ sent = IF command = "DOWN" THEN "ISDOWN" ELSE "ISUP"
    /\ input.program = "peer" =>
         /\ pc = "arguments" => ~IsTaken(arg)
         /\ command = None => Told(arg) = {}
         /\ command # None =>
              \E i \in 1 .. arg - 1 : /\ Told(arg) = {i}
                                      /\ command = IF input.args[i] = "-U" THEN "UP" ELSE "DOWN"
         /\ device # None => \E i \in 1 .. arg - 1 : input.args[i] = "word" /\ ~IsTaken(i)
         /\ pc \notin {"arguments", "failed", "crashed"} =>
              /\ arg = Len(input.args) + 1
              /\ input.args = <<>> \/ command # None

\* The argument behind the one just read is taken by it, or is read next.
LEMMA TakenStep ==
  ASSUME NEW k \in Nat \ {0}, ~IsTaken(k)
  PROVE  /\ input.args[k] \notin Taking => ~IsTaken(k + 1)
         /\ input.args[k] \in Taking => IsTaken(k + 1) /\ ~IsTaken(k + 2)
<1>1. k + 1 \in Nat \ {0} /\ k + 2 = k + 1 + 1
  OBVIOUS
<1>2. IsTaken(k + 1) <=> input.args[k] \in Taking /\ ~IsTaken(k)
  BY TakenLemma
<1>3. IsTaken(k + 1 + 1) <=> input.args[k + 1] \in Taking /\ ~IsTaken(k + 1)
  BY <1>1, TakenLemma
<1>4. QED
  BY <1>1, <1>2, <1>3

\* No step changes what a program was started with.
LEMMA InputStays ==
  ASSUME [Next]_vars
  PROVE  input' = input /\ (\A i : IsTaken(i)' = IsTaken(i)) /\ (\A k : Told(k)' = Told(k))
<1>1. input' = input
  BY DEF Next, vars, ServerArgument, ClientArgument, PeerArgument, ArgumentsRead,
         ServerOpens, ClientOpens, PeerOpens, Open, ServerLine, ClientLine, PeerLine, SectionLine,
         SectionEnds, NextSection, NoMoreSections, DeviceLine, DeviceEnds, PeerSends, ConfigOnly
<1>2. \A i : IsTaken(i)' = IsTaken(i)
  BY <1>1 DEF IsTaken, Taking
<1>3. \A k : Told(k)' = Told(k)
  BY <1>1, <1>2 DEF Told
<1>4. QED
  BY <1>1, <1>2, <1>3

\* Of its arguments the peer keeps the command and the device.
LEMMA PeerArguments ==
  ASSUME TypeInv, PeerInv, PeerArgument
  PROVE  PeerInv'
<1>1. /\ input.program = "peer" /\ pc = "arguments" /\ ~IsTaken(arg) /\ input' = input
      /\ arg \in 1 .. Len(input.args) /\ Len(input.args) \in Nat /\ arg \in Nat \ {0}
  BY InputAssumption DEF PeerArgument, Reading, TypeInv, TypeOK, PlaceOK, PeerInv
<1>2. (\A i : IsTaken(i)' = IsTaken(i)) /\ (\A k : Told(k)' = Told(k))
  BY InputStays DEF Next
<1>3. Taking = {"-c"}
  BY <1>1 DEF Taking
<1>4. sent = None
  BY <1>1 DEF PeerInv
<1>5. /\ Given # "-c" => ~IsTaken(arg + 1)
      /\ Given = "-c" => IsTaken(arg + 1) /\ ~IsTaken(arg + 2)
  BY <1>1, <1>3, TakenStep DEF Given
<1>6. Given \notin {"-U", "-D"} => Told(arg + 1) = Told(arg)
  BY <1>1 DEF Told, Given
<1>7. Given = "-c" => Told(arg + 2) = Told(arg)
  <2> SUFFICES ASSUME Given = "-c" PROVE Told(arg + 2) = Told(arg)
    OBVIOUS
  <2>1. \A i \in 1 .. arg + 2 - 1 : i \in 1 .. arg - 1 \/ i = arg \/ i = arg + 1
    BY <1>1
  <2>2. arg \notin Told(arg + 2) /\ arg + 1 \notin Told(arg + 2)
    BY <1>1, <1>5 DEF Told, Given
  <2>3. 1 .. arg - 1 \subseteq 1 .. arg + 2 - 1
    BY <1>1
  <2>4. ASSUME NEW i \in Told(arg + 2) PROVE i \in Told(arg)
    <3>1. i \in 1 .. arg + 2 - 1 /\ input.args[i] \in {"-U", "-D"} /\ ~IsTaken(i)
      BY <1>1 DEF Told
    <3>2. i # arg /\ i # arg + 1
      BY <2>2
    <3>3. i \in 1 .. arg - 1
      BY <2>1, <3>1, <3>2
    <3>4. QED
      BY <3>1, <3>3 DEF Told
  <2>5. Told(arg) \subseteq Told(arg + 2)
    BY <1>1, <2>3 DEF Told
  <2>6. QED
    BY <2>4, <2>5
<1>8. /\ command = None => Told(arg) = {}
      /\ command # None =>
           \E i \in 1 .. arg - 1 : /\ Told(arg) = {i}
                                   /\ command = IF input.args[i] = "-U" THEN "UP" ELSE "DOWN"
      /\ device # None => \E i \in 1 .. arg - 1 : input.args[i] = "word" /\ ~IsTaken(i)
  BY <1>1 DEF PeerInv
<1>9. 1 .. arg - 1 \subseteq 1 .. arg + 1 - 1 /\ 1 .. arg - 1 \subseteq 1 .. arg + 2 - 1
      /\ arg \in 1 .. arg + 1 - 1
  BY <1>1
<1>10. ASSUME UNCHANGED <<command, sent>>, device' = device,
              \/ pc' = "crashed" /\ arg' = arg
              \/ pc' = "arguments" /\ arg' = arg + 1 /\ Given \notin {"-c", "-U", "-D"}
              \/ pc' = "arguments" /\ arg' = arg + 2 /\ Given = "-c"
       PROVE  PeerInv'
  <2>1. Told(arg)' = Told(arg)
    BY <1>2, <1>6, <1>7, <1>10
  <2>2. pc' = "arguments" => ~IsTaken(arg)'
    BY <1>2, <1>5, <1>10
  <2>3. 1 .. arg - 1 \subseteq 1 .. arg' - 1
    BY <1>9, <1>10
  <2>4. QED
    BY <1>1, <1>2, <1>4, <1>8, <1>10, <2>1, <2>2, <2>3 DEF PeerInv
<1>11. ASSUME SwitchTakes("config_file"), Given = "-c" PROVE PeerInv'
  <2>1. UNCHANGED <<command, device, sent>>
    BY <1>11 DEF SwitchTakes, SwitchSets, Crash, report
  <2>2. (pc' = "crashed" /\ arg' = arg) \/ (pc' = "arguments" /\ arg' = arg + 2)
    BY <1>1, <1>11 DEF SwitchTakes, SwitchSets, Crash
  <2>3. QED
    BY <1>10, <1>11, <2>1, <2>2
<1>12. ASSUME Given = "-d", SwitchSets("debug", "TRUE", 0) PROVE PeerInv'
  <2>1. UNCHANGED <<command, device, sent>> /\ pc' = "arguments" /\ arg' = arg + 1
    BY <1>1, <1>12 DEF SwitchSets, report
  <2>2. QED
    BY <1>10, <1>12, <2>1
<1>13. ASSUME Given \notin Switches("peer") \cup {"word"}, Ignored PROVE PeerInv'
  <2>1. UNCHANGED <<command, device, sent>> /\ pc' = "arguments" /\ arg' = arg + 1
    BY <1>1, <1>13 DEF Ignored, report
  <2>2. Given \notin {"-c", "-U", "-D"}
    BY <1>13 DEF Switches
  <2>3. QED
    BY <1>10, <2>1, <2>2
<1>14. ASSUME Given = "word", device' = "word", arg' = arg + 1, UNCHANGED <<pc, settings, command, sent>>
       PROVE  PeerInv'
  <2>1. Told(arg)' = Told(arg)
    BY <1>2, <1>6, <1>14
  <2>2. ~IsTaken(arg)'
    BY <1>2, <1>5, <1>14
  <2>3. \E i \in 1 .. arg' - 1 : input'.args[i] = "word" /\ ~IsTaken(i)'
    BY <1>1, <1>2, <1>9, <1>14 DEF Given
  <2>4. 1 .. arg - 1 \subseteq 1 .. arg' - 1
    BY <1>9, <1>14
  <2>5. QED
    BY <1>1, <1>2, <1>4, <1>8, <1>14, <2>1, <2>2, <2>3, <2>4 DEF PeerInv
<1>15. ASSUME NEW c \in {"UP", "DOWN"}, PeerCommand(c), UNCHANGED <<settings, device, sent>>,
              Given = IF c = "UP" THEN "-U" ELSE "-D"
       PROVE  PeerInv'
  <2>1. CASE command # None
    <3>1. pc' = "failed" /\ UNCHANGED <<command, arg>>
      BY <1>15, <2>1 DEF PeerCommand
    <3>2. QED
      BY <1>1, <1>2, <1>4, <1>8, <1>15, <2>1, <3>1 DEF PeerInv
  <2>2. CASE command = None
    <3>1. command' = c /\ arg' = arg + 1 /\ pc' = "arguments"
      BY <1>1, <1>15, <2>2 DEF PeerCommand
    <3>2. Told(arg + 1) = {arg}
      <4>1. Told(arg) = {}
        BY <1>8, <2>2
      <4>2. \A i \in 1 .. arg + 1 - 1 : i \in 1 .. arg - 1 \/ i = arg
        BY <1>1
      <4>3. arg \in Told(arg + 1)
        BY <1>1, <1>9, <1>15 DEF Told, Given
      <4>4. QED
        BY <4>1, <4>2, <4>3 DEF Told
    <3>3. Told(arg)' = {arg}
      BY <1>2, <3>1, <3>2
    <3>4. ~IsTaken(arg)'
      BY <1>2, <1>5, <1>15, <3>1
    <3>5. c # None /\ c = IF input.args[arg] = "-U" THEN "UP" ELSE "DOWN"
      <4>1. c = IF input.args[arg] = "-U" THEN "UP" ELSE "DOWN"
        BY <1>15 DEF Given
      <4>2. QED
        BY NoneAssumption, <4>1
    <3>6. arg \in 1 .. arg' - 1 /\ 1 .. arg - 1 \subseteq 1 .. arg' - 1
      BY <1>9, <3>1
    <3>7. QED
      BY <1>1, <1>2, <1>4, <1>8, <1>15, <3>1, <3>3, <3>4, <3>5, <3>6 DEF PeerInv
  <2>3. QED
    BY <2>1, <2>2
<1>16. QED
  BY <1>11, <1>12, <1>13, <1>14, <1>15 DEF PeerArgument

\* Behind the command line nothing touches the command and the device.
LEMMA PeerStep == TypeInv /\ PeerInv /\ [Next]_vars => PeerInv'
<1> SUFFICES ASSUME TypeInv, PeerInv, [Next]_vars PROVE PeerInv'
  OBVIOUS
<1>1. input' = input /\ (\A i : IsTaken(i)' = IsTaken(i)) /\ (\A k : Told(k)' = Told(k))
  BY InputStays
<1>2. Len(input.args) \in Nat /\ arg \in 1 .. Len(input.args) + 1
  BY InputAssumption DEF TypeInv, TypeOK, PlaceOK
<1>3. ASSUME UNCHANGED <<arg, command, device, sent>>, pc # "done", pc' # "arguments",
             pc = "arguments" => pc' \in {"failed", "crashed"}
                                 \/ (/\ arg = Len(input.args) + 1
                                     /\ input.program = "peer" => input.args = <<>> \/ command # None),
             pc \in {"failed", "crashed"} => pc' = pc
      PROVE  PeerInv'
  <2>1. Told(arg)' = Told(arg)
    BY <1>1, <1>3
  <2>2. sent = None
    BY <1>3 DEF PeerInv
  <2>3. CASE input.program # "peer"
    BY <1>1, <1>3, <2>2, <2>3 DEF PeerInv
  <2>4. CASE input.program = "peer"
    BY <1>1, <1>3, <2>1, <2>2, <2>4 DEF PeerInv
  <2>5. QED
    BY <2>3, <2>4
<1>4. CASE PeerArgument
  BY <1>4, PeerArguments
<1>5. CASE ServerArgument \/ ClientArgument
  <2>1. input.program # "peer"
    BY <1>5 DEF ServerArgument, ClientArgument, Reading
  <2>2. sent' = sent
    BY <1>5 DEF ServerArgument, ClientArgument, SwitchSets, SwitchTakes, Ignored, Crash, report
  <2>3. QED
    BY <1>1, <2>1, <2>2 DEF PeerInv
<1>6. CASE ArgumentsRead
  <2>1. UNCHANGED <<arg, command, device, sent>> /\ pc = "arguments" /\ arg = Len(input.args) + 1
    BY <1>2, <1>6 DEF ArgumentsRead, report
  <2>2. pc' # "arguments"
        /\ (pc' = "failed" \/ (input.program = "peer" => input.args = <<>> \/ command # None))
    BY <1>6 DEF ArgumentsRead
  <2>3. QED
    BY <1>3, <2>1, <2>2
<1>7. ASSUME NEW p \in Programs, Open(p) PROVE PeerInv'
  <2>1. UNCHANGED <<arg, command, device, sent>> /\ pc = "open"
    BY <1>7 DEF Open, ConfigOnly, report
  <2>2. File.open \in {"missing", "error", "ok"}
    BY InputAssumption DEF File, TypeInv, PlaceOK
  <2>3. pc' # "arguments"
    BY <1>7, <2>2 DEF Open, After
  <2>4. QED
    BY <1>3, <2>1, <2>3
<1>8. ASSUME NEW p \in Programs, SectionLine(p) PROVE PeerInv'
  <2>1. UNCHANGED <<arg, command, device, sent>> /\ pc = "section" /\ pc' # "arguments"
    BY <1>8 DEF SectionLine, ConfigOnly, report, Crash
  <2>2. QED
    BY <1>3, <2>1
<1>9. CASE SectionEnds \/ NextSection \/ NoMoreSections \/ DeviceLine \/ DeviceEnds
  <2>1. UNCHANGED <<arg, command, device, sent>> /\ pc \in {"section", "scan", "device"}
        /\ pc' # "arguments"
    BY <1>9 DEF SectionEnds, NextSection, NoMoreSections, DeviceLine, DeviceEnds, ConfigOnly,
         report, Crash, After
  <2>2. QED
    BY <1>3, <2>1
<1>10. CASE PeerSends
  <2>1. /\ input.program = "peer" /\ pc = "ready" /\ UNCHANGED <<arg, command, device>>
        /\ \/ device = None /\ pc' = "crashed" /\ sent' = sent
           \/ /\ device # None /\ pc' = "done"
              /\ sent' = IF command = "DOWN" THEN "ISDOWN" ELSE "ISUP"
    BY <1>10 DEF PeerSends, Crash
  <2>2. sent = None
    BY <2>1 DEF PeerInv
  <2>3. Told(arg)' = Told(arg)
    BY <1>1, <2>1
  <2>4. QED
    BY <1>1, <2>1, <2>2, <2>3 DEF PeerInv
<1>11. CASE UNCHANGED vars
  <2>1. UNCHANGED <<arg, command, device, sent, pc>>
    BY <1>11 DEF vars, report
  <2>2. Told(arg)' = Told(arg)
    BY <1>1, <2>1
  <2>3. QED
    BY <1>1, <2>1, <2>2 DEF PeerInv
<1>12. QED
  BY <1>4, <1>5, <1>6, <1>7, <1>8, <1>9, <1>10, <1>11
     DEF Next, ServerOpens, ClientOpens, PeerOpens, ServerLine, ClientLine, PeerLine, Programs

\* At first nothing has been told.
LEMMA PeerInit == Init => PeerInv
<1> SUFFICES ASSUME Init PROVE PeerInv
  OBVIOUS
<1>1. ~IsTaken(1) /\ Told(1) = {}
  BY TakenLemma DEF Told
<1>2. QED
  BY <1>1 DEF Init, PeerInv

\* notify.c: whatever its arguments are, the peer sends no report but what exactly
\* one -U or -D says, of a device that one of them names.
THEOREM PeerTheorem == Spec => []PeerSaysWhatItWasTold
<1>1. TypeInv /\ PeerInv => PeerSaysWhatItWasTold
  <2> SUFFICES ASSUME TypeInv, PeerInv, sent # None PROVE PeerSaysWhatItWasTold
    BY DEF PeerSaysWhatItWasTold
  <2>1. input.args \in Seq(STRING) /\ Len(input.args) \in Nat
    BY InputAssumption DEF TypeInv, PlaceOK
  <2>2. /\ input.program = "peer" /\ pc = "done" /\ device # None
        /\ sent = IF command = "DOWN" THEN "ISDOWN" ELSE "ISUP"
    BY DEF PeerInv
  <2>3. /\ arg = Len(input.args) + 1
        /\ input.args = <<>> \/ command # None
    BY <2>2 DEF PeerInv
  <2>4. DOMAIN input.args = 1 .. arg - 1
    BY <2>1, <2>3
  <2>5. PICK w \in 1 .. arg - 1 : input.args[w] = "word" /\ ~IsTaken(w)
    BY <2>2 DEF PeerInv
  <2>6. command # None
    BY <2>1, <2>3, <2>5
  <2>7. PICK i \in 1 .. arg - 1 : /\ Told(arg) = {i}
                                  /\ command = IF input.args[i] = "-U" THEN "UP" ELSE "DOWN"
    BY <2>2, <2>6 DEF PeerInv
  <2>8. {j \in DOMAIN input.args : input.args[j] \in {"-U", "-D"} /\ ~IsTaken(j)} = {i}
    BY <2>4, <2>7 DEF Told
  <2>9. Cardinality({i}) = 1
    BY FS_Singleton
  <2>10. Used("word")
    BY <2>4, <2>5 DEF Used
  <2>11. sent = IF input.args[i] = "-U" THEN "ISUP" ELSE "ISDOWN"
    BY <2>2, <2>7
  <2>12. QED
    BY <2>8, <2>9, <2>10, <2>11 DEF PeerSaysWhatItWasTold
<1>2. QED
  BY <1>1, TypeInit, TypeStep, PeerInit, PeerStep, PTL DEF Spec

-----------------------------------------------------------------------------
(***************************************************************************)
(* The devices.                                                            *)
(***************************************************************************)
\* The device section i describes.
Meant(i) == [o \in All(DeviceOptions) |->
                Written(DeviceOptions, Sections[i].lines, o, "default")]

\* What g_devices is of the sections in parsed: nothing else, and one device of
\* every name that one of them gives.
Collected ==
    /\ devices \subseteq {Meant(i) : i \in parsed}
    /\ \A i \in parsed : Meant(i)["name"] # "default" =>
                           \E d \in devices : d["name"] = Meant(i)["name"]
    /\ \A d, e \in devices : d["name"] = e["name"] => d = e

\* new_device is what the lines read so far say.
DevicesInv ==
    /\ pc = "device" =>
         /\ ~Swallowed(Lines, line)
         /\ draft = [o \in All(DeviceOptions) |->
                        Before(DeviceOptions, Lines, o, "default", line)]
    /\ Collected

\* What a blank line does to the next.
LEMMA GluedLemma ==
  ASSUME NEW l \in Line
  PROVE  /\ Glued(l).form = "option" =>
              l.form = "option" /\ Glued(l).name = "\n" /\ Glued(l).value \in STRING
         /\ Glued(l).form = "bare" => l.form = "bare" /\ Glued(l).name = "\n"
<1>1. l.form \in {"option", "bare", "noise", "blank"}
  BY DEF Line
<1>2. CASE l.form \in {"noise", "blank"}
  BY <1>2 DEF Glued, Noise
<1>3. CASE l.form = "bare"
  <2>1. l \in [form : {"bare"}, name : STRING]
    BY <1>3 DEF Line
  <2>2. QED
    BY <1>3, <2>1 DEF Glued
<1>4. CASE l.form = "option"
  <2>1. l \in [form : {"option"}, name : STRING, value : STRING]
    BY <1>4 DEF Line
  <2>2. QED
    BY <1>4, <2>1 DEF Glued
<1>5. QED
  BY <1>1, <1>2, <1>3, <1>4

\* One turn of the loop in parse_device_section() takes the line it reads into
\* new_device.
LEMMA DeviceLineRead ==
  ASSUME TypeInv, DevicesInv, DeviceLine, pc' = "device"
  PROVE  /\ ~Swallowed(Lines, line')
         /\ draft' = [o \in All(DeviceOptions) |->
                         Before(DeviceOptions, Lines, o, "default", line')]
<1>1. /\ pc = "device" /\ ~AtEnd
      /\ draft' = IF LineRead.form = "option"
                  THEN With(DeviceOptions, draft, LineRead.name, LineRead.value) ELSE draft
      /\ line' = IF Blank(line) THEN line + 2 ELSE line + 1
  BY DEF DeviceLine, Crash
<1>2. /\ ~Swallowed(Lines, line)
      /\ draft = [o \in All(DeviceOptions) |-> Before(DeviceOptions, Lines, o, "default", line)]
  BY <1>1 DEF DevicesInv
<1>3. Lines \in Seq(Line) /\ line \in DOMAIN Lines
  BY <1>1, LinesLemma, LineReadLemma
<1>4. CASE Blank(line)
  <2>1. line < Len(Lines) /\ Lines[line].form = "blank" /\ Lines[line + 1] \in Line
        /\ LineRead = Glued(Lines[line + 1])
    BY <1>1, <1>4, LineReadLemma DEF Blank
  <2>2. /\ ~Swallowed(Lines, line + 2)
        /\ \A o : Before(DeviceOptions, Lines, o, "default", line + 2) =
                    Before(DeviceOptions, Lines, o, "default", line)
    BY <1>2, <1>3, <2>1, ReadBlank
  <2>3. draft' = draft
    <3>1. CASE LineRead.form = "option"
      <4>1. LineRead.name = "\n"
        BY <2>1, <3>1, GluedLemma
      <4>2. ~Takes(DeviceOptions, LineRead.name, LineRead.value)
        BY <4>1 DEF Takes, DeviceOptions
      <4>3. QED
        BY <1>1, <3>1, <4>2 DEF With
    <3>2. QED
      BY <1>1, <3>1
  <2>4. QED
    BY <1>1, <1>2, <1>4, <2>2, <2>3
<1>5. CASE ~Blank(line)
  <2>1. LineRead = Lines[line] /\ Lines[line].form # "blank"
    BY <1>1, <1>5, LineReadLemma DEF Blank
  <2>2. /\ ~Swallowed(Lines, line + 1)
        /\ \A o : Before(DeviceOptions, Lines, o, "default", line + 1) =
             IF /\ Lines[line].form = "option" /\ Lines[line].name = o
                /\ Takes(DeviceOptions, o, Lines[line].value)
             THEN Lines[line].value ELSE Before(DeviceOptions, Lines, o, "default", line)
    BY <1>2, <1>3, <2>1, ReadLine
  <2>3. line' = line + 1
    BY <1>1, <1>5
  <2>4. CASE LineRead.form = "option" /\ Takes(DeviceOptions, LineRead.name, LineRead.value)
    <3>1. draft' = [draft EXCEPT ![LineRead.name] = LineRead.value]
      BY <1>1, <2>4 DEF With
    <3>2. draft' = [o \in All(DeviceOptions) |-> IF o = LineRead.name THEN LineRead.value
                                                 ELSE Before(DeviceOptions, Lines, o, "default", line)]
      BY <1>2, <3>1
    <3>3. \A o : Before(DeviceOptions, Lines, o, "default", line + 1) =
                   IF o = LineRead.name THEN LineRead.value
                   ELSE Before(DeviceOptions, Lines, o, "default", line)
      BY <2>1, <2>2, <2>4
    <3>4. QED
      BY <2>2, <2>3, <3>2, <3>3
  <2>5. CASE ~(LineRead.form = "option" /\ Takes(DeviceOptions, LineRead.name, LineRead.value))
    <3>1. draft' = draft
      BY <1>1, <2>5 DEF With
    <3>2. \A o : Before(DeviceOptions, Lines, o, "default", line + 1) =
                   Before(DeviceOptions, Lines, o, "default", line)
      BY <2>1, <2>2, <2>5
    <3>3. QED
      BY <1>2, <2>2, <2>3, <3>1, <3>2
  <2>6. QED
    BY <2>4, <2>5
<1>6. QED
  BY <1>4, <1>5

\* At the end of its section new_device is what was meant.
LEMMA DeviceRead ==
  ASSUME TypeInv, DevicesInv, pc = "device", AtEnd
  PROVE  draft = Meant(found)
<1>1. Lines \in Seq(Line) /\ Lines = Sections[found].lines
  BY LinesLemma
<1>2. /\ ~Swallowed(Lines, line)
      /\ draft = [o \in All(DeviceOptions) |-> Before(DeviceOptions, Lines, o, "default", line)]
  BY DEF DevicesInv
<1>3. line \in Nat \ {0}
  BY <1>1 DEF TypeInv, TypeOK
<1>4. line > Len(Lines) \/ (line = Len(Lines) /\ Lines[line].form = "blank")
  BY DEF AtEnd, Blank
<1>5. \A o : Before(DeviceOptions, Lines, o, "default", line) =
               Written(DeviceOptions, Lines, o, "default")
  BY <1>1, <1>3, <1>4, BeforeEnd
<1>6. QED
  BY <1>1, <1>2, <1>5 DEF Meant

\* The file a device is described in is no other one when it is added.
LEMMA CollectedSame ==
  ASSUME Collected, UNCHANGED <<input, parsed, devices>>,
         settings'["config_file"] = settings["config_file"]
  PROVE  Collected'
<1>1. Sections' = Sections
  BY SameFile
<1>2. \A i : Meant(i)' = Meant(i)
  BY <1>1 DEF Meant
<1>3. QED
  BY <1>2 DEF Collected

\* Every step keeps what was read of the sections.
LEMMA DevicesStep == TypeInv /\ DevicesInv /\ [Next]_vars => DevicesInv'
<1> SUFFICES ASSUME TypeInv, DevicesInv, [Next]_vars PROVE DevicesInv'
  OBVIOUS
<1>1. input' = input /\ Collected
  BY InputStays DEF DevicesInv
<1>2. ASSUME pc \in {"arguments", "open", "section"}, UNCHANGED <<parsed, devices>>, pc' # "device"
      PROVE  DevicesInv'
  <2>1. parsed' = {} /\ devices' = {}
    BY <1>2 DEF TypeInv, PlaceOK
  <2>2. QED
    BY <1>2, <2>1 DEF DevicesInv, Collected
<1>3. ASSUME UNCHANGED <<settings, parsed, devices>>, pc' # "device"
      PROVE  DevicesInv'
  BY <1>1, <1>3, CollectedSame DEF DevicesInv
<1>4. CASE ServerArgument \/ ClientArgument \/ PeerArgument \/ ArgumentsRead
  <2>1. pc = "arguments" /\ UNCHANGED <<parsed, devices>>
    BY <1>4 DEF ServerArgument, ClientArgument, PeerArgument, ArgumentsRead, Reading, search
  <2>2. pc' # "device"
    BY <1>4, <2>1 DEF ServerArgument, ClientArgument, PeerArgument, ArgumentsRead, SwitchSets,
         SwitchTakes, Ignored, PeerCommand, Crash
  <2>3. QED
    BY <1>2, <2>1, <2>2
<1>5. ASSUME NEW p \in Programs, Open(p) PROVE DevicesInv'
  <2>1. pc = "open" /\ UNCHANGED <<parsed, devices>>
    BY <1>5 DEF Open, search
  <2>2. File.open \in {"missing", "error", "ok"}
    BY InputAssumption DEF File, TypeInv, PlaceOK
  <2>3. pc' # "device"
    BY <1>5, <2>2 DEF Open, After
  <2>4. QED
    BY <1>2, <2>1, <2>3
<1>6. ASSUME NEW p \in Programs, SectionLine(p) PROVE DevicesInv'
  <2>1. pc = "section" /\ UNCHANGED <<parsed, devices>> /\ pc' # "device"
    BY <1>6 DEF SectionLine, search, Crash
  <2>2. QED
    BY <1>2, <2>1
<1>7. CASE SectionEnds
  <2>1. pc = "section" /\ UNCHANGED <<parsed, devices>> /\ pc' # "device"
    BY <1>7 DEF SectionEnds, search, Crash, After
  <2>2. QED
    BY <1>2, <2>1
<1>8. CASE NextSection
  <2>1. /\ pc = "scan" /\ pc' = "device" /\ draft' = Defaults(DeviceOptions)
        /\ UNCHANGED <<settings, parsed, devices, line>>
    BY <1>8 DEF NextSection, parsing
  <2>2. Collected'
    BY <1>1, <2>1, CollectedSame
  <2>3. line = 1
    BY <2>1 DEF TypeInv, PlaceOK
  <2>4. Lines' \in Seq(Line)
    <3>1. TypeInv'
      BY TypeStep
    <3>2. found' \in DOMAIN Sections' /\ File'.open = "ok"
      BY <2>1, <3>1 DEF TypeInv, PlaceOK, DeviceSections, OfKind
    <3>3. Sections' = Sections /\ File' = File
      BY <1>1, <2>1, SameFile
    <3>4. Sections[found'].lines \in Seq(Line)
      BY <3>2, <3>3, FileLemma DEF TypeInv
    <3>5. QED
      BY <2>1, <3>3, <3>4 DEF Lines
  <2>5. ~Swallowed(Lines', 1) /\ \A o : Before(DeviceOptions, Lines', o, "default", 1) = "default"
    BY <2>4, SwallowedLemma, BeforeFirst
  <2>6. ~Swallowed(Lines, line)'
    BY <2>1, <2>3, <2>5 DEF Swallowed
  <2>7. draft' = [o \in All(DeviceOptions) |-> Before(DeviceOptions, Lines', o, "default", line')]
    BY <2>1, <2>3, <2>5 DEF Defaults
  <2>8. QED
    BY <2>2, <2>6, <2>7 DEF DevicesInv
<1>9. CASE NoMoreSections
  <2>1. UNCHANGED <<settings, parsed, devices>> /\ pc' # "device"
    BY <1>9 DEF NoMoreSections
  <2>2. QED
    BY <1>3, <2>1
<1>10. CASE DeviceLine
  <2>1. UNCHANGED <<settings, parsed, devices, found>> /\ pc = "device"
    BY <1>10 DEF DeviceLine
  <2>2. CASE pc' # "device"
    BY <1>3, <2>1, <2>2
  <2>3. CASE pc' = "device"
    <3>1. Lines' = Lines
      BY <1>1, <2>1, <2>3, SameFile DEF Lines
    <3>2. Collected'
      BY <1>1, <2>1, CollectedSame
    <3>3. QED
      BY <1>10, <2>3, <3>1, <3>2, DeviceLineRead DEF DevicesInv
  <2>4. QED
    BY <2>2, <2>3
<1>11. CASE DeviceEnds
  <2>1. pc = "device" /\ AtEnd /\ pc' # "device" /\ UNCHANGED settings
    BY <1>11 DEF DeviceEnds, Crash
  <2>2. CASE UNCHANGED <<parsed, devices>>
    BY <1>3, <2>1, <2>2
  <2>3. CASE /\ parsed' = parsed \cup {found}
             /\ devices' = IF draft["name"] = "default" THEN devices ELSE AddDevice(devices, draft)
    <3>1. draft = Meant(found)
      BY <2>1, DeviceRead
    <3>2. \A i : Meant(i)' = Meant(i)
      BY <1>1, <2>1, SameFile DEF Meant
    <3>3. devices \subseteq {Meant(i) : i \in parsed}
          /\ (\A i \in parsed : Meant(i)["name"] # "default" =>
                                 \E d \in devices : d["name"] = Meant(i)["name"])
          /\ (\A d, e \in devices : d["name"] = e["name"] => d = e)
      BY <1>1 DEF Collected
    <3>4. devices' \subseteq {Meant(i) : i \in parsed'}
      BY <2>3, <3>1, <3>3 DEF AddDevice
    <3>5. \A i \in parsed' : Meant(i)["name"] # "default" =>
                                \E d \in devices' : d["name"] = Meant(i)["name"]
      <4>1. devices \subseteq devices'
        BY <2>3 DEF AddDevice
      <4>2. Meant(found)["name"] # "default" => \E d \in devices' : d["name"] = Meant(found)["name"]
        BY <2>3, <3>1 DEF AddDevice
      <4>3. QED
        BY <2>3, <3>3, <4>1, <4>2
    <3>6. \A d, e \in devices' : d["name"] = e["name"] => d = e
      BY <2>3, <3>3 DEF AddDevice
    <3>7. Collected'
      BY <3>2, <3>4, <3>5, <3>6 DEF Collected
    <3>8. QED
      BY <2>1, <3>7 DEF DevicesInv
  <2>4. QED
    BY <1>11, <2>2, <2>3 DEF DeviceEnds, Crash
<1>12. CASE PeerSends
  <2>1. UNCHANGED <<settings, parsed, devices>> /\ pc' # "device"
    BY <1>12 DEF PeerSends, Crash, search
  <2>2. QED
    BY <1>3, <2>1
<1>13. CASE UNCHANGED vars
  <2>1. UNCHANGED <<settings, parsed, devices, found, pc, line, draft>>
    BY <1>13 DEF vars, parsing, search
  <2>2. Collected'
    BY <1>1, <2>1, CollectedSame
  <2>3. Lines' = Lines
    BY <1>1, <2>1, SameFile DEF Lines
  <2>4. QED
    BY <2>1, <2>2, <2>3 DEF DevicesInv
<1>14. QED
  BY <1>4, <1>5, <1>6, <1>7, <1>8, <1>9, <1>10, <1>11, <1>12, <1>13
     DEF Next, ServerOpens, ClientOpens, PeerOpens, ServerLine, ClientLine, PeerLine, Programs

\* parse_device_section() and add_device(): of whatever file, g_devices is what
\* the sections read to their end say, of each option its last line, and every name one of
\* them gives is there once.
THEOREM DevicesTheorem == Spec => []DevicesAsWritten
<1>1. Init => DevicesInv
  BY DEF Init, DevicesInv, Collected
<1>2. DevicesInv => DevicesAsWritten
  <2> SUFFICES ASSUME Collected PROVE DevicesAsWritten
    BY DEF DevicesInv
  <2>1. ASSUME NEW i \in parsed, Meant(i)["name"] # "default"
        PROVE  Cardinality({d \in devices : d["name"] = Meant(i)["name"]}) = 1
    <3>1. PICK d \in devices : d["name"] = Meant(i)["name"]
      BY <2>1 DEF Collected
    <3>2. {e \in devices : e["name"] = Meant(i)["name"]} = {d}
      BY <3>1 DEF Collected
    <3>3. QED
      BY <3>2, FS_Singleton
  <2>2. QED
    BY <2>1 DEF Collected, DevicesAsWritten, Meant
<1>3. QED
  BY <1>1, <1>2, TypeInit, TypeStep, DevicesStep, PTL DEF Spec

-----------------------------------------------------------------------------
(***************************************************************************)
(* The settings.                                                           *)
(***************************************************************************)
\* What the arguments before k say of option o.
UsedBefore(switch, k) == \E i \in 1 .. k - 1 : input.args[i] = switch /\ ~IsTaken(i)
AskedBefore(o, k) ==
    CASE o = "debug" /\ UsedBefore("-d", k)       -> "TRUE"
      [] o = "fork" /\ UsedBefore("-f", k)        -> "FALSE"
      [] o = "poll_time" /\ UsedBefore("-p", k)   -> "argument"
      [] o = "config_file" /\ UsedBefore("-c", k) -> "argument"
      [] OTHER                                    -> "default"

\* The line just read left a name without a value.
Dangling == line > 1 /\ Lines[line - 1].form = "bare"

\* Setting the option name to value once more changes nothing.
Settled ==
    /\ value = None => name = None
    /\ value # None /\ Takes(Own, name, value) => settings[name] = value

\* What has been read so far is what the settings say, argument by argument and
\* line by line.
SettingsInv ==
    /\ pc \in {"arguments", "open"} => name = None /\ value = None
    /\ pc = "arguments" => /\ ~IsTaken(arg)
                           /\ \A o \in DOMAIN settings : settings[o] = AskedBefore(o, arg)
    /\ pc = "open" => \A o \in DOMAIN settings : settings[o] = Asked(o)
    /\ pc = "section" /\ NamesHaveValues(Lines) =>
         /\ ~Swallowed(Lines, line)
         /\ \A o \in DOMAIN settings : settings[o] = Before(Own, Lines, o, Asked(o), line)
         /\ Dangling \/ Settled
    /\ pc \in {"scan", "device", "ready", "done"} /\ NamesHaveValues(OwnLines) =>
         \A o \in DOMAIN settings : settings[o] = Written(Own, OwnLines, o, Asked(o))

\* What the command line says stays said.
LEMMA AskedStays ==
  ASSUME [Next]_vars
  PROVE  /\ \A o, k : AskedBefore(o, k)' = AskedBefore(o, k)
         /\ \A o : Asked(o)' = Asked(o)
         /\ Own' = Own
<1>1. input' = input /\ (\A i : IsTaken(i)' = IsTaken(i))
  BY InputStays
<1>2. \A s, k : UsedBefore(s, k)' = UsedBefore(s, k)
  BY <1>1 DEF UsedBefore
<1>3. \A s : Used(s)' = Used(s)
  BY <1>1 DEF Used
<1>4. QED
  BY <1>1, <1>2, <1>3 DEF AskedBefore, Asked, Own

\* An argument that is read counts; what it takes does not.
LEMMA UsedStep ==
  ASSUME NEW k \in Nat \ {0}, ~IsTaken(k), NEW n,
         \/ n = k + 1
         \/ n = k + 2 /\ input.args[k] \in Taking
  PROVE  \A s : UsedBefore(s, n) <=> UsedBefore(s, k) \/ input.args[k] = s
<1> SUFFICES ASSUME NEW s
             PROVE  UsedBefore(s, n) <=> UsedBefore(s, k) \/ input.args[k] = s
  OBVIOUS
<1>1. CASE n = k + 1
  <2>1. \A i \in 1 .. n - 1 : i \in 1 .. k - 1 \/ i = k
    BY <1>1
  <2>2. 1 .. k - 1 \subseteq 1 .. n - 1 /\ k \in 1 .. n - 1
    BY <1>1
  <2>3. QED
    BY <2>1, <2>2 DEF UsedBefore
<1>2. CASE n = k + 2 /\ input.args[k] \in Taking
  <2>1. \A i \in 1 .. n - 1 : i \in 1 .. k - 1 \/ i = k \/ i = k + 1
    BY <1>2
  <2>2. 1 .. k - 1 \subseteq 1 .. n - 1 /\ k \in 1 .. n - 1
    BY <1>2
  <2>3. IsTaken(k + 1)
    BY <1>2, TakenStep
  <2>4. QED
    BY <2>1, <2>2, <2>3 DEF UsedBefore
<1>3. QED
  BY <1>1, <1>2

\* A switch makes one setting different, an argument that is none of them does not.
LEMMA AskedStep ==
  ASSUME NEW k \in Nat \ {0}, ~IsTaken(k), NEW n,
         \/ n = k + 1
         \/ n = k + 2 /\ input.args[k] \in Taking,
         NEW D, input.program # "server" => "fork" \notin D /\ "poll_time" \notin D
  PROVE  /\ \A row \in {<<"-d", "debug", "TRUE">>, <<"-f", "fork", "FALSE">>,
                        <<"-p", "poll_time", "argument">>, <<"-c", "config_file", "argument">>} :
              input.args[k] = row[1] =>
                \A o : AskedBefore(o, n) = IF o = row[2] THEN row[3] ELSE AskedBefore(o, k)
         /\ /\ input.args[k] \notin {"-d", "-c"}
            /\ input.program = "server" => input.args[k] \notin {"-f", "-p"}
            => \A o \in D : AskedBefore(o, n) = AskedBefore(o, k)
<1>1. \A s : UsedBefore(s, n) <=> UsedBefore(s, k) \/ input.args[k] = s
  BY UsedStep
<1>2. ASSUME input.args[k] = "-d"
      PROVE  \A o : AskedBefore(o, n) = IF o = "debug" THEN "TRUE" ELSE AskedBefore(o, k)
  BY <1>1, <1>2 DEF AskedBefore
<1>3. ASSUME input.args[k] = "-f"
      PROVE  \A o : AskedBefore(o, n) = IF o = "fork" THEN "FALSE" ELSE AskedBefore(o, k)
  BY <1>1, <1>3 DEF AskedBefore
<1>4. ASSUME input.args[k] = "-p"
      PROVE  \A o : AskedBefore(o, n) = IF o = "poll_time" THEN "argument" ELSE AskedBefore(o, k)
  BY <1>1, <1>4 DEF AskedBefore
<1>5. ASSUME input.args[k] = "-c"
      PROVE  \A o : AskedBefore(o, n) = IF o = "config_file" THEN "argument" ELSE AskedBefore(o, k)
  BY <1>1, <1>5 DEF AskedBefore
<1>6. ASSUME input.args[k] \notin {"-d", "-c"},
             input.program = "server" => input.args[k] \notin {"-f", "-p"}
      PROVE  \A o \in D : AskedBefore(o, n) = AskedBefore(o, k)
  BY <1>1, <1>6 DEF AskedBefore
<1>7. QED
  BY <1>2, <1>3, <1>4, <1>5, <1>6

\* parse_command_line(): the arguments read so far are what the settings say.
LEMMA ArgumentsSettings ==
  ASSUME TypeInv, SettingsInv, ServerArgument \/ ClientArgument \/ PeerArgument
  PROVE  SettingsInv'
<1>1. /\ pc = "arguments" /\ arg \in 1 .. Len(input.args) /\ Len(input.args) \in Nat
      /\ UNCHANGED <<input, name, value>> /\ name = None /\ value = None
      /\ ~IsTaken(arg) /\ \A o \in DOMAIN settings : settings[o] = AskedBefore(o, arg)
  BY InputAssumption DEF ServerArgument, ClientArgument, PeerArgument, Reading, TypeInv, TypeOK,
     PlaceOK, SettingsInv, parsing
<1>2. /\ \A i : IsTaken(i)' = IsTaken(i)
      /\ \A o, k : AskedBefore(o, k)' = AskedBefore(o, k)
  BY InputStays, AskedStays DEF Next
<1>3. arg \in Nat \ {0}
  BY <1>1
<1>4. /\ DOMAIN settings = All(Own) \cup {"config_file"}
      /\ input.program \in Programs
  BY DEF TypeInv, TypeOK, Own
<1>5. input.program # "server" => "fork" \notin DOMAIN settings /\ "poll_time" \notin DOMAIN settings
  BY <1>4 DEF Programs, Own, OptionsOf, ClientOptions, PeerOptions, All
<1>6. ASSUME pc' \in {"failed", "crashed"} PROVE SettingsInv'
  BY <1>6 DEF SettingsInv
<1>7. ASSUME pc' = "arguments", arg' = arg + 1, UNCHANGED settings,
             Given \notin {"-d", "-c"}, input.program = "server" => Given \notin {"-f", "-p"}
      PROVE  SettingsInv'
  <2>1. Given \notin Taking
    BY <1>7 DEF Taking
  <2>2. ~IsTaken(arg + 1)
    BY <1>1, <1>3, <2>1, TakenStep DEF Given
  <2>3. \A o \in DOMAIN settings : AskedBefore(o, arg + 1) = AskedBefore(o, arg)
    BY <1>1, <1>3, <1>5, <1>7, AskedStep DEF Given
  <2>4. \A o \in DOMAIN settings' : settings'[o] = AskedBefore(o, arg)'
    BY <1>1, <1>2, <1>7, <2>3
  <2>5. QED
    BY <1>1, <1>2, <1>7, <2>2, <2>4 DEF SettingsInv
<1> DEFINE rows == {<<"-d", "debug", "TRUE">>, <<"-f", "fork", "FALSE">>,
                    <<"-p", "poll_time", "argument">>, <<"-c", "config_file", "argument">>}
<1>8. ASSUME NEW row \in rows, Given = row[1], row[2] \in DOMAIN settings,
             NEW n, n = arg + 1 \/ (n = arg + 2 /\ Given \in Taking),
             Given \in Taking => n = arg + 2,
             pc' = "arguments", arg' = n, settings' = [settings EXCEPT ![row[2]] = row[3]]
      PROVE  SettingsInv'
  <2>1. \A o : AskedBefore(o, n) = IF o = row[2] THEN row[3] ELSE AskedBefore(o, arg)
    BY <1>1, <1>3, <1>5, <1>8, AskedStep DEF Given
  <2>2. ~IsTaken(n)
    BY <1>1, <1>3, <1>8, TakenStep DEF Given
  <2>3. \A o \in DOMAIN settings' : settings'[o] = AskedBefore(o, n)
    <3> HIDE DEF rows
    <3>1. \A o \in DOMAIN settings' : settings'[o] = IF o = row[2] THEN row[3] ELSE settings[o]
      BY <1>8
    <3>2. DOMAIN settings' = DOMAIN settings
      BY <1>8
    <3>3. QED
      BY <1>1, <2>1, <3>1, <3>2
  <2>4. \A o \in DOMAIN settings' : settings'[o] = AskedBefore(o, arg)'
    BY <1>2, <1>8, <2>3
  <2>5. ~IsTaken(arg)'
    BY <1>2, <1>8, <2>2
  <2>6. QED
    BY <1>1, <1>8, <2>4, <2>5 DEF SettingsInv
<1>9. ASSUME Given = "-d", SwitchSets("debug", "TRUE", 0) PROVE SettingsInv'
  <2>1. <<"-d", "debug", "TRUE">> \in rows /\ "debug" \in DOMAIN settings
    BY <1>4 DEF Programs, Own, OptionsOf, ServerOptions, ClientOptions, PeerOptions, All
  <2>2. Given \notin Taking
    BY <1>9 DEF Taking
  <2>3. /\ pc' = "arguments" /\ arg' = arg + 1 /\ settings' = [settings EXCEPT !["debug"] = "TRUE"]
    BY <1>1, <1>9 DEF SwitchSets
  <2> DEFINE row == <<"-d", "debug", "TRUE">>
  <2>4. row[1] = "-d" /\ row[2] = "debug" /\ row[3] = "TRUE"
    OBVIOUS
  <2> HIDE DEF row, rows
  <2>5. QED
    BY <1>8, <1>9, <2>1, <2>2, <2>3, <2>4 DEF row
<1>10. ASSUME input.program = "server", Given = "-f", SwitchSets("fork", "FALSE", 0)
       PROVE  SettingsInv'
  <2>1. <<"-f", "fork", "FALSE">> \in rows /\ "fork" \in DOMAIN settings
    BY <1>4, <1>10 DEF Own, OptionsOf, ServerOptions, All
  <2>2. Given \notin Taking
    BY <1>10 DEF Taking
  <2>3. /\ pc' = "arguments" /\ arg' = arg + 1 /\ settings' = [settings EXCEPT !["fork"] = "FALSE"]
    BY <1>1, <1>10 DEF SwitchSets
  <2> DEFINE row == <<"-f", "fork", "FALSE">>
  <2>4. row[1] = "-f" /\ row[2] = "fork" /\ row[3] = "FALSE"
    OBVIOUS
  <2> HIDE DEF row, rows
  <2>5. QED
    BY <1>8, <1>10, <2>1, <2>2, <2>3, <2>4 DEF row
<1>11. ASSUME input.program = "server", Given = "-p", SwitchTakes("poll_time")
       PROVE  SettingsInv'
  <2>1. <<"-p", "poll_time", "argument">> \in rows /\ "poll_time" \in DOMAIN settings
    BY <1>4, <1>11 DEF Own, OptionsOf, ServerOptions, All
  <2>2. Given \in Taking
    BY <1>11 DEF Taking
  <2>3. CASE pc' = "crashed"
    BY <1>6, <2>3
  <2>4. CASE pc' # "crashed"
    <3>1. /\ pc' = "arguments" /\ arg' = arg + 2
          /\ settings' = [settings EXCEPT !["poll_time"] = "argument"]
      BY <1>1, <1>11, <2>4 DEF SwitchTakes, SwitchSets, Crash
    <3> DEFINE row == <<"-p", "poll_time", "argument">>
    <3>2. row[1] = "-p" /\ row[2] = "poll_time" /\ row[3] = "argument"
      OBVIOUS
    <3> HIDE DEF row, rows
    <3>3. QED
      BY <1>8, <1>11, <2>1, <2>2, <3>1, <3>2 DEF row
  <2>5. QED
    BY <2>3, <2>4
<1>12. ASSUME Given = "-c", SwitchTakes("config_file") PROVE SettingsInv'
  <2>1. <<"-c", "config_file", "argument">> \in rows /\ "config_file" \in DOMAIN settings
    BY <1>4
  <2>2. Given \in Taking
    BY <1>12 DEF Taking
  <2>3. CASE pc' = "crashed"
    BY <1>6, <2>3
  <2>4. CASE pc' # "crashed"
    <3>1. /\ pc' = "arguments" /\ arg' = arg + 2
          /\ settings' = [settings EXCEPT !["config_file"] = "argument"]
      BY <1>1, <1>12, <2>4 DEF SwitchTakes, SwitchSets, Crash
    <3> DEFINE row == <<"-c", "config_file", "argument">>
    <3>2. row[1] = "-c" /\ row[2] = "config_file" /\ row[3] = "argument"
      OBVIOUS
    <3> HIDE DEF row, rows
    <3>3. QED
      BY <1>8, <1>12, <2>1, <2>2, <3>1, <3>2 DEF row
  <2>5. QED
    BY <2>3, <2>4
<1>13. ASSUME Ignored, Given \notin Switches(input.program)
       PROVE  SettingsInv'
  <2>1. Given \notin {"-d", "-c"} /\ (input.program = "server" => Given \notin {"-f", "-p"})
    BY <1>4, <1>13 DEF Programs, Switches
  <2>2. pc' = "arguments" /\ arg' = arg + 1 /\ UNCHANGED settings
    BY <1>1, <1>13 DEF Ignored
  <2>3. QED
    BY <1>7, <2>1, <2>2
<1>14. CASE ServerArgument
  BY <1>9, <1>10, <1>11, <1>12, <1>13, <1>14 DEF ServerArgument, Reading
<1>15. CASE ClientArgument
  BY <1>9, <1>12, <1>13, <1>15 DEF ClientArgument, Reading
<1>16. CASE PeerArgument
  <2>1. input.program = "peer"
    BY <1>16 DEF PeerArgument, Reading
  <2>2. ASSUME NEW c, PeerCommand(c), UNCHANGED settings, Given \in {"-U", "-D"} PROVE SettingsInv'
    <3>1. pc' = "failed" \/ (pc' = "arguments" /\ arg' = arg + 1)
      BY <1>1, <2>2 DEF PeerCommand
    <3>2. QED
      BY <1>6, <1>7, <2>1, <2>2, <3>1
  <2>3. ASSUME Given = "word", arg' = arg + 1, UNCHANGED <<pc, settings>> PROVE SettingsInv'
    BY <1>1, <1>7, <2>1, <2>3
  <2>4. ASSUME Ignored, Given \notin Switches("peer") \cup {"word"} PROVE SettingsInv'
    BY <1>13, <2>1, <2>4
  <2>5. QED
    BY <1>9, <1>12, <1>16, <2>2, <2>3, <2>4 DEF PeerArgument
<1>17. QED
  BY <1>14, <1>15, <1>16

\* What setting one option does to the others.
LEMMA WithLemma ==
  ASSUME TypeInv
  PROVE  /\ \A o, v : Takes(Own, o, v) => o \in DOMAIN settings
         /\ \A o, v : \A x \in DOMAIN settings :
              With(Own, settings, o, v)[x] = IF x = o /\ Takes(Own, o, v) THEN v ELSE settings[x]
         /\ \A o, v : DOMAIN With(Own, settings, o, v) = DOMAIN settings
         /\ \A v : ~Takes(Own, "\n", v)
         /\ None \notin All(Own)
<1>1. DOMAIN settings = All(Own) \cup {"config_file"} /\ input.program \in Programs
  BY DEF TypeInv, TypeOK, Own
<1>2. \A o, v : Takes(Own, o, v) => o \in DOMAIN settings
  BY <1>1 DEF Takes, All
<1>3. ASSUME NEW o, NEW v
      PROVE  /\ DOMAIN With(Own, settings, o, v) = DOMAIN settings
             /\ \A x \in DOMAIN settings :
                  With(Own, settings, o, v)[x] = IF x = o /\ Takes(Own, o, v) THEN v ELSE settings[x]
  <2>1. CASE Takes(Own, o, v)
    BY <1>2, <2>1 DEF With
  <2>2. CASE ~Takes(Own, o, v)
    BY <2>2 DEF With
  <2>3. QED
    BY <2>1, <2>2
<1>4. \A v : ~Takes(Own, "\n", v)
  BY <1>1 DEF Programs, Own, OptionsOf, ServerOptions, ClientOptions, PeerOptions, Takes
<1>5. None \notin All(Own)
  BY <1>1, NoneAssumption DEF Own
<1>6. QED
  BY <1>2, <1>3, <1>4, <1>5

\* A line without a separator sets the option before it to what it is.
LEMMA NoiseLemma ==
  ASSUME TypeInv, Settled, NEW l, l.form = "noise", NEW conf \in Effect(Own, settings, l)
  PROVE  \A x \in DOMAIN settings : conf[x] = settings[x]
<1>1. CASE value # None
  <2>1. conf = With(Own, settings, name, value)
    BY <1>1 DEF Effect
  <2>2. QED
    BY <1>1, <2>1, WithLemma DEF Settled
<1>2. CASE value = None
  <2>1. All(Own) \cap {name} = {}
    BY <1>2, WithLemma DEF Settled
  <2>2. conf = settings
    BY <1>2, <2>1 DEF Effect
  <2>3. QED
    BY <2>2
<1>3. QED
  BY <1>1, <1>2

\* A name without a value is followed by an option.
LEMMA DanglingLemma ==
  ASSUME TypeInv, pc = "section", NamesHaveValues(Lines), Dangling
  PROVE  line <= Len(Lines) /\ Lines[line].form = "option" /\ ~AtEnd
<1>1. Lines \in Seq(Line) /\ Len(Lines) \in Nat /\ line \in 1 .. Len(Lines) + 1
  BY LinesLemma DEF TypeInv, TypeOK
<1>2. line - 1 \in DOMAIN Lines /\ line - 1 + 1 = line
  BY <1>1 DEF Dangling
<1>3. line - 1 < Len(Lines) /\ Lines[line].form = "option"
  BY <1>2 DEF NamesHaveValues, Dangling
<1>4. QED
  BY <1>1, <1>3 DEF AtEnd, Blank

\* One turn of the loop in parse_server_section() and its copies takes the line it
\* reads into the settings.
LEMMA SectionLineRead ==
  ASSUME TypeInv, SettingsInv, SectionLine(input.program), pc' = "section", NamesHaveValues(Lines)
  PROVE  /\ ~Swallowed(Lines, line')
         /\ \A o \in DOMAIN settings : settings'[o] = Before(Own, Lines, o, Asked(o), line')
         /\ \/ line' > 1 /\ Lines[line' - 1].form = "bare"
            \/ /\ value' = None => name' = None
               /\ value' # None /\ Takes(Own, name', value') => settings'[name'] = value'
<1>1. /\ pc = "section" /\ ~AtEnd
      /\ settings' \in Effect(Own, settings, LineRead)
      /\ ParseLine(LineRead)
      /\ line' = IF Blank(line) THEN line + 2 ELSE line + 1
  BY DEF SectionLine, Crash, Own
<1>2. /\ ~Swallowed(Lines, line)
      /\ \A o \in DOMAIN settings : settings[o] = Before(Own, Lines, o, Asked(o), line)
      /\ Dangling \/ Settled
  BY <1>1 DEF SettingsInv
<1>3. Lines \in Seq(Line) /\ line \in DOMAIN Lines /\ Lines[line] \in Line
  BY <1>1, LinesLemma, LineReadLemma
<1>4. line \in Nat \ {0}
  BY <1>3
<1>5. Lines[line].form # "option" => Settled
  BY <1>1, <1>2, DanglingLemma
<1>6. ASSUME LineRead.form = "noise", Settled
      PROVE  /\ \A x \in DOMAIN settings : settings'[x] = settings[x]
             /\ value' = None => name' = None
             /\ value' # None /\ Takes(Own, name', value') => settings'[name'] = value'
  <2>1. \A x \in DOMAIN settings : settings'[x] = settings[x]
    BY <1>1, <1>6, NoiseLemma
  <2>2. UNCHANGED <<name, value>>
    BY <1>1, <1>6 DEF ParseLine
  <2>3. QED
    BY <1>6, <2>1, <2>2, WithLemma DEF Settled
<1>7. LineRead.form \in {"option", "bare", "noise"}
  BY <1>1, LineReadLemma
<1>8. CASE Blank(line)
  <2>1. line < Len(Lines) /\ Lines[line].form = "blank" /\ Lines[line + 1] \in Line
        /\ LineRead = Glued(Lines[line + 1]) /\ line' = line + 2
    BY <1>1, <1>8, LineReadLemma DEF Blank
  <2>2. /\ ~Swallowed(Lines, line + 2)
        /\ \A o : Before(Own, Lines, o, Asked(o), line + 2) = Before(Own, Lines, o, Asked(o), line)
    BY <1>2, <1>3, <2>1, ReadBlank
  <2>3. Settled
    BY <1>5, <2>1
  <2>4. CASE LineRead.form = "option"
    <3>1. LineRead.name = "\n" /\ LineRead.value \in STRING
      BY <2>1, <2>4, GluedLemma
    <3>2. settings' = With(Own, settings, LineRead.name, LineRead.value)
      BY <1>1, <2>4 DEF Effect
    <3>3. \A o \in DOMAIN settings : settings'[o] = settings[o]
      BY <3>1, <3>2, WithLemma
    <3>4. name' = "\n" /\ value' # None
      BY <1>1, <2>4, <3>1, NoneAssumption DEF ParseLine
    <3>5. QED
      BY <1>2, <2>1, <2>2, <3>3, <3>4, WithLemma
  <2>5. CASE LineRead.form = "bare"
    <3>1. Lines[line + 1].form = "bare"
      BY <2>1, <2>5, GluedLemma
    <3>2. settings' = settings
      BY <1>1, <2>5 DEF Effect
    <3>3. line' > 1 /\ line' - 1 = line + 1
      BY <1>4, <2>1
    <3>4. QED
      BY <1>2, <2>1, <2>2, <3>1, <3>2, <3>3
  <2>6. CASE LineRead.form = "noise"
    BY <1>2, <1>6, <2>1, <2>2, <2>3, <2>6
  <2>7. QED
    BY <1>7, <2>4, <2>5, <2>6
<1>9. CASE ~Blank(line)
  <2>1. LineRead = Lines[line] /\ Lines[line].form # "blank" /\ line' = line + 1
    BY <1>1, <1>9, LineReadLemma DEF Blank
  <2>2. ASSUME NEW o
        PROVE  /\ ~Swallowed(Lines, line + 1)
               /\ Before(Own, Lines, o, Asked(o), line + 1) =
                    IF /\ Lines[line].form = "option" /\ Lines[line].name = o
                       /\ Takes(Own, o, Lines[line].value)
                    THEN Lines[line].value ELSE Before(Own, Lines, o, Asked(o), line)
    BY <1>2, <1>3, <2>1, ReadLine
  <2>3. CASE LineRead.form = "option"
    <3>1. LineRead.value \in STRING
      BY <1>3, <2>1, <2>3 DEF Line
    <3>2. settings' = With(Own, settings, LineRead.name, LineRead.value)
      BY <1>1, <2>3 DEF Effect
    <3>3. \A o \in DOMAIN settings : settings'[o] = Before(Own, Lines, o, Asked(o), line')
      BY <1>2, <2>1, <2>2, <2>3, <3>2, WithLemma
    <3>4. name' = LineRead.name /\ value' = LineRead.value /\ value' # None
      BY <1>1, <2>3, <3>1, NoneAssumption DEF ParseLine
    <3>5. Takes(Own, name', value') => settings'[name'] = value'
      BY <3>2, <3>4, WithLemma
    <3>6. QED
      BY <2>1, <2>2, <3>3, <3>4, <3>5
  <2>4. CASE LineRead.form = "bare"
    <3>1. settings' = settings
      BY <1>1, <2>4 DEF Effect
    <3>2. line' > 1 /\ line' - 1 = line
      BY <1>4, <2>1
    <3>3. QED
      BY <1>2, <2>1, <2>2, <2>4, <3>1, <3>2
  <2>5. CASE LineRead.form = "noise"
    <3>1. Settled
      BY <1>5, <2>1, <2>5
    <3>2. QED
      BY <1>2, <1>6, <2>1, <2>2, <2>5, <3>1
  <2>6. QED
    BY <1>7, <2>3, <2>4, <2>5
<1>10. QED
  BY <1>8, <1>9

\* At the end of the section the settings are what was meant.
LEMMA SectionRead ==
  ASSUME TypeInv, SettingsInv, pc = "section", AtEnd, NamesHaveValues(Lines)
  PROVE  Settled /\ \A o \in DOMAIN settings : settings[o] = Written(Own, Lines, o, Asked(o))
<1>1. Lines \in Seq(Line)
  BY LinesLemma
<1>2. /\ \A o \in DOMAIN settings : settings[o] = Before(Own, Lines, o, Asked(o), line)
      /\ Settled
  BY DanglingLemma DEF SettingsInv
<1>3. line \in Nat \ {0} /\ (line > Len(Lines) \/ (line = Len(Lines) /\ Lines[line].form = "blank"))
  BY <1>1 DEF TypeInv, TypeOK, AtEnd, Blank
<1>4. \A o : Before(Own, Lines, o, Asked(o), line) = Written(Own, Lines, o, Asked(o))
  BY <1>1, <1>3, BeforeEnd
<1>5. QED
  BY <1>2, <1>4

\* Every step keeps to what was said and written.
LEMMA SettingsStep == TypeInv /\ SettingsInv /\ [Next]_vars => SettingsInv'
<1> SUFFICES ASSUME TypeInv, SettingsInv, [Next]_vars PROVE SettingsInv'
  OBVIOUS
<1>1. input' = input /\ (\A o : Asked(o)' = Asked(o)) /\ Own' = Own
      /\ \A o, k : AskedBefore(o, k)' = AskedBefore(o, k)
  BY InputStays, AskedStays
<1>2. input.program \in Programs /\ Len(input.args) \in Nat
  BY InputAssumption DEF TypeInv, TypeOK, PlaceOK
<1>3. TypeInv'
  BY TypeStep
<1>4. settings'["config_file"] = settings["config_file"] => OwnLines' = OwnLines
  <2> SUFFICES ASSUME settings'["config_file"] = settings["config_file"] PROVE OwnLines' = OwnLines
    OBVIOUS
  <2>1. File' = File /\ Sections' = Sections /\ OwnSection' = OwnSection
    BY <1>1, SameFile
  <2>2. OfKind(SectionOf(input.program))' = OfKind(SectionOf(input.program))
    BY <1>1, <2>1 DEF OfKind
  <2>3. QED
    BY <1>1, <2>1, <2>2 DEF OwnLines
<1>5. ASSUME UNCHANGED settings, pc \in {"scan", "device", "ready", "done"},
             pc' \in {"scan", "device", "ready", "done", "failed", "crashed"}
      PROVE  SettingsInv'
  <2>1. OwnLines' = OwnLines
    BY <1>4, <1>5
  <2>2. NamesHaveValues(OwnLines)' = NamesHaveValues(OwnLines)
    BY <2>1 DEF NamesHaveValues
  <2>3. \A o : Written(Own, OwnLines, o, Asked(o))' = Written(Own, OwnLines, o, Asked(o))
    BY <1>1, <2>1 DEF Written, LastOf, Counting, Takes, Swallowed
  <2>4. QED
    BY <1>5, <2>2, <2>3 DEF SettingsInv
<1>6. ASSUME pc' \in {"failed", "crashed"} PROVE SettingsInv'
  BY <1>6 DEF SettingsInv
<1>7. CASE ServerArgument \/ ClientArgument \/ PeerArgument
  BY <1>7, ArgumentsSettings
<1>8. CASE ArgumentsRead
  <2>1. /\ pc = "arguments" /\ arg = Len(input.args) + 1 /\ UNCHANGED <<settings, name, value>>
        /\ pc' \in {"failed", "open"}
    BY <1>2, <1>8 DEF ArgumentsRead, TypeInv, TypeOK, parsing
  <2>2. DOMAIN input.args = 1 .. arg - 1
    BY <1>2, <2>1, InputAssumption DEF TypeInv, PlaceOK
  <2>3. \A s : UsedBefore(s, arg) <=> Used(s)
    BY <2>2 DEF UsedBefore, Used
  <2>4. \A o : AskedBefore(o, arg) = Asked(o)
    BY <2>3 DEF AskedBefore, Asked
  <2>5. QED
    BY <1>1, <2>1, <2>4 DEF SettingsInv
<1>9. ASSUME NEW p \in Programs, Open(p) PROVE SettingsInv'
  <2>1. /\ pc = "open" /\ UNCHANGED <<settings, line, name, value>> /\ name = None /\ value = None
        /\ \A o \in DOMAIN settings : settings[o] = Asked(o)
        /\ p = input.program
    BY <1>9 DEF Open, parsing, SettingsInv
  <2>2. File.open \in {"missing", "error", "ok"}
    BY InputAssumption DEF File, TypeInv, PlaceOK
  <2>3. line = 1
    BY <2>1 DEF TypeInv, PlaceOK
  <2>4. /\ pc' \in {"ready", "failed", "scan", "section"}
        /\ pc' \in {"ready", "scan"} => OwnLines = <<>>
        /\ pc' = "section" => OwnLines = Sections[OwnSection].lines
    BY <1>9, <2>1, <2>2 DEF Open, After, OwnLines
  <2>5. CASE pc' \in {"ready", "scan"}
    <3>1. OwnLines' = <<>>
      BY <1>4, <2>1, <2>4, <2>5
    <3>2. \A o : Counting(Own', <<>>, o) = {}
      BY DEF Counting
    <3>3. \A o : Written(Own', OwnLines', o, Asked(o)') = Asked(o)'
      BY <3>1, <3>2 DEF Written, LastOf
    <3>4. \A o \in DOMAIN settings' : settings'[o] = Written(Own, OwnLines, o, Asked(o))'
      <4> SUFFICES ASSUME NEW o \in DOMAIN settings'
                   PROVE  settings'[o] = Written(Own, OwnLines, o, Asked(o))'
        OBVIOUS
      <4>1. settings'[o] = Asked(o)'
        BY <1>1, <2>1
      <4>2. Written(Own, OwnLines, o, Asked(o))' = Written(Own', OwnLines', o, Asked(o)')
        BY DEF Written, LastOf, Counting, Takes, Swallowed
      <4>3. QED
        BY <3>3, <4>1, <4>2
    <3>5. QED
      BY <2>5, <3>4 DEF SettingsInv
  <2>6. CASE pc' = "section"
    <3>1. Lines' \in Seq(Line)
      <4>1. TypeInv' /\ pc' = "section" => File'.open = "ok" /\ Sections' = Sections /\ Lines' = Sections[OwnSection].lines
        BY <1>1, <2>1, <2>6, SameFile DEF Lines, TypeInv, PlaceOK
      <4>2. File.open = "ok" /\ OfKind(SectionOf(input.program)) # {}
        BY <1>9, <2>1, <2>2, <2>6 DEF Open, After
      <4>3. OwnSection \in DOMAIN Sections
        BY <4>2, FileLemma DEF TypeInv, OwnSection, OfKind
      <4>4. QED
        BY <1>3, <2>6, <4>1, <4>2, <4>3, FileLemma DEF TypeInv
    <3>2. ~Swallowed(Lines', 1) /\ \A o, d : Before(Own', Lines', o, d, 1) = d
      BY <3>1, SwallowedLemma, BeforeFirst
    <3>3. ~Swallowed(Lines, line)'
      BY <2>1, <2>3, <3>2 DEF Swallowed
    <3>4. \A o : Before(Own, Lines, o, Asked(o), line)' = Asked(o)'
      <4> SUFFICES ASSUME NEW o PROVE Before(Own, Lines, o, Asked(o), line)' = Asked(o)'
        OBVIOUS
      <4>1. Before(Own, Lines, o, Asked(o), line)' = Before(Own', Lines', o, Asked(o)', line')
        BY DEF Before, Counting, Takes, Swallowed
      <4>2. line' = 1
        BY <2>1, <2>3
      <4>3. QED
        BY <3>2, <4>1, <4>2
    <3>5. \A o \in DOMAIN settings' : settings'[o] = Before(Own, Lines, o, Asked(o), line)'
      BY <1>1, <2>1, <3>4
    <3>6. Settled'
      BY <2>1 DEF Settled
    <3>7. QED
      BY <2>6, <3>3, <3>5, <3>6 DEF SettingsInv
  <2>7. QED
    BY <1>6, <2>4, <2>5, <2>6
<1>10. ASSUME NEW p \in Programs, SectionLine(p) PROVE SettingsInv'
  <2>1. pc = "section" /\ p = input.program /\ pc' \in {"section", "crashed"}
    BY <1>10 DEF SectionLine, Crash
  <2>2. CASE pc' = "crashed"
    BY <1>6, <2>2
  <2>3. CASE pc' = "section"
    <3>1. DOMAIN settings' = DOMAIN settings /\ settings'["config_file"] = settings["config_file"]
      <4>1. settings' \in Effect(Own, settings, LineRead) /\ ~AtEnd
        BY <1>10, <2>1, <2>3 DEF SectionLine, Crash, Own
      <4>2. LineRead.form \in {"option", "bare", "noise"}
        BY <2>1, <4>1, LineReadLemma
      <4>3. QED
        BY <4>1, <4>2, EffectLemma
    <3>2. Lines' = Lines
      BY <1>1, <2>1, <2>3, <3>1, SameFile DEF Lines
    <3>3. NamesHaveValues(Lines)' = NamesHaveValues(Lines)
      BY <3>2 DEF NamesHaveValues
    <3>4. /\ Swallowed(Lines, line)' <=> Swallowed(Lines, line')
          /\ \A o : Before(Own, Lines, o, Asked(o), line)' = Before(Own, Lines, o, Asked(o), line')
      BY <1>1, <3>2 DEF Before, Counting, Takes, Swallowed
    <3>5. ASSUME NamesHaveValues(Lines)
          PROVE  /\ ~Swallowed(Lines, line)'
                 /\ \A o \in DOMAIN settings' : settings'[o] = Before(Own, Lines, o, Asked(o), line)'
                 /\ Dangling' \/ Settled'
      <4>1. /\ ~Swallowed(Lines, line')
            /\ \A o \in DOMAIN settings : settings'[o] = Before(Own, Lines, o, Asked(o), line')
            /\ \/ line' > 1 /\ Lines[line' - 1].form = "bare"
               \/ /\ value' = None => name' = None
                  /\ value' # None /\ Takes(Own, name', value') => settings'[name'] = value'
        BY <1>10, <2>1, <2>3, <3>5, SectionLineRead
      <4>2. Takes(Own, name', value') = Takes(Own, name, value)'
        BY <1>1 DEF Takes
      <4>3. Dangling' \/ Settled'
        BY <3>2, <4>1, <4>2 DEF Dangling, Settled
      <4>4. QED
        BY <3>1, <3>4, <4>1, <4>3
    <3>6. QED
      BY <2>3, <3>3, <3>5 DEF SettingsInv
  <2>4. QED
    BY <2>1, <2>2, <2>3
<1>11. CASE SectionEnds
  <2>1. /\ pc = "section" /\ AtEnd
        /\ pc' = "crashed" \/ (/\ pc' \in {"scan", "ready"}
                               /\ \/ UNCHANGED settings
                                  \/ settings' \in Effect(Own, settings, Noise))
    BY <1>11 DEF SectionEnds, Crash, After, Own
  <2>2. CASE pc' = "crashed"
    BY <1>6, <2>2
  <2>3. CASE pc' # "crashed"
    <3>1. Noise.form = "noise"
      BY DEF Noise
    <3>2. DOMAIN settings' = DOMAIN settings /\ settings'["config_file"] = settings["config_file"]
      BY <2>1, <2>3, <3>1, EffectLemma
    <3>3. OwnLines' = Lines
      BY <1>4, <2>1, <3>2, LinesLemma
    <3>4. NamesHaveValues(OwnLines)' = NamesHaveValues(Lines)
      BY <3>3 DEF NamesHaveValues
    <3>5. \A o : Written(Own, OwnLines, o, Asked(o))' = Written(Own, Lines, o, Asked(o))
      BY <1>1, <3>3 DEF Written, LastOf, Counting, Takes, Swallowed
    <3>6. ASSUME NamesHaveValues(Lines)
          PROVE  \A o \in DOMAIN settings : settings'[o] = Written(Own, Lines, o, Asked(o))
      <4>1. Settled /\ \A o \in DOMAIN settings : settings[o] = Written(Own, Lines, o, Asked(o))
        BY <2>1, <3>6, SectionRead
      <4>2. \A o \in DOMAIN settings : settings'[o] = settings[o]
        BY <2>1, <2>3, <3>1, <4>1, NoiseLemma
      <4>3. QED
        BY <4>1, <4>2
    <3>7. NamesHaveValues(OwnLines)' =>
            \A o \in DOMAIN settings' : settings'[o] = Written(Own, OwnLines, o, Asked(o))'
      BY <3>2, <3>4, <3>5, <3>6
    <3>8. pc' \in {"scan", "ready"}
      BY <2>1, <2>3
    <3>9. QED
      BY <3>7, <3>8 DEF SettingsInv
  <2>4. QED
    BY <2>2, <2>3
<1>12. CASE NextSection \/ NoMoreSections \/ DeviceLine \/ DeviceEnds \/ PeerSends
  <2>1. UNCHANGED settings /\ pc \in {"scan", "device", "ready"}
        /\ pc' \in {"scan", "device", "ready", "done", "crashed"}
    BY <1>12 DEF NextSection, NoMoreSections, DeviceLine, DeviceEnds, PeerSends, Crash
  <2>2. QED
    BY <1>5, <2>1
<1>13. CASE UNCHANGED vars
  <2>1. UNCHANGED <<settings, name, value, pc, arg, line, found>>
    BY <1>13 DEF vars, parsing, search
  <2>2. Lines' = Lines /\ OwnLines' = OwnLines
    BY <1>1, <1>4, <2>1, SameFile DEF Lines
  <2>3. /\ NamesHaveValues(Lines)' = NamesHaveValues(Lines)
        /\ NamesHaveValues(OwnLines)' = NamesHaveValues(OwnLines)
    BY <2>2 DEF NamesHaveValues
  <2>4. /\ Swallowed(Lines, line)' <=> Swallowed(Lines, line)
        /\ \A o : Before(Own, Lines, o, Asked(o), line)' = Before(Own, Lines, o, Asked(o), line)
        /\ \A o : Written(Own, OwnLines, o, Asked(o))' = Written(Own, OwnLines, o, Asked(o))
    BY <1>1, <2>1, <2>2 DEF Before, Written, LastOf, Counting, Takes, Swallowed
  <2>5. (Dangling \/ Settled)' <=> (Dangling \/ Settled)
    BY <1>1, <2>1, <2>2 DEF Dangling, Settled, Takes
  <2>6. IsTaken(arg)' = IsTaken(arg) /\ \A o : AskedBefore(o, arg)' = AskedBefore(o, arg)
    <3>1. \A k : IsTaken(k)' = IsTaken(k)
      BY InputStays
    <3>2. QED
      BY <1>1, <2>1, <3>1
  <2>7. QED
    BY <1>1, <2>1, <2>3, <2>4, <2>5, <2>6 DEF SettingsInv
<1>14. QED
  BY <1>7, <1>8, <1>9, <1>10, <1>11, <1>12, <1>13
     DEF Next, ServerOpens, ClientOpens, PeerOpens, ServerLine, ClientLine, PeerLine, Programs

\* At first nothing has been said.
LEMMA SettingsInit == Init => SettingsInv
<1> SUFFICES ASSUME Init PROVE SettingsInv
  OBVIOUS
<1>1. ~IsTaken(1) /\ \A s : ~UsedBefore(s, 1)
  BY TakenLemma DEF UsedBefore
<1>2. \A o : AskedBefore(o, 1) = "default"
  BY <1>1 DEF AskedBefore
<1>3. \A o \in DOMAIN settings : settings[o] = "default"
  BY DEF Init
<1>4. QED
  BY <1>1, <1>2, <1>3 DEF Init, SettingsInv

\* read_config(): with whatever arguments and file, when a program begins its work
\* each setting is what the last line of the file that counts says, else what the
\* command line says, else the default; provided every name in its section has a
\* value.
THEOREM SettingsTheorem == Spec => []SettingsAsWritten
<1>1. SettingsInv => SettingsAsWritten
  BY DEF SettingsInv, SettingsAsWritten, Own
<1>2. QED
  BY <1>1, TypeInit, TypeStep, SettingsInit, SettingsStep, PTL DEF Spec

=============================================================================
