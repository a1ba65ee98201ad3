-------------------------- MODULE ArgumentsProofs --------------------------
(***************************************************************************)
(* The properties of Arguments, for every command line and any words, and  *)
(* what collatz does with its number.                                      *)
(*                                                                         *)
(* Meaning and WellFormed look at a whole command line at once, the        *)
(* programs at one word after the other: Scanned, FitsOptions, FitsWords   *)
(* say what of the former they have found in front of the next word.       *)
(***************************************************************************)
EXTENDS Collatz, Induction, SequenceTheorems

-----------------------------------------------------------------------------
(* Counting the members of a set of numbers.                               *)

UpTo(S, m) == {j \in S : j <= m}

LEMMA CountUp ==
    ASSUME NEW n \in Nat, NEW S \in SUBSET (1..n), NEW m \in Nat
    PROVE  /\ IsFiniteSet(UpTo(S, m)) /\ Cardinality(UpTo(S, m)) \in Nat
           /\ Cardinality(UpTo(S, m)) <= Cardinality(S) /\ Cardinality(S) \in Nat
           /\ m >= n => UpTo(S, m) = S
           /\ m + 1 \in S => Cardinality(UpTo(S, m + 1)) = Cardinality(UpTo(S, m)) + 1
           /\ m + 1 \notin S => UpTo(S, m + 1) = UpTo(S, m)
<1>1. IsFiniteSet(1..n) /\ \A j \in S : j \in Nat /\ j <= n
  BY FS_Interval
<1>2. IsFiniteSet(S) /\ UpTo(S, m) \subseteq S
  BY <1>1, FS_Subset DEF UpTo
<1>3. /\ IsFiniteSet(UpTo(S, m)) /\ Cardinality(UpTo(S, m)) <= Cardinality(S)
      /\ Cardinality(S) \in Nat /\ Cardinality(UpTo(S, m)) \in Nat
  BY <1>2, FS_Subset, FS_CardinalityType
<1>4. ASSUME m >= n PROVE UpTo(S, m) = S
  <2>1. \A j \in S : j <= m
    BY <1>1, <1>4
  <2> QED
    BY <2>1 DEF UpTo
<1>5. \A j \in S : j <= m + 1 <=> j <= m \/ j = m + 1
  BY <1>1
<1>6. ASSUME m + 1 \in S PROVE Cardinality(UpTo(S, m + 1)) = Cardinality(UpTo(S, m)) + 1
  <2>1. UpTo(S, m + 1) = UpTo(S, m) \cup {m + 1}
    BY <1>5, <1>6 DEF UpTo
  <2>2. m + 1 \notin UpTo(S, m)
    BY DEF UpTo
  <2> QED
    BY <1>3, <2>1, <2>2, FS_AddElement
<1>7. ASSUME m + 1 \notin S PROVE UpTo(S, m + 1) = UpTo(S, m)
  BY <1>5, <1>7 DEF UpTo
<1> QED
  BY <1>3, <1>4, <1>6, <1>7

\* Each member has a place of its own, and each place a member.
LEMMA Places ==
    ASSUME NEW n \in Nat, NEW S \in SUBSET (1..n)
    PROVE  /\ \A k \in S : Cardinality(UpTo(S, k)) \in 1..Cardinality(S)
           /\ \A k \in S, j \in S : Cardinality(UpTo(S, k)) = Cardinality(UpTo(S, j)) => k = j
           /\ \A m \in Nat : \A i \in 1..Cardinality(UpTo(S, m)) :
                \E k \in S : k <= m /\ Cardinality(UpTo(S, k)) = i
           /\ \A m \in Nat : \A k \in S : k <= m =>
                Cardinality(UpTo(S, k)) \in 1..Cardinality(UpTo(S, m))
<1>1. \A k \in S : k \in Nat /\ k >= 1
  OBVIOUS
<1>2. \A m \in Nat : /\ IsFiniteSet(UpTo(S, m)) /\ Cardinality(UpTo(S, m)) \in Nat
                     /\ Cardinality(UpTo(S, m)) <= Cardinality(S) /\ Cardinality(S) \in Nat
                     /\ m + 1 \in S => Cardinality(UpTo(S, m + 1)) = Cardinality(UpTo(S, m)) + 1
                     /\ m + 1 \notin S => UpTo(S, m + 1) = UpTo(S, m)
  BY CountUp
<1>3. ASSUME NEW m \in Nat, NEW k \in S, k <= m
      PROVE  Cardinality(UpTo(S, k)) \in 1..Cardinality(UpTo(S, m))
  <2>1. \A j \in S : j <= k => j <= m
    BY <1>1, <1>3
  <2>2. UpTo(S, k) \subseteq UpTo(S, m)
    BY <2>1 DEF UpTo
  <2>3. k \in UpTo(S, k)
    BY <1>1 DEF UpTo
  <2>4. Cardinality(UpTo(S, k)) <= Cardinality(UpTo(S, m))
    BY <1>2, <2>2, FS_Subset
  <2>5. Cardinality(UpTo(S, k)) # 0
    BY <1>1, <1>2, <2>3, FS_EmptySet
  <2> QED
    BY <1>1, <1>2, <2>4, <2>5
<1>4. ASSUME NEW k \in S, NEW j \in S, k < j
      PROVE  Cardinality(UpTo(S, k)) < Cardinality(UpTo(S, j))
  <2>1. (\A l \in S : l <= k => l <= j) /\ j <= j /\ ~(j <= k)
    BY <1>1, <1>4
  <2>2. UpTo(S, k) \subseteq UpTo(S, j) /\ j \in UpTo(S, j) /\ j \notin UpTo(S, k)
    BY <2>1 DEF UpTo
  <2>3. Cardinality(UpTo(S, k)) <= Cardinality(UpTo(S, j)) /\ IsFiniteSet(UpTo(S, j))
    BY <1>1, <1>2, <2>2, FS_Subset
  <2>4. Cardinality(UpTo(S, k)) # Cardinality(UpTo(S, j))
    BY <2>2, <2>3, FS_Subset
  <2> QED
    BY <1>1, <1>2, <2>3, <2>4
<1>5. ASSUME NEW k \in S, NEW j \in S, Cardinality(UpTo(S, k)) = Cardinality(UpTo(S, j))
      PROVE  k = j
  <2>1. ~(k < j) /\ ~(j < k)
    BY <1>1, <1>2, <1>4, <1>5
  <2> QED
    BY <1>1, <2>1
<1>6. ASSUME NEW k \in S PROVE Cardinality(UpTo(S, k)) \in 1..Cardinality(S)
  BY <1>1, <1>2, <1>3
<1> DEFINE Onto(m) == \A i \in 1..Cardinality(UpTo(S, m)) :
                        \E k \in S : k <= m /\ Cardinality(UpTo(S, k)) = i
           G == {m \in Nat : Onto(m)}
<1>7. Onto(0)
  <2>1. \A j \in S : ~(j <= 0)
    BY <1>1
  <2>2. UpTo(S, 0) = {}
    BY <2>1 DEF UpTo
  <2> QED
    BY <2>2, FS_EmptySet
<1>8. ASSUME NEW m \in Nat, Onto(m) PROVE Onto(m + 1)
  <2>1. ASSUME NEW i \in 1..Cardinality(UpTo(S, m))
        PROVE  \E k \in S : k <= m + 1 /\ Cardinality(UpTo(S, k)) = i
    <3>1. PICK k \in S : k <= m /\ Cardinality(UpTo(S, k)) = i
      BY <1>8
    <3> QED
      BY <1>1, <3>1
  <2>2. CASE m + 1 \in S
    <3>1. Cardinality(UpTo(S, m + 1)) = Cardinality(UpTo(S, m)) + 1
      BY <1>2, <2>2
    <3>2. ASSUME NEW i \in 1..Cardinality(UpTo(S, m + 1))
          PROVE  i = Cardinality(UpTo(S, m)) + 1 \/ i \in 1..Cardinality(UpTo(S, m))
      BY <1>2, <3>1
    <3>3. m + 1 <= m + 1
      OBVIOUS
    <3> QED
      BY <2>1, <2>2, <3>1, <3>2, <3>3
  <2>3. CASE m + 1 \notin S
    <3>1. UpTo(S, m + 1) = UpTo(S, m)
      BY <1>2, <2>3
    <3> QED
      BY <2>1, <3>1
  <2> QED
    BY <2>2, <2>3
<1>9. \A m \in Nat : Onto(m)
  <2> HIDE DEF Onto
  <2>1. 0 \in G /\ G \in SUBSET Nat /\ \A m \in G : m + 1 \in G
    BY <1>7, <1>8
  <2>2. G = Nat
    <3> HIDE DEF G
    <3> QED
      BY <2>1, NumbersByInduction
  <2> QED
    BY <2>2
<1> QED
  BY <1>3, <1>5, <1>6, <1>9

-----------------------------------------------------------------------------
(* The programs' tables.                                                   *)

Fields == DOMAIN Defaults(prog)
Named == {"start", "frames", "nick", "dst"}

\* A call: no word is the null pointer.
Called == prog \in Programs /\ argv \in Seq(Range(argv)) /\ None \notin Range(argv)

LEMMA LineIs ==
    ASSUME Called
    PROVE  /\ Len(argv) \in Nat /\ DOMAIN argv = 1..Len(argv)
           /\ \A k \in 1..Len(argv) : argv[k] # None /\ argv[k] \in Range(argv)
<1>1. Len(argv) \in Nat /\ DOMAIN argv = 1..Len(argv)
  BY DEF Called
<1>2. \A k \in 1..Len(argv) : argv[k] \in Range(argv)
  BY <1>1 DEF Range
<1> QED
  BY <1>1, <1>2 DEF Called

LEMMA OptionsAre ==
    ASSUME prog \in Programs
    PROVE  /\ "--" \notin DOMAIN Options /\ "--help" \notin DOMAIN Options
           /\ \A w \in DOMAIN Options : /\ Options[w] \in Fields /\ Options[w] \notin Named
                                        /\ Options[w] = "file" => prog = "asciiclient"
<1>1. CASE prog = "collatz"
  BY <1>1 DEF Options, OptionWords
<1>2. CASE prog = "ethstats"
  BY <1>2 DEF Options, OptionWords, OptionField, Java, Fields, Defaults, Named
<1>3. CASE prog = "trace6"
  BY <1>3 DEF Options, OptionWords, OptionField, Java, Fields, Defaults, Named
<1>4. CASE prog = "asciiclient"
  BY <1>4 DEF Options, OptionWords, OptionField, Java, Fields, Defaults, Named
<1> QED
  BY <1>1, <1>2, <1>3, <1>4 DEF Programs

LEMMA PositionalsAre ==
    ASSUME prog \in Programs
    PROVE  /\ Len(Positionals) = (IF prog = "asciiclient" THEN 2 ELSE 1)
           /\ DOMAIN Positionals = 1..Len(Positionals) /\ Len(Positionals) \in Nat
           /\ \A i \in DOMAIN Positionals : Positionals[i] \in Fields /\ Positionals[i] \in Named
           /\ \A i \in DOMAIN Positionals, j \in DOMAIN Positionals :
                Positionals[i] = Positionals[j] => i = j
           /\ prog = "trace6" => Positionals[1] = "dst"
           /\ prog = "asciiclient" => Positionals[1] = "nick" /\ Positionals[2] = "dst"
<1>1. CASE prog = "collatz"
  BY <1>1 DEF Positionals, Fields, Defaults, Named
<1>2. CASE prog = "ethstats"
  BY <1>2 DEF Positionals, Fields, Defaults, Named
<1>3. CASE prog = "trace6"
  BY <1>3 DEF Positionals, Fields, Defaults, Named
<1>4. CASE prog = "asciiclient"
  BY <1>4 DEF Positionals, Fields, Defaults, Named
<1> QED
  BY <1>1, <1>2, <1>3, <1>4 DEF Programs

LEMMA DefaultsAre ==
    /\ prog = "trace6" => "dst" \in Fields /\ Defaults(prog)["dst"] = None
    /\ prog = "asciiclient" =>
         /\ \A f \in {"nick", "dst", "msg", "file"} : f \in Fields /\ Defaults(prog)[f] = None
    /\ {"nick", "dst", "msg", "file"} \cap Numeric = {}
BY DEF Fields, Defaults, Numeric

LEMMA DefaultsMap ==
    ASSUME prog \in Programs
    PROVE  Defaults(prog) = [f \in Fields |-> Defaults(prog)[f]]
<1>1. CASE prog = "collatz"
  BY <1>1 DEF Fields, Defaults
<1>2. CASE prog = "ethstats"
  BY <1>2 DEF Fields, Defaults
<1>3. CASE prog = "trace6"
  BY <1>3 DEF Fields, Defaults
<1>4. CASE prog = "asciiclient"
  BY <1>4 DEF Fields, Defaults
<1> QED
  BY <1>1, <1>2, <1>3, <1>4 DEF Programs

-----------------------------------------------------------------------------
(* Which words are options.                                                *)

\* Word k is an option if those in front of it are S.
IsOption(k, S) ==
    /\ argv[k] \in DOMAIN Options /\ k - 1 \notin S
    /\ ~\E j \in 1..(k - 1) : ~Java /\ argv[j] = "--" /\ j - 1 \notin S

\* S are the options among the first m words.
OptionsUpTo(S, m) == \A k \in 1..m : k \in S <=> IsOption(k, S)

LEMMA OptionAtIs ==
    ASSUME Called
    PROVE  OptionAt \in SUBSET (1..Len(argv)) /\ OptionsUpTo(OptionAt, Len(argv))
<1>1. Len(argv) \in Nat /\ DOMAIN argv = 1..Len(argv)
  BY LineIs
<1> DEFINE n == Len(argv)
           Some(m) == \E S \in SUBSET (1..m) : OptionsUpTo(S, m)
           G == {m \in Nat : Some(m)}
<1>2. ASSUME NEW S, NEW m \in Nat, NEW k \in 1..m
      PROVE  IsOption(k, S \cup {m + 1}) <=> IsOption(k, S)
  <2>1. k - 1 # m + 1 /\ \A j \in 1..(k - 1) : j - 1 # m + 1
    BY <1>2
  <2> QED
    BY <2>1 DEF IsOption
<1>3. Some(0)
  <2>1. 1..0 = {}
    OBVIOUS
  <2>2. OptionsUpTo({}, 0) /\ {} \in SUBSET (1..0)
    BY <2>1 DEF OptionsUpTo
  <2> QED
    BY <2>2
<1>4. ASSUME NEW m \in Nat, Some(m) PROVE Some(m + 1)
  <2>1. PICK S \in SUBSET (1..m) : OptionsUpTo(S, m)
    BY <1>4
  <2>2. m + 1 \notin S /\ S \in SUBSET (1..(m + 1)) /\ S \cup {m + 1} \in SUBSET (1..(m + 1))
    OBVIOUS
  <2>3. \A k \in 1..(m + 1) : k = m + 1 \/ (k \in 1..m /\ k # m + 1)
    OBVIOUS
  <2>4. CASE IsOption(m + 1, S)
    <3>1. IsOption(m + 1, S \cup {m + 1})
      <4>1. (m + 1) - 1 # m + 1 /\ \A j \in 1..((m + 1) - 1) : j - 1 # m + 1
        OBVIOUS
      <4> QED
        BY <2>4, <4>1 DEF IsOption
    <3>2. OptionsUpTo(S \cup {m + 1}, m + 1)
      BY <1>2, <2>1, <2>3, <3>1 DEF OptionsUpTo
    <3> QED
      BY <2>2, <3>2
  <2>5. CASE ~IsOption(m + 1, S)
    <3>1. OptionsUpTo(S, m + 1)
      BY <2>1, <2>2, <2>3, <2>5 DEF OptionsUpTo
    <3> QED
      BY <2>2, <3>1
  <2> QED
    BY <2>4, <2>5
<1>5. Some(n)
  <2> HIDE DEF Some
  <2>1. 0 \in G /\ G \in SUBSET Nat /\ \A m \in G : m + 1 \in G
    BY <1>3, <1>4
  <2>2. G = Nat
    <3> HIDE DEF G
    <3> QED
      BY <2>1, NumbersByInduction
  <2> QED
    BY <1>1, <2>2
<1>6. PICK S \in SUBSET (1..n) : OptionsUpTo(S, n)
  BY <1>5
<1>7. \E T \in SUBSET DOMAIN argv : \A k \in DOMAIN argv : k \in T <=> IsOption(k, T)
  BY <1>1, <1>6 DEF OptionsUpTo
<1>8. OptionAt = CHOOSE T \in SUBSET DOMAIN argv : \A k \in DOMAIN argv : k \in T <=> IsOption(k, T)
  BY DEF OptionAt, IsOption
<1> QED
  BY <1>1, <1>7, <1>8 DEF OptionsUpTo

\* No "--" in front of word p.
Early(p) == \A j \in Markers : j >= p

LEMMA WordsAre ==
    ASSUME Called
    PROVE  /\ OptionAt \in SUBSET (1..Len(argv)) /\ Markers \in SUBSET (1..Len(argv))
           /\ Free \in SUBSET (1..Len(argv))
           /\ \A k \in OptionAt : argv[k] \in DOMAIN Options /\ k - 1 \notin OptionAt /\ Early(k)
           /\ \A k \in 1..Len(argv) :
                argv[k] \in DOMAIN Options /\ k - 1 \notin OptionAt /\ Early(k) => k \in OptionAt
           /\ \A k \in 1..Len(argv) :
                k \in Markers <=> k - 1 \notin OptionAt /\ ~Java /\ argv[k] = "--"
           /\ \A k \in 1..Len(argv) :
                k \in Free <=> k \notin OptionAt /\ k - 1 \notin OptionAt /\ (k \in Markers => Behind(k))
<1>1. Len(argv) \in Nat /\ DOMAIN argv = 1..Len(argv)
  BY LineIs
<1>2. OptionAt \in SUBSET (1..Len(argv)) /\ \A k \in 1..Len(argv) : k \in OptionAt <=> IsOption(k, OptionAt)
  BY OptionAtIs DEF OptionsUpTo
<1>3. Markers \in SUBSET (1..Len(argv)) /\ Free \in SUBSET (1..Len(argv))
  BY <1>1 DEF Markers, Free
<1>4. ASSUME NEW k \in 1..Len(argv)
      PROVE  k \in Markers <=> k - 1 \notin OptionAt /\ ~Java /\ argv[k] = "--"
  BY <1>1 DEF Markers, Valued
<1>5. ASSUME NEW k \in 1..Len(argv)
      PROVE  k \in Free <=> k \notin OptionAt /\ k - 1 \notin OptionAt /\ (k \in Markers => Behind(k))
  BY <1>1 DEF Free, Valued
<1>6. ASSUME NEW k \in 1..Len(argv)
      PROVE  Early(k) <=> ~\E j \in 1..(k - 1) : ~Java /\ argv[j] = "--" /\ j - 1 \notin OptionAt
  <2>1. \A j \in 1..(k - 1) : j \in 1..Len(argv) /\ ~(j >= k)
    BY <1>1
  <2>2. \A j \in 1..Len(argv) : j >= k \/ j \in 1..(k - 1)
    BY <1>1
  <2> QED
    BY <1>3, <1>4, <2>1, <2>2 DEF Early
<1>7. \A k \in 1..Len(argv) : k \in OptionAt <=> argv[k] \in DOMAIN Options /\ k - 1 \notin OptionAt /\ Early(k)
  BY <1>2, <1>6 DEF IsOption
<1> QED
  BY <1>2, <1>3, <1>4, <1>5, <1>7

-----------------------------------------------------------------------------
(* The invariant.                                                          *)

Admitted(k) == Behind(k) \/ (argv[k] # "--help" /\ (Java \/ argv[k] \notin Dashed))

\* words are those in front of p that are no options.
Collected(p, words) ==
    /\ words \in Seq(Range(argv)) /\ Len(words) = Cardinality(UpTo(Free, p - 1))
    /\ Java => Len(words) <= 1
    /\ \A k \in Free : k < p => words[Place(k)] = argv[k]

\* Nothing in front of p is malformed, and no option's argument is at p.
Scanned(p, words) ==
    /\ p \in 1..(Len(argv) + 1) /\ p - 1 \notin OptionAt
    /\ p = Len(argv) + 1 \/ Early(p)
    /\ \A k \in OptionAt : k < p =>
         k < Len(argv) /\ (Options[argv[k]] \in Numeric => Readable(argv[k + 1]))
    /\ \A k \in Free : k < p => Admitted(k)
    /\ Collected(p, words)

Stored(field, w) == IF field \in Numeric THEN ReadNumber(w) ELSE w

\* The options in front of p are what g says.
LastBefore(k, field, p) ==
    k \in Given(field) /\ k < p /\ \A j \in Given(field) : j < p => j <= k
FitsOptions(g, p) ==
    \A field \in Fields \ Named :
        \/ (\A k \in Given(field) : k >= p) /\ g[field] = Defaults(prog)[field]
        \/ \E k \in OptionAt : LastBefore(k, field, p) /\ g[field] = Stored(field, argv[k + 1])

\* The first i of the other words are, too.
TakenFrom(q, field, i) == q <= i /\ Positionals[q] = field
FitsWords(g, i, words) ==
    \A field \in Fields \cap Named :
        \/ /\ \A q \in DOMAIN Positionals : ~TakenFrom(q, field, i)
           /\ g[field] = Defaults(prog)[field]
        \/ \E q \in DOMAIN Positionals :
             TakenFrom(q, field, i) /\ g[field] = Stored(field, words[q])

\* The first i of the words can be read.
ReadTo(i, words) ==
    \A q \in 1..i : /\ q <= Len(Positionals)
                    /\ Positionals[q] \in Numeric => Readable(words[q])

IsArgs(g) == g = [field \in Fields |-> g[field]]

Means(g, fields) == \A field \in fields : g[field] = Meaning(field)

\* msg follows.
HasFile(g) ==
    /\ prog = "asciiclient" /\ Given("file") # {}
    /\ g["file"] = argv[Latest("file") + 1] /\ g["file"] # None

WhileReading(a, p, r, i, g) ==
    /\ Scanned(p, r) /\ FitsOptions(g, p) /\ FitsWords(g, i, r)
    /\ prog = "collatz" => argv # <<>>
    /\ a = "words" => i = 0
    /\ a = "args" => p = Len(argv) + 1 /\ i \in 0..Len(r) /\ ReadTo(i, r)

\* What the programs check; collatz only counts the words.
Accepted ==
    /\ Len(argv) \notin OptionAt
    /\ \A k \in OptionAt : Options[argv[k]] \in Numeric => Readable(argv[k + 1])
    /\ \A k \in Free :
         /\ Place(k) <= Len(Positionals)
         /\ Positionals[Place(k)] \in Numeric => Readable(argv[k])
         /\ Behind(k) \/ (argv[k] # "--help" /\ (Java \/ argv[k] \notin Dashed))
    /\ prog = "collatz" => argv # <<>>
    /\ prog = "trace6" => Cardinality(Free) = 1
    /\ prog = "asciiclient" => Cardinality(Free) = 2 /\ Given("file") \cup Given("msg") # {}

\* What holds of at, next, rest, argNum and args.
Holds(a, p, r, i, g) ==
    /\ Called /\ IsArgs(g)
    /\ a = "start" => p = 1 /\ r = <<>> /\ i = 0 /\ g = Defaults(prog)
    /\ a \in {"words", "args"} => WhileReading(a, p, r, i, g)
    /\ a = "file" => Accepted /\ HasFile(g) /\ Means(g, Fields \ {"msg"})
    /\ a = "run" => Accepted /\ Means(g, Fields)
    /\ a \in {"help", "failed"} /\ Accepted => prog = "asciiclient" /\ g["file"] # None

ArgInv == Holds(at, next, rest, argNum, args)

-----------------------------------------------------------------------------
(* No step changes the call, nor what depends on nothing else.             *)

LEMMA TablesKept ==
    ASSUME UNCHANGED <<prog, argv>>
    PROVE  /\ (Called' <=> Called) /\ (Java' <=> Java) /\ Options' = Options
           /\ Positionals' = Positionals /\ Fields' = Fields
           /\ \A w : (Readable(w)' <=> Readable(w)) /\ ReadNumber(w)' = ReadNumber(w)
BY DEF Called, Java, Options, OptionWords, OptionField, Positionals, Fields, Readable, ReadNumber

LEMMA LineKept ==
    ASSUME UNCHANGED <<prog, argv>>
    PROVE  OptionAt' = OptionAt /\ Valued' = Valued /\ Markers' = Markers /\ Free' = Free
<1>1. Options' = Options /\ (Java' <=> Java)
  BY TablesKept
<1>2. OptionAt' = OptionAt
  BY <1>1 DEF OptionAt
<1>3. Valued' = Valued /\ Markers' = Markers
  BY <1>1, <1>2 DEF Valued, Markers
<1> QED
  BY <1>2, <1>3 DEF Free, Behind

LEMMA MeaningKept ==
    ASSUME UNCHANGED <<prog, argv>>
    PROVE  /\ \A k : Place(k)' = Place(k) /\ (Behind(k)' <=> Behind(k))
           /\ \A f : Given(f)' = Given(f) /\ Latest(f)' = Latest(f) /\ Meaning(f)' = Meaning(f)
           /\ Accepted' <=> Accepted
<1>1. /\ (Java' <=> Java) /\ Options' = Options /\ Positionals' = Positionals
      /\ \A w : (Readable(w)' <=> Readable(w)) /\ ReadNumber(w)' = ReadNumber(w)
  BY TablesKept
<1>2. OptionAt' = OptionAt /\ Markers' = Markers /\ Free' = Free
  BY LineKept
<1>3. \A k : Place(k)' = Place(k) /\ (Behind(k)' <=> Behind(k))
  BY <1>2 DEF Place, Behind
<1>4. \A f : Given(f)' = Given(f)
  BY <1>1, <1>2 DEF Given
<1>5. \A f : Latest(f)' = Latest(f)
  BY <1>4 DEF Latest
<1>6. \A k, f : (Takes(k, f)' <=> Takes(k, f)) /\ ValueOf(f, k)' = ValueOf(f, k)
  BY <1>1, <1>3 DEF Takes, ValueOf
<1>7. \A f : Meaning(f)' = Meaning(f)
  BY <1>2, <1>4, <1>5, <1>6 DEF Meaning
<1>8. Accepted' <=> Accepted
  BY <1>1, <1>2, <1>3, <1>4 DEF Accepted
<1> QED
  BY <1>3, <1>4, <1>5, <1>7, <1>8

LEMMA Kept ==
    ASSUME UNCHANGED <<prog, argv>>, Holds(at', next', rest', argNum', args')
    PROVE  ArgInv'
<1>1. /\ (Called' <=> Called) /\ (Java' <=> Java) /\ Options' = Options
      /\ Positionals' = Positionals /\ Fields' = Fields
      /\ \A w : (Readable(w)' <=> Readable(w)) /\ ReadNumber(w)' = ReadNumber(w)
  BY TablesKept
<1>2. OptionAt' = OptionAt /\ Markers' = Markers /\ Free' = Free
  BY LineKept
<1>3. /\ \A k : Place(k)' = Place(k) /\ (Behind(k)' <=> Behind(k))
      /\ \A f : Given(f)' = Given(f) /\ Latest(f)' = Latest(f) /\ Meaning(f)' = Meaning(f)
      /\ Accepted' <=> Accepted
  BY MeaningKept
<1>4. /\ Scanned(next', rest') => Scanned(next, rest)'
      /\ ReadTo(argNum', rest') => ReadTo(argNum, rest)'
  BY <1>1, <1>2, <1>3 DEF Scanned, Early, Admitted, Collected, ReadTo
<1>5. FitsOptions(args', next') => FitsOptions(args, next)'
  BY <1>1, <1>2, <1>3 DEF FitsOptions, LastBefore, Stored
<1>6. FitsWords(args', argNum', rest') => FitsWords(args, argNum, rest)'
  BY <1>1 DEF FitsWords, TakenFrom, Stored
<1>7. /\ HasFile(args') => HasFile(args)'
      /\ Means(args', Fields) => Means(args, Fields)'
      /\ Means(args', Fields \ {"msg"}) => Means(args, Fields \ {"msg"})'
  BY <1>1, <1>3 DEF HasFile, Means
<1> QED
  BY <1>1, <1>3, <1>4, <1>5, <1>6, <1>7 DEF ArgInv, Holds, WhileReading, IsArgs

-----------------------------------------------------------------------------
(* One word after the other.                                               *)

LEMMA ScanStart ==
    ASSUME Called
    PROVE  Scanned(1, <<>>) /\ FitsOptions(Defaults(prog), 1) /\ FitsWords(Defaults(prog), 0, <<>>)
<1>1. /\ Len(argv) \in Nat /\ OptionAt \in SUBSET (1..Len(argv))
      /\ Markers \in SUBSET (1..Len(argv)) /\ Free \in SUBSET (1..Len(argv))
  BY LineIs, WordsAre
<1>2. /\ \A k \in OptionAt : k >= 1 /\ ~(k < 1)
      /\ \A k \in Free : ~(k < 1) /\ ~(k <= 1 - 1)
      /\ \A k \in Markers : k >= 1
      /\ 1 \in 1..(Len(argv) + 1) /\ 1 - 1 \notin OptionAt
  BY <1>1
<1>3. UpTo(Free, 1 - 1) = {}
  BY <1>2 DEF UpTo
<1>4. Cardinality(UpTo(Free, 1 - 1)) = 0
  BY <1>3, FS_EmptySet
<1>5. Collected(1, <<>>)
  BY <1>2, <1>4 DEF Collected
<1>6. Scanned(1, <<>>)
  BY <1>2, <1>5 DEF Scanned, Early
<1>7. FitsOptions(Defaults(prog), 1)
  BY <1>2 DEF FitsOptions, Given
<1>8. \A q \in DOMAIN Positionals : ~(q <= 0)
  BY PositionalsAre DEF Called
<1>9. FitsWords(Defaults(prog), 0, <<>>)
  BY <1>8 DEF FitsWords, TakenFrom
<1> QED
  BY <1>6, <1>7, <1>9

\* A word that stands where an option can, and does not say that it is one.
LEMMA WordIsFree ==
    ASSUME Called, NEW p \in 1..Len(argv), p - 1 \notin OptionAt, Early(p),
           argv[p] \notin DOMAIN Options, Java \/ argv[p] # "--"
    PROVE  p \notin OptionAt /\ p \in Free /\ ~Behind(p) /\ Early(p + 1)
<1>1. p \notin OptionAt /\ p \notin Markers /\ p \in Free
  BY WordsAre
<1>2. Markers \in SUBSET (1..Len(argv)) /\ Len(argv) \in Nat
  BY WordsAre, LineIs
<1>3. \A j \in Markers : ~(j < p) /\ j >= p + 1
  BY <1>1, <1>2 DEF Early
<1> QED
  BY <1>1, <1>3 DEF Behind, Early

LEMMA WordIsOption ==
    ASSUME Called, NEW p \in 1..Len(argv), p - 1 \notin OptionAt, Early(p),
           argv[p] \in DOMAIN Options
    PROVE  /\ p \in OptionAt /\ p + 1 \notin OptionAt /\ p \notin Free /\ p + 1 \notin Free
           /\ Early(p + 2)
<1>1. p \in OptionAt
  BY WordsAre
<1>2. /\ OptionAt \in SUBSET (1..Len(argv)) /\ Markers \in SUBSET (1..Len(argv))
      /\ Free \in SUBSET (1..Len(argv)) /\ Len(argv) \in Nat
  BY WordsAre, LineIs
<1>3. (p + 1) - 1 = p
  OBVIOUS
<1>4. p + 1 \notin OptionAt /\ p + 1 \notin Free /\ p + 1 \notin Markers
  BY <1>1, <1>2, <1>3, WordsAre
<1>5. p \notin Free /\ p \notin Markers
  <2>1. argv[p] # "--"
    BY OptionsAre DEF Called
  <2> QED
    BY <1>1, <2>1, WordsAre
<1>6. \A j \in Markers : j >= p + 2
  BY <1>2, <1>4, <1>5 DEF Early
<1> QED
  BY <1>1, <1>4, <1>5, <1>6 DEF Early

LEMMA WordIsMarker ==
    ASSUME Called, NEW p \in 1..Len(argv), p - 1 \notin OptionAt, Early(p),
           ~Java, argv[p] = "--"
    PROVE  /\ p \in Markers /\ p \notin OptionAt /\ p \notin Free
           /\ \A k \in (p + 1)..Len(argv) : k \notin OptionAt /\ k \in Free /\ Behind(k)
<1>1. p \in Markers
  BY WordsAre
<1>2. Markers \in SUBSET (1..Len(argv)) /\ Len(argv) \in Nat
  BY WordsAre, LineIs
<1>3. argv[p] \notin DOMAIN Options
  BY OptionsAre DEF Called
<1>4. p \notin OptionAt /\ p \notin Free
  <2>1. \A j \in Markers : ~(j < p)
    BY <1>2 DEF Early
  <2>2. ~Behind(p)
    BY <2>1 DEF Behind
  <2> QED
    BY <1>1, <1>3, <2>2, WordsAre
<1>5. ASSUME NEW k \in (p + 1)..Len(argv) PROVE k \notin OptionAt /\ Behind(k)
  <2>1. ~(p >= k) /\ p < k
    BY <1>2
  <2> QED
    BY <1>1, <2>1, WordsAre DEF Early, Behind
<1>6. ASSUME NEW k \in (p + 1)..Len(argv) PROVE k \in Free
  <2>1. k \in 1..Len(argv) /\ (k - 1 = p \/ k - 1 \in (p + 1)..Len(argv))
    BY <1>2
  <2>2. k - 1 \notin OptionAt /\ k \notin OptionAt /\ Behind(k)
    BY <1>4, <1>5, <2>1
  <2> QED
    BY <2>1, <2>2, WordsAre
<1> QED
  BY <1>1, <1>4, <1>5, <1>6

\* How the words add up.
LEMMA CountFree ==
    ASSUME Called
    PROVE  /\ \A m \in Nat : Cardinality(UpTo(Free, m)) \in Nat /\ Place(m) = Cardinality(UpTo(Free, m))
           /\ \A m \in Nat : m + 1 \in Free => Place(m + 1) = Place(m) + 1
           /\ \A m \in Nat : m + 1 \notin Free => Place(m + 1) = Place(m)
           /\ Cardinality(Free) \in Nat /\ Place(Len(argv)) = Cardinality(Free)
           /\ \A m \in Nat : Place(m) <= Cardinality(Free)
           /\ \A k \in Free, m \in Nat : k <= m => Place(k) \in 1..Place(m)
           /\ \A m \in Nat : \A i \in 1..Place(m) : \E k \in Free : k <= m /\ Place(k) = i
           /\ \A k \in Free, j \in Free : Place(k) = Place(j) => k = j
<1> DEFINE n == Len(argv)
<1>1. n \in Nat /\ Free \in SUBSET (1..n)
  BY LineIs, WordsAre
<1>2. \A m : Place(m) = Cardinality(UpTo(Free, m))
  BY DEF Place, UpTo
<1>3. \A k \in Free : k \in Nat
  BY <1>1
<1> HIDE DEF n
<1>4. \A m \in Nat : /\ Cardinality(UpTo(Free, m)) \in Nat /\ Cardinality(UpTo(Free, m)) <= Cardinality(Free)
                     /\ Cardinality(Free) \in Nat
                     /\ m >= n => UpTo(Free, m) = Free
                     /\ m + 1 \in Free => Cardinality(UpTo(Free, m + 1)) = Cardinality(UpTo(Free, m)) + 1
                     /\ m + 1 \notin Free => UpTo(Free, m + 1) = UpTo(Free, m)
  BY <1>1, CountUp
<1>5. /\ \A k \in Free, j \in Free : Cardinality(UpTo(Free, k)) = Cardinality(UpTo(Free, j)) => k = j
      /\ \A m \in Nat : \A i \in 1..Cardinality(UpTo(Free, m)) :
           \E k \in Free : k <= m /\ Cardinality(UpTo(Free, k)) = i
      /\ \A m \in Nat : \A k \in Free : k <= m =>
           Cardinality(UpTo(Free, k)) \in 1..Cardinality(UpTo(Free, m))
  BY <1>1, Places
<1>6. Place(Len(argv)) = Cardinality(Free) /\ Cardinality(Free) \in Nat
  <2>1. n >= n
    BY <1>1
  <2>2. UpTo(Free, n) = Free
    BY <1>1, <1>4, <2>1
  <2> QED
    BY <1>1, <1>2, <1>4, <2>2 DEF n
<1>7. /\ \A k \in Free, m \in Nat : k <= m => Place(k) \in 1..Place(m)
      /\ \A m \in Nat : \A i \in 1..Place(m) : \E k \in Free : k <= m /\ Place(k) = i
      /\ \A k \in Free, j \in Free : Place(k) = Place(j) => k = j
  BY <1>2, <1>5
<1>8. /\ \A m \in Nat : m + 1 \in Free => Place(m + 1) = Place(m) + 1
      /\ \A m \in Nat : m + 1 \notin Free => Place(m + 1) = Place(m)
      /\ \A m \in Nat : Place(m) <= Cardinality(Free)
  BY <1>2, <1>4
<1> QED
  BY <1>2, <1>4, <1>6, <1>7, <1>8

\* Where the next word is.
LEMMA WordAt ==
    ASSUME Called, NEW p, NEW words, Scanned(p, words), p <= Len(argv)
    PROVE  /\ p \in 1..Len(argv) /\ p \in Nat /\ p - 1 \in Nat /\ (p - 1) + 1 = p
           /\ p - 1 \notin OptionAt /\ Early(p)
<1>1. Len(argv) \in Nat
  BY LineIs
<1> QED
  BY <1>1 DEF Scanned

LEMMA ScanOption ==
    ASSUME Called, NEW p, NEW words, Scanned(p, words), p < Len(argv),
           argv[p] \in DOMAIN Options, Options[argv[p]] \in Numeric => Readable(argv[p + 1])
    PROVE  Scanned(p + 2, words)
<1>1. Len(argv) \in Nat /\ p <= Len(argv)
  BY LineIs DEF Scanned
<1>2. /\ p \in 1..Len(argv) /\ p \in Nat /\ p - 1 \in Nat /\ (p - 1) + 1 = p
      /\ p - 1 \notin OptionAt /\ Early(p)
  BY <1>1, WordAt
<1>3. p \in OptionAt /\ p + 1 \notin OptionAt /\ p \notin Free /\ p + 1 \notin Free /\ Early(p + 2)
  BY <1>2, WordIsOption
<1>4. \A k \in Nat : k < p + 2 <=> k < p \/ k = p \/ k = p + 1
  BY <1>2
<1>5. (\A k \in OptionAt : k \in Nat) /\ (\A k \in Free : k \in Nat)
  <2>1. OptionAt \in SUBSET (1..Len(argv)) /\ Free \in SUBSET (1..Len(argv))
    BY WordsAre
  <2> QED
    BY <1>1, <2>1
<1>6. /\ p + 2 \in 1..(Len(argv) + 1) /\ (p + 2) - 1 = p + 1
  BY <1>1, <1>2
<1>7. \A k \in OptionAt : k < p + 2 =>
        k < Len(argv) /\ (Options[argv[k]] \in Numeric => Readable(argv[k + 1]))
  BY <1>3, <1>4, <1>5 DEF Scanned
<1>8. \A k \in Free : k < p + 2 => k < p
  BY <1>3, <1>4, <1>5
<1>9. Cardinality(UpTo(Free, p + 1)) = Cardinality(UpTo(Free, p - 1))
  <2>1. \A k \in Free : k <= p + 1 <=> k <= p - 1
    BY <1>2, <1>5, <1>8
  <2>2. UpTo(Free, p + 1) = UpTo(Free, p - 1)
    BY <2>1 DEF UpTo
  <2> QED
    BY <2>2
<1>10. Collected(p + 2, words)
  BY <1>6, <1>8, <1>9 DEF Scanned, Collected
<1> QED
  BY <1>3, <1>6, <1>7, <1>8, <1>10 DEF Scanned

LEMMA FitsOption ==
    ASSUME Called, NEW p, NEW words, Scanned(p, words), p < Len(argv),
           argv[p] \in DOMAIN Options, NEW g, IsArgs(g), FitsOptions(g, p)
    PROVE  FitsOptions([g EXCEPT ![Options[argv[p]]] = Stored(Options[argv[p]], argv[p + 1])], p + 2)
<1> DEFINE field == Options[argv[p]]
           h == [g EXCEPT ![field] = Stored(field, argv[p + 1])]
<1>1. Len(argv) \in Nat /\ p <= Len(argv)
  BY LineIs DEF Scanned
<1>2. p \in 1..Len(argv) /\ p \in Nat /\ p - 1 \notin OptionAt /\ Early(p)
  BY <1>1, WordAt
<1>3. p \in OptionAt /\ p + 1 \notin OptionAt
  BY <1>2, WordIsOption
<1>4. /\ \A k \in Nat : k < p + 2 <=> k < p \/ k = p \/ k = p + 1
      /\ \A k \in Nat : k < p => k <= p
      /\ p <= p /\ p < p + 2
      /\ \A k \in Nat : (k >= p <=> ~(k < p)) /\ (k >= p + 2 <=> ~(k < p + 2))
  BY <1>2
<1>5. \A f : Given(f) \subseteq OptionAt /\ Given(f) \subseteq Nat
  <2>1. OptionAt \in SUBSET (1..Len(argv))
    BY WordsAre
  <2>2. \A k \in OptionAt : k \in Nat
    BY <1>1, <2>1
  <2>3. \A f : Given(f) \subseteq OptionAt
    BY DEF Given
  <2> QED
    BY <2>2, <2>3
<1>6. /\ h[field] = Stored(field, argv[p + 1])
      /\ \A f \in Fields : f # field => h[f] = g[f]
  <2>1. field \in Fields
    BY <1>2, OptionsAre DEF Called
  <2> QED
    BY <2>1 DEF IsArgs
<1>7. p \in Given(field) /\ \A f : p \in Given(f) => f = field
  BY <1>3 DEF Given
<1> HIDE DEF field, h
<1> SUFFICES ASSUME NEW f \in Fields \ Named
             PROVE  \/ (\A k \in Given(f) : k >= p + 2) /\ h[f] = Defaults(prog)[f]
                    \/ \E k \in OptionAt : LastBefore(k, f, p + 2) /\ h[f] = Stored(f, argv[k + 1])
  BY DEF FitsOptions, field, h
<1>8. CASE f = field
  <2>1. LastBefore(p, f, p + 2)
    BY <1>3, <1>4, <1>5, <1>7, <1>8 DEF LastBefore
  <2> QED
    BY <1>3, <1>6, <1>8, <2>1
<1>9. CASE f # field
  <2>1. \A k \in Given(f) : k < p + 2 <=> k < p
    BY <1>3, <1>4, <1>5, <1>7, <1>9
  <2>2. \A k \in Given(f) : k >= p + 2 <=> k >= p
    BY <1>4, <1>5, <2>1
  <2>3. \A k : LastBefore(k, f, p + 2) <=> LastBefore(k, f, p)
    BY <2>1 DEF LastBefore
  <2>4. h[f] = g[f]
    BY <1>6, <1>9
  <2> QED
    BY <2>2, <2>3, <2>4 DEF FitsOptions
<1> QED
  BY <1>8, <1>9

\* Nothing changes for the options as long as none is passed.
LEMMA FitsNoOption ==
    ASSUME Called, NEW p \in Nat, NEW q \in Nat, \A k \in OptionAt : k < p <=> k < q,
           NEW g, FitsOptions(g, p)
    PROVE  FitsOptions(g, q)
<1>1. Len(argv) \in Nat /\ OptionAt \in SUBSET (1..Len(argv))
  BY LineIs, WordsAre
<1>2. \A k \in OptionAt : k >= p <=> k >= q
  BY <1>1
<1>3. \A f : Given(f) \subseteq OptionAt
  BY DEF Given
<1>4. \A k, f : LastBefore(k, f, p) <=> LastBefore(k, f, q)
  BY <1>3 DEF LastBefore
<1> QED
  BY <1>2, <1>3, <1>4 DEF FitsOptions

LEMMA ScanWord ==
    ASSUME Called, NEW p, NEW words, Scanned(p, words), p <= Len(argv),
           argv[p] \notin DOMAIN Options, Java \/ argv[p] # "--",
           argv[p] # "--help", Java \/ argv[p] \notin Dashed, ~(Java /\ words # <<>>)
    PROVE  Scanned(p + 1, Append(words, argv[p])) /\ \A k \in OptionAt : k < p <=> k < p + 1
<1>1. /\ p \in 1..Len(argv) /\ p \in Nat /\ p - 1 \in Nat /\ (p - 1) + 1 = p
      /\ p - 1 \notin OptionAt /\ Early(p)
  BY WordAt
<1>2. p \notin OptionAt /\ p \in Free /\ ~Behind(p) /\ Early(p + 1)
  BY <1>1, WordIsFree
<1>3. Len(argv) \in Nat /\ p + 1 \in 1..(Len(argv) + 1) /\ (p + 1) - 1 = p
  BY <1>1, LineIs
<1>4. (\A k \in OptionAt : k \in Nat) /\ (\A k \in Free : k \in Nat)
  <2>1. OptionAt \in SUBSET (1..Len(argv)) /\ Free \in SUBSET (1..Len(argv))
    BY WordsAre
  <2> QED
    BY <1>3, <2>1
<1>5. \A k \in Nat : (k < p + 1 <=> k < p \/ k = p) /\ (k < p <=> k <= p - 1) /\ ~(p < p)
  BY <1>1
<1>6. \A k \in OptionAt : k < p <=> k < p + 1
  BY <1>2, <1>4, <1>5
<1>7. Admitted(p)
  BY DEF Admitted
<1>8. \A k \in Free : k < p + 1 => Admitted(k)
  BY <1>4, <1>5, <1>7 DEF Scanned
<1> DEFINE more == Append(words, argv[p])
           m == p - 1
<1>9. /\ words \in Seq(Range(argv)) /\ Len(words) = Cardinality(UpTo(Free, m))
      /\ Java => Len(words) <= 1
      /\ \A k \in Free : k < p => words[Place(k)] = argv[k]
  BY DEF Scanned, Collected
<1>10. argv[p] \in Range(argv)
  BY <1>1, LineIs
<1>11. /\ more \in Seq(Range(argv)) /\ Len(more) = Len(words) + 1 /\ Len(words) \in Nat
       /\ \A i \in 1..Len(words) : more[i] = words[i]
       /\ more[Len(words) + 1] = argv[p]
  BY <1>9, <1>10
<1>12. /\ m \in Nat /\ m + 1 = p /\ Place(m) = Cardinality(UpTo(Free, m))
       /\ Place(p) = Cardinality(UpTo(Free, p)) /\ Place(p) = Place(m) + 1
  BY <1>1, <1>2, CountFree
<1>13. \A k \in Free : k < p => Place(k) \in 1..Place(m)
  <2>1. \A k \in Free : k < p => k <= m
    BY <1>4, <1>5
  <2> QED
    BY <1>12, <2>1, CountFree
<1> HIDE DEF more, m
<1>14. Len(more) = Cardinality(UpTo(Free, p)) /\ Len(words) = Place(m)
  BY <1>9, <1>11, <1>12
<1>15. \A k \in Free : k < p + 1 => more[Place(k)] = argv[k]
  <2> SUFFICES ASSUME NEW k \in Free, k < p + 1 PROVE more[Place(k)] = argv[k]
    OBVIOUS
  <2>1. CASE k < p
    BY <1>9, <1>11, <1>13, <1>14, <2>1
  <2>2. CASE k = p
    BY <1>11, <1>12, <1>14, <2>2
  <2> QED
    BY <1>4, <1>5, <2>1, <2>2
<1>16. Java => Len(more) <= 1
  <2>1. Java => Len(words) = 0
    BY <1>9
  <2> QED
    BY <1>11, <2>1
<1>17. Collected(p + 1, more)
  BY <1>3, <1>11, <1>14, <1>15, <1>16 DEF Collected
<1> QED
  BY <1>2, <1>3, <1>6, <1>8, <1>17 DEF Scanned, more

LEMMA JoinedBehind ==
    ASSUME NEW S, NEW words \in Seq(S), NEW line \in Seq(S), NEW p \in 1..Len(line),
           NEW more, more = words \o SubSeq(line, p + 1, Len(line))
    PROVE  /\ Len(words) \in Nat /\ more \in Seq(S) /\ Len(more) = Len(words) + (Len(line) - p)
           /\ \A i \in 1..Len(words) : more[i] = words[i]
           /\ \A i \in 1..(Len(line) - p) : more[Len(words) + i] = line[p + i]
<1> DEFINE behind == SubSeq(line, p + 1, Len(line))
           d == Len(line) - p
           w == Len(words)
<1>1. Len(line) \in Nat /\ p \in Nat /\ d \in Nat /\ w \in Nat
  OBVIOUS
<1>2. \A i \in (p + 1)..Len(line) : i \in 1..Len(line)
  BY <1>1
<1>3. \A i \in (p + 1)..Len(line) : line[i] \in S
  BY <1>2
<1>4. p + 1 \in Int /\ Len(line) \in Int
  BY <1>1
<1>5. /\ behind \in Seq(S)
      /\ Len(behind) = IF p + 1 <= Len(line) THEN Len(line) - (p + 1) + 1 ELSE 0
      /\ \A i \in 1..(Len(line) - (p + 1) + 1) : behind[i] = line[(p + 1) + i - 1]
  BY <1>3, <1>4, SubSeqProperties
<1>6. /\ Len(behind) = d /\ Len(line) - (p + 1) + 1 = d
      /\ \A i \in 1..d : (p + 1) + i - 1 = p + i
  BY <1>1, <1>5
<1>7. /\ behind \in Seq(S) /\ Len(behind) = d
      /\ \A i \in 1..d : behind[i] = line[p + i]
  BY <1>5, <1>6
<1> HIDE DEF behind, d
<1>8. /\ words \o behind \in Seq(S) /\ Len(words \o behind) = w + d
      /\ \A i \in 1..(w + d) : (words \o behind)[i] = IF i <= w THEN words[i] ELSE behind[i - w]
  BY <1>7, ConcatProperties
<1>9. more = words \o behind
  BY DEF behind
<1> HIDE DEF w
<1>10. ASSUME NEW i \in 1..w PROVE more[i] = words[i]
  <2>1. i \in 1..(w + d) /\ i <= w
    BY <1>1
  <2> QED
    BY <1>8, <1>9, <2>1
<1>11. ASSUME NEW i \in 1..d PROVE more[w + i] = line[p + i]
  <2>1. w + i \in 1..(w + d) /\ ~(w + i <= w) /\ (w + i) - w = i
    BY <1>1
  <2> QED
    BY <1>7, <1>8, <1>9, <2>1
<1> QED
  BY <1>1, <1>8, <1>9, <1>10, <1>11 DEF w, d

LEMMA ScanMarker ==
    ASSUME Called, NEW p, NEW words, Scanned(p, words), p <= Len(argv), ~Java, argv[p] = "--"
    PROVE  /\ Scanned(Len(argv) + 1, words \o SubSeq(argv, p + 1, Len(argv)))
           /\ \A k \in OptionAt : k < p <=> k < Len(argv) + 1
<1> DEFINE n == Len(argv)
           more == words \o SubSeq(argv, p + 1, n)
           m == p - 1
<1>1. /\ p \in 1..n /\ p \in Nat /\ m \in Nat /\ m + 1 = p /\ p - 1 \notin OptionAt /\ Early(p)
  BY WordAt
<1>2. /\ p \notin OptionAt /\ p \notin Free
      /\ \A k \in (p + 1)..n : k \notin OptionAt /\ k \in Free /\ Behind(k)
  BY <1>1, WordIsMarker
<1>3. n \in Nat /\ n + 1 \in 1..(n + 1) /\ (n + 1) - 1 = n /\ n - p \in Nat
  BY <1>1, LineIs
<1>4. (\A k \in OptionAt : k \in 1..n) /\ (\A k \in Free : k \in 1..n)
  BY WordsAre
<1> HIDE DEF m, n
<1>5. \A k \in 1..n : k < p \/ k = p \/ k \in (p + 1)..n
  BY <1>1, <1>3
<1>6. \A k \in 1..n : k < n + 1
  BY <1>3
<1>7. \A k \in OptionAt : k < p /\ k < n + 1
  BY <1>2, <1>4, <1>5, <1>6
<1>8. n \notin OptionAt
  <2>1. n = p \/ n \in (p + 1)..n
    BY <1>1, <1>3
  <2> QED
    BY <1>2, <2>1
<1>9. /\ words \in Seq(Range(argv)) /\ Len(words) = Cardinality(UpTo(Free, p - 1))
      /\ \A k \in Free : k < p => words[Place(k)] = argv[k]
  BY DEF Scanned, Collected
<1> HIDE DEF more
<1>10. /\ Len(words) \in Nat /\ more \in Seq(Range(argv)) /\ Len(more) = Len(words) + (n - p)
       /\ \A i \in 1..Len(words) : more[i] = words[i]
       /\ \A i \in 1..(n - p) : more[Len(words) + i] = argv[p + i]
  <2>1. argv \in Seq(Range(argv)) /\ p \in 1..Len(argv)
    BY <1>1 DEF Called, n
  <2>2. more = words \o SubSeq(argv, p + 1, Len(argv)) /\ words \in Seq(Range(argv)) /\ Len(argv) = n
    BY <1>9 DEF more, n
  <2>3. PICK S : S = Range(argv)
    OBVIOUS
  <2>4. /\ Len(words) \in Nat /\ more \in Seq(S) /\ Len(more) = Len(words) + (Len(argv) - p)
        /\ \A i \in 1..Len(words) : more[i] = words[i]
        /\ \A i \in 1..(Len(argv) - p) : more[Len(words) + i] = argv[p + i]
    <3>1. words \in Seq(S) /\ argv \in Seq(S)
      BY <2>1, <2>2, <2>3
    <3> QED
      BY <2>1, <2>2, <3>1, JoinedBehind
  <2> QED
    BY <2>2, <2>3, <2>4
<1>11. Len(words) = Place(m) /\ Place(m) \in Nat /\ Place(p) = Place(m)
  <2>1. Place(m) = Cardinality(UpTo(Free, m)) /\ Place(m) \in Nat
    BY <1>1, CountFree
  <2>2. m + 1 \notin Free
    BY <1>1, <1>2
  <2>3. Place(m + 1) = Place(m)
    BY <1>1, <2>2, CountFree
  <2> QED
    BY <1>1, <1>9, <2>1, <2>3 DEF m
<1>12. \A d \in Nat : d <= n - p => Place(p + d) = Place(m) + d
  <2> DEFINE G == {d \in Nat : d <= n - p => Place(p + d) = Place(m) + d}
  <2>1. p + 0 = p /\ Place(m) + 0 = Place(m)
    BY <1>1, <1>11
  <2>2. 0 \in G
    BY <1>11, <2>1
  <2>3. ASSUME NEW d \in G PROVE d + 1 \in G
    <3> SUFFICES ASSUME d + 1 <= n - p PROVE Place(p + (d + 1)) = Place(m) + (d + 1)
      OBVIOUS
    <3>1. d <= n - p /\ p + d \in Nat /\ p + (d + 1) = (p + d) + 1 /\ (p + d) + 1 \in (p + 1)..n
      BY <1>1, <1>3
    <3>2. Place(p + d) = Place(m) + d
      BY <3>1
    <3>3. Place((p + d) + 1) = Place(p + d) + 1
      BY <1>2, <3>1, CountFree
    <3> QED
      BY <1>11, <3>1, <3>2, <3>3
  <2>4. G \in SUBSET Nat
    OBVIOUS
  <2>5. G = Nat
    <3> HIDE DEF G
    <3> QED
      BY <2>2, <2>3, <2>4, NumbersByInduction
  <2> QED
    BY <2>5
<1>13. Len(more) = Cardinality(UpTo(Free, n))
  <2>1. n - p <= n - p /\ p + (n - p) = n
    BY <1>1, <1>3
  <2>2. Place(n) = Place(m) + (n - p)
    BY <1>3, <1>12, <2>1
  <2>3. Place(n) = Cardinality(UpTo(Free, n))
    BY <1>3, CountFree
  <2> QED
    BY <1>10, <1>11, <2>2, <2>3
<1>14. ASSUME NEW k \in Free PROVE more[Place(k)] = argv[k]
  <2>1. CASE k < p
    <3>1. k \in Nat /\ k <= m
      BY <1>1, <1>3, <1>4, <2>1
    <3>2. Place(k) \in 1..Place(m)
      BY <1>1, <3>1, CountFree
    <3> QED
      BY <1>9, <1>10, <1>11, <2>1, <3>2
  <2>2. CASE k \in (p + 1)..n
    <3>1. PICK d \in 1..(n - p) : k = p + d
      <4>1. k - p \in 1..(n - p) /\ k = p + (k - p)
        BY <1>1, <1>3, <2>2
      <4> QED
        BY <4>1
    <3>2. d \in Nat /\ d <= n - p
      BY <1>3
    <3>3. Place(k) = Place(m) + d
      BY <1>12, <3>1, <3>2
    <3> QED
      BY <1>10, <1>11, <3>1, <3>3
  <2> QED
    BY <1>2, <1>4, <1>5, <2>1, <2>2
<1>15. Collected(n + 1, more)
  BY <1>3, <1>10, <1>13, <1>14 DEF Collected
<1>16. ASSUME NEW k \in Free PROVE Admitted(k)
  BY <1>2, <1>4, <1>5 DEF Scanned, Admitted
<1>17. \A k \in OptionAt : k < n /\ (Options[argv[k]] \in Numeric => Readable(argv[k + 1]))
  BY <1>7 DEF Scanned, n
<1>18. Scanned(n + 1, more)
  BY <1>3, <1>8, <1>15, <1>16, <1>17 DEF Scanned, n
<1> QED
  BY <1>7, <1>18 DEF n, more

-----------------------------------------------------------------------------
(* The words that are no options, and the end.                             *)

LEMMA AllScanned ==
    ASSUME Called, NEW words, Scanned(Len(argv) + 1, words)
    PROVE  /\ Len(words) \in Nat /\ Len(words) = Cardinality(Free) /\ (Java => Len(words) <= 1)
           /\ \A k \in Free : Place(k) \in 1..Len(words) /\ words[Place(k)] = argv[k] /\ Admitted(k)
           /\ \A q \in 1..Len(words) : words[q] # None /\ \E k \in Free : Place(k) = q
           /\ \A k \in OptionAt : /\ k < Len(argv) /\ k + 1 \in 1..Len(argv)
                                  /\ Options[argv[k]] \in Numeric => Readable(argv[k + 1])
<1> DEFINE n == Len(argv)
<1>1. n \in Nat /\ (n + 1) - 1 = n
  BY LineIs
<1>2. (\A k \in OptionAt : k \in 1..n) /\ (\A k \in Free : k \in 1..n)
  BY WordsAre
<1>3. \A k \in 1..n : k < n + 1 /\ k <= n
  BY <1>1
<1>4. Collected(n + 1, words)
  BY DEF Scanned
<1>5. Place(n) = Cardinality(Free) /\ Place(n) = Cardinality(UpTo(Free, n)) /\ Place(n) \in Nat
  BY <1>1, CountFree
<1> HIDE DEF n
<1>6. Len(words) = Cardinality(UpTo(Free, n)) /\ \A k \in Free : words[Place(k)] = argv[k]
  BY <1>1, <1>2, <1>3, <1>4 DEF Collected
<1>7. Len(words) = Place(n)
  BY <1>5, <1>6
<1>8. \A k \in Free : Place(k) \in 1..Place(n)
  BY <1>1, <1>2, <1>3, CountFree
<1>9. \A q \in 1..Place(n) : \E k \in Free : k <= n /\ Place(k) = q
  BY <1>1, CountFree
<1>10. ASSUME NEW q \in 1..Len(words) PROVE words[q] # None /\ \E k \in Free : Place(k) = q
  <2>1. PICK k \in Free : Place(k) = q
    BY <1>7, <1>9
  <2>2. argv[k] # None
    BY <1>2, LineIs DEF n
  <2> QED
    BY <1>6, <2>1, <2>2
<1>11. \A k \in Free : Admitted(k)
  BY <1>2, <1>3 DEF Scanned, n
<1>12. \A k \in OptionAt : /\ k < n
                           /\ Options[argv[k]] \in Numeric => Readable(argv[k + 1])
  BY <1>2, <1>3 DEF Scanned, n
<1>13. \A k \in OptionAt : k + 1 \in 1..n
  BY <1>1, <1>2, <1>12
<1>14. Java => Len(words) <= 1
  BY <1>4 DEF Collected
<1> QED
  BY <1>5, <1>6, <1>7, <1>8, <1>10, <1>11, <1>12, <1>13, <1>14 DEF n

LEMMA ArgumentRefused ==
    ASSUME Called, NEW words, Scanned(Len(argv) + 1, words),
           NEW q \in 1..Len(words),
           \/ ~(q <= Len(Positionals))
           \/ Positionals[q] \in Numeric /\ ~Readable(words[q])
    PROVE  ~Accepted
<1>1. PICK k \in Free : Place(k) = q
  BY AllScanned
<1>2. words[q] = argv[k]
  BY <1>1, AllScanned
<1> QED
  BY <1>1, <1>2 DEF Accepted

\* Options and the other words have different fields.
LEMMA FitsWordsOption ==
    ASSUME Called, NEW g, IsArgs(g), NEW w \in DOMAIN Options, NEW v, NEW i, NEW words,
           FitsWords(g, i, words)
    PROVE  FitsWords([g EXCEPT ![Options[w]] = v], i, words) /\ IsArgs([g EXCEPT ![Options[w]] = v])
<1> DEFINE h == [g EXCEPT ![Options[w]] = v]
<1>1. Options[w] \in Fields /\ Options[w] \notin Named
  BY OptionsAre DEF Called
<1>2. h = [f \in Fields |-> h[f]] /\ \A f \in Fields \cap Named : h[f] = g[f]
  BY <1>1 DEF IsArgs
<1> HIDE DEF h
<1>3. FitsWords(h, i, words)
  BY <1>2 DEF FitsWords
<1> QED
  BY <1>2, <1>3 DEF h, IsArgs

LEMMA FitsNextWord ==
    ASSUME Called, NEW g, IsArgs(g), NEW p, FitsOptions(g, p), NEW i \in Nat, NEW words,
           FitsWords(g, i, words), i < Len(Positionals), NEW h,
           h = [g EXCEPT ![Positionals[i + 1]] = Stored(Positionals[i + 1], words[i + 1])]
    PROVE  IsArgs(h) /\ FitsOptions(h, p) /\ FitsWords(h, i + 1, words)
<1> DEFINE field == Positionals[i + 1]
<1>1. Len(Positionals) \in Nat /\ DOMAIN Positionals = 1..Len(Positionals)
  BY PositionalsAre DEF Called
<1>2. i + 1 \in DOMAIN Positionals
  BY <1>1
<1>3. field \in Fields /\ field \in Named
  BY <1>2, PositionalsAre DEF Called
<1>4. h[field] = Stored(field, words[i + 1]) /\ h = [f \in Fields |-> h[f]]
  BY <1>3 DEF IsArgs
<1>5. \A f \in Fields : f # field => h[f] = g[f]
  BY <1>3 DEF IsArgs
<1>6. \A q \in DOMAIN Positionals : q <= i + 1 <=> q <= i \/ q = i + 1
  BY <1>1
<1>7. i + 1 <= i + 1 /\ \A q \in DOMAIN Positionals : Positionals[q] = field => q = i + 1
  BY <1>2, PositionalsAre DEF Called
<1> HIDE DEF field
<1>8. FitsOptions(h, p)
  BY <1>3, <1>5 DEF FitsOptions
<1> SUFFICES ASSUME NEW f \in Fields \cap Named
             PROVE  \/ /\ \A q \in DOMAIN Positionals : ~TakenFrom(q, f, i + 1)
                       /\ h[f] = Defaults(prog)[f]
                    \/ \E q \in DOMAIN Positionals :
                         TakenFrom(q, f, i + 1) /\ h[f] = Stored(f, words[q])
  BY <1>4, <1>8 DEF FitsWords, IsArgs
<1>9. CASE f = field
  <2>1. TakenFrom(i + 1, f, i + 1)
    BY <1>7, <1>9 DEF TakenFrom, field
  <2> QED
    BY <1>2, <1>4, <1>9, <2>1
<1>10. CASE f # field
  <2>1. Positionals[i + 1] # f
    BY <1>10 DEF field
  <2>2. \A q \in DOMAIN Positionals : TakenFrom(q, f, i + 1) <=> TakenFrom(q, f, i)
    BY <1>6, <2>1 DEF TakenFrom
  <2>3. h[f] = g[f]
    BY <1>5, <1>10
  <2> QED
    BY <2>2, <2>3 DEF FitsWords
<1> QED
  BY <1>9, <1>10

\* What is left to ask when all has been read.
LEMMA AcceptedIs ==
    ASSUME Called, NEW words, Scanned(Len(argv) + 1, words), ReadTo(Len(words), words)
    PROVE  Accepted <=>
             /\ prog = "collatz" => argv # <<>>
             /\ prog = "trace6" => Len(words) = 1
             /\ prog = "asciiclient" => Len(words) = 2 /\ Given("file") \cup Given("msg") # {}
<1>1. /\ Len(words) = Cardinality(Free)
      /\ \A k \in Free : Place(k) \in 1..Len(words) /\ words[Place(k)] = argv[k] /\ Admitted(k)
      /\ \A k \in OptionAt : /\ k < Len(argv)
                             /\ Options[argv[k]] \in Numeric => Readable(argv[k + 1])
  BY AllScanned
<1>2. Len(argv) \notin OptionAt
  <2>1. ~(Len(argv) < Len(argv))
    BY LineIs
  <2> QED
    BY <1>1, <2>1
<1>3. \A k \in Free : /\ Place(k) <= Len(Positionals)
                      /\ Positionals[Place(k)] \in Numeric => Readable(argv[k])
                      /\ Behind(k) \/ (argv[k] # "--help" /\ (Java \/ argv[k] \notin Dashed))
  BY <1>1 DEF ReadTo, Admitted
<1> QED
  BY <1>1, <1>2, <1>3 DEF Accepted

LEMMA OptionMeans ==
    ASSUME Called, NEW g, FitsOptions(g, Len(argv) + 1), NEW f \in Fields \ Named
    PROVE  \/ Given(f) = {} /\ g[f] = Defaults(prog)[f]
           \/ Given(f) # {} /\ Latest(f) \in OptionAt /\ g[f] = Stored(f, argv[Latest(f) + 1])
<1>1. Len(argv) \in Nat /\ OptionAt \in SUBSET (1..Len(argv))
  BY LineIs, WordsAre
<1>2. \A k \in 1..Len(argv) : k < Len(argv) + 1 /\ ~(k >= Len(argv) + 1) /\ k \in Nat
  BY <1>1
<1>3. Given(f) \subseteq OptionAt
  BY DEF Given
<1>4. CASE (\A k \in Given(f) : k >= Len(argv) + 1) /\ g[f] = Defaults(prog)[f]
  BY <1>1, <1>2, <1>3, <1>4
<1>5. ASSUME NEW k \in OptionAt, LastBefore(k, f, Len(argv) + 1), g[f] = Stored(f, argv[k + 1])
      PROVE  Given(f) # {} /\ Latest(f) \in OptionAt /\ g[f] = Stored(f, argv[Latest(f) + 1])
  <2>1. k \in Given(f) /\ \A j \in Given(f) : j <= k
    BY <1>1, <1>2, <1>3, <1>5 DEF LastBefore
  <2>2. Latest(f) \in Given(f) /\ \A j \in Given(f) : j <= Latest(f)
    BY <2>1 DEF Latest
  <2>3. Latest(f) <= k /\ k <= Latest(f)
    BY <2>1, <2>2
  <2>4. k \in Nat /\ Latest(f) \in Nat
    BY <1>1, <1>2, <1>3, <2>1, <2>2
  <2>5. Latest(f) = k
    BY <2>3, <2>4
  <2> QED
    BY <1>5, <2>1, <2>5
<1> QED
  BY <1>4, <1>5 DEF FitsOptions

LEMMA WordMeans ==
    ASSUME Called, NEW g, NEW words, Scanned(Len(argv) + 1, words),
           FitsWords(g, Len(words), words), NEW f \in Fields \cap Named
    PROVE  /\ Given(f) = {}
           /\ \/ (\A k \in Free : ~Takes(k, f)) /\ g[f] = Defaults(prog)[f]
              \/ /\ \E k \in Free : Takes(k, f)
                 /\ g[f] = Stored(f, argv[CHOOSE k \in Free : Takes(k, f)])
<1>1. /\ DOMAIN Positionals = 1..Len(Positionals) /\ Len(Positionals) \in Nat
      /\ \A q \in DOMAIN Positionals, r \in DOMAIN Positionals :
           Positionals[q] = Positionals[r] => q = r
  BY PositionalsAre DEF Called
<1>2. /\ Len(words) \in Nat
      /\ \A k \in Free : Place(k) \in 1..Len(words) /\ words[Place(k)] = argv[k]
      /\ \A q \in 1..Len(words) : \E k \in Free : Place(k) = q
  BY AllScanned
<1>3. Given(f) = {}
  BY OptionsAre, WordsAre DEF Given, Called
<1>4. CASE (\A q \in DOMAIN Positionals : ~TakenFrom(q, f, Len(words))) /\ g[f] = Defaults(prog)[f]
  BY <1>2, <1>3, <1>4 DEF TakenFrom, Takes
<1>5. ASSUME NEW q \in DOMAIN Positionals, TakenFrom(q, f, Len(words)), g[f] = Stored(f, words[q])
      PROVE  /\ \E k \in Free : Takes(k, f)
             /\ g[f] = Stored(f, argv[CHOOSE k \in Free : Takes(k, f)])
  <2>1. q \in 1..Len(words) /\ Positionals[q] = f
    BY <1>1, <1>2, <1>5 DEF TakenFrom
  <2>2. PICK j \in Free : Place(j) = q
    BY <1>2, <2>1
  <2>3. \E k \in Free : Takes(k, f)
    BY <2>1, <2>2 DEF Takes
  <2>4. PICK k \in Free : Takes(k, f) /\ k = CHOOSE l \in Free : Takes(l, f)
    BY <2>3
  <2>5. Place(k) = q
    BY <1>1, <2>1, <2>4 DEF Takes
  <2>6. words[q] = argv[k]
    BY <1>2, <2>5
  <2> QED
    BY <1>5, <2>3, <2>4, <2>6
<1> QED
  BY <1>3, <1>4, <1>5 DEF FitsWords

LEMMA MeaningIs ==
    ASSUME Called, NEW g, NEW words, Scanned(Len(argv) + 1, words),
           FitsOptions(g, Len(argv) + 1), FitsWords(g, Len(words), words),
           NEW f \in Fields, f = "msg" => Given("file") = {}
    PROVE  g[f] = Meaning(f)
<1>1. \A k : ValueOf(f, k) = Stored(f, argv[k])
  BY DEF ValueOf, Stored
<1>2. ~(f = "msg" /\ Given("file") # {})
  OBVIOUS
<1>3. CASE f \notin Named
  <2>1. \A k \in Free : ~Takes(k, f)
    BY <1>3, PositionalsAre DEF Takes, Called
  <2> QED
    BY <1>1, <1>2, <1>3, <2>1, OptionMeans DEF Meaning
<1>4. CASE f \in Named
  BY <1>1, <1>2, <1>4, WordMeans DEF Meaning
<1> QED
  BY <1>3, <1>4

\* Which texts are there.
LEMMA TextsAre ==
    ASSUME Called, NEW g, NEW words, Scanned(Len(argv) + 1, words),
           FitsOptions(g, Len(argv) + 1), FitsWords(g, Len(words), words),
           ReadTo(Len(words), words)
    PROVE  /\ prog = "trace6" => (g["dst"] # None <=> Len(words) = 1)
           /\ prog = "asciiclient" =>
                /\ g["dst"] # None /\ g["nick"] # None <=> Len(words) = 2
                /\ \A f \in {"file", "msg"} : g[f] # None <=> Given(f) # {}
<1>1. Len(words) \in Nat /\ \A q \in 1..Len(words) : words[q] # None
  BY AllScanned
<1>2. \A q \in 1..Len(words) : q <= Len(Positionals)
  BY DEF ReadTo
<1>3. /\ Len(Positionals) = (IF prog = "asciiclient" THEN 2 ELSE 1)
      /\ DOMAIN Positionals = 1..Len(Positionals)
      /\ prog = "trace6" => Positionals[1] = "dst"
      /\ prog = "asciiclient" => Positionals[1] = "nick" /\ Positionals[2] = "dst"
  BY PositionalsAre DEF Called
<1> DEFINE l == Len(words)
<1>4. Len(words) <= Len(Positionals) /\ l \in Nat
  <2>1. Len(words) = 0 \/ Len(words) \in 1..Len(words)
    BY <1>1
  <2> QED
    BY <1>2, <1>3, <2>1
<1>5. ASSUME NEW f \in Fields \cap Named, f \notin Numeric, Defaults(prog)[f] = None,
             NEW r \in DOMAIN Positionals, Positionals[r] = f
      PROVE  g[f] # None <=> r <= Len(words)
  <2>1. \A q \in DOMAIN Positionals : Positionals[q] = f => q = r
    BY <1>5, PositionalsAre DEF Called
  <2>2. \A w : Stored(f, w) = w
    BY <1>5 DEF Stored
  <2>3. \/ (\A q \in DOMAIN Positionals : ~TakenFrom(q, f, Len(words))) /\ g[f] = None
        \/ \E q \in DOMAIN Positionals : TakenFrom(q, f, Len(words)) /\ g[f] = words[q]
    BY <1>5, <2>2 DEF FitsWords
  <2>4. r <= Len(words) => r \in 1..Len(words)
    BY <1>1, <1>3
  <2> QED
    BY <1>1, <1>5, <2>1, <2>3, <2>4 DEF TakenFrom
<1>6. ASSUME prog = "trace6" PROVE g["dst"] # None <=> Len(words) = 1
  <2>1. "dst" \in Fields \cap Named /\ "dst" \notin Numeric /\ Defaults(prog)["dst"] = None
    BY <1>6, DefaultsAre DEF Named
  <2>2. 1 \in DOMAIN Positionals /\ Positionals[1] = "dst"
    BY <1>3, <1>6
  <2>3. g["dst"] # None <=> 1 <= Len(words)
    BY <1>5, <2>1, <2>2
  <2>4. Len(words) <= 1
    BY <1>3, <1>4, <1>6
  <2>5. 1 <= Len(words) <=> Len(words) = 1
    <3>1. l \in Nat /\ l <= 1
      BY <1>4, <2>4
    <3> HIDE DEF l
    <3>2. 1 <= l <=> l = 1
      BY <3>1
    <3> QED
      BY <3>2 DEF l
  <2> QED
    BY <2>3, <2>5
<1>7. ASSUME prog = "asciiclient"
      PROVE  g["dst"] # None /\ g["nick"] # None <=> Len(words) = 2
  <2>1. \A f \in {"dst", "nick"} :
          f \in Fields \cap Named /\ f \notin Numeric /\ Defaults(prog)[f] = None
    BY <1>7, DefaultsAre DEF Named
  <2>2. /\ 1 \in DOMAIN Positionals /\ Positionals[1] = "nick"
        /\ 2 \in DOMAIN Positionals /\ Positionals[2] = "dst"
    BY <1>3, <1>7
  <2>3. g["nick"] # None <=> 1 <= Len(words)
    BY <1>5, <2>1, <2>2
  <2>4. g["dst"] # None <=> 2 <= Len(words)
    BY <1>5, <2>1, <2>2
  <2>5. Len(words) <= 2
    BY <1>3, <1>4, <1>7
  <2>6. 1 <= Len(words) /\ 2 <= Len(words) <=> Len(words) = 2
    <3>1. l \in Nat /\ l <= 2
      BY <1>4, <2>5
    <3> HIDE DEF l
    <3>2. 1 <= l /\ 2 <= l <=> l = 2
      BY <3>1
    <3> QED
      BY <3>2 DEF l
  <2> QED
    BY <2>3, <2>4, <2>6
<1>8. ASSUME prog = "asciiclient", NEW f \in {"file", "msg"}
      PROVE  g[f] # None <=> Given(f) # {}
  <2>1. f \in Fields \ Named /\ f \notin Numeric /\ Defaults(prog)[f] = None
    BY <1>8, DefaultsAre DEF Named
  <2>2. \A w : Stored(f, w) = w
    BY <2>1 DEF Stored
  <2>3. \A k \in OptionAt : argv[k + 1] # None
    BY AllScanned, LineIs
  <2> QED
    BY <2>1, <2>2, <2>3, OptionMeans
<1> QED
  BY <1>6, <1>7, <1>8

-----------------------------------------------------------------------------
(* The steps.                                                              *)

LEMMA Refused ==
    ASSUME Called, NEW a \in {"help", "failed"}, NEW p, NEW r, NEW i, NEW g, IsArgs(g), ~Accepted
    PROVE  Holds(a, p, r, i, g)
BY DEF Holds

LEMMA GoesOnReading ==
    ASSUME Called, NEW a \in {"words", "args"}, NEW p, NEW r, NEW i, NEW g, IsArgs(g),
           WhileReading(a, p, r, i, g)
    PROVE  Holds(a, p, r, i, g)
BY DEF Holds

LEMMA Reading ==
    ASSUME ArgInv, at \in {"words", "args"}
    PROVE  /\ Called /\ IsArgs(args) /\ Scanned(next, rest) /\ FitsOptions(args, next)
           /\ FitsWords(args, argNum, rest)
           /\ prog = "collatz" => argv # <<>>
           /\ at = "words" => argNum = 0
           /\ at = "args" =>
                next = Len(argv) + 1 /\ argNum \in 0..Len(rest) /\ ReadTo(argNum, rest)
BY DEF ArgInv, Holds, WhileReading

LEMMA InitHolds == ArgInit => ArgInv
<1> SUFFICES ASSUME ArgInit PROVE ArgInv
  OBVIOUS
<1>1. PICK c \in CommandLines : prog = c.prog /\ argv = c.argv
  BY DEF ArgInit
<1>2. Called
  BY <1>1, CommandLinesAssumption DEF Called
<1>3. IsArgs(args)
  BY <1>2, DefaultsMap DEF ArgInit, IsArgs, Called
<1> QED
  BY <1>2, <1>3 DEF ArgInit, ArgInv, Holds

LEMMA StartHolds ==
    ASSUME ArgInv, Start
    PROVE  ArgInv'
<1>1. /\ Called /\ IsArgs(args) /\ next = 1 /\ rest = <<>> /\ argNum = 0 /\ args = Defaults(prog)
  BY DEF ArgInv, Holds, Start
<1>2. UNCHANGED <<prog, argv, next, rest, argNum, args>>
  BY DEF Start
<1> SUFFICES Holds(at', next, rest, argNum, args)
  BY <1>2, Kept
<1>3. CASE argv = <<>> /\ prog \in {"collatz", "trace6"}
  <2>1. ~Accepted
    <3>1. Free = {}
      BY <1>1, <1>3, WordsAre
    <3>2. Cardinality(Free) # 1
      BY <3>1, FS_EmptySet
    <3> QED
      BY <1>3, <3>2 DEF Accepted
  <2>2. at' \in {"help", "failed"}
    BY <1>3 DEF Start
  <2> QED
    BY <1>1, <2>1, <2>2, Refused
<1>4. CASE ~(argv = <<>> /\ prog \in {"collatz", "trace6"})
  <2>1. at' = "words" /\ (prog = "collatz" => argv # <<>>)
    BY <1>4 DEF Start
  <2>2. WhileReading(at', next, rest, argNum, args)
    BY <1>1, <2>1, ScanStart DEF WhileReading
  <2> QED
    BY <1>1, <2>1, <2>2, GoesOnReading
<1> QED
  BY <1>3, <1>4

LEMMA TakeOptionHolds ==
    ASSUME ArgInv, TakeOption
    PROVE  ArgInv'
<1>1. UNCHANGED <<prog, argv, rest, argNum>> /\ next' = next + 2
  BY DEF TakeOption
<1>2. at = "words" /\ next <= Len(argv) /\ argv[next] \in DOMAIN Options
  BY DEF TakeOption, AtWord, Word
<1>3. /\ Called /\ IsArgs(args) /\ Scanned(next, rest) /\ FitsOptions(args, next)
      /\ FitsWords(args, argNum, rest) /\ argNum = 0
      /\ prog = "collatz" => argv # <<>>
  BY <1>2, Reading
<1> DEFINE field == Options[argv[next]]
<1>4. next \in 1..Len(argv) /\ next - 1 \notin OptionAt /\ Early(next)
  BY <1>2, <1>3, WordAt
<1>5. next \in OptionAt
  BY <1>2, <1>3, <1>4, WordIsOption
<1> SUFFICES Holds(at', next', rest', argNum', args')
  BY <1>1, Kept
<1>6. CASE next = Len(argv) \/ (field \in Numeric /\ ~Readable(argv[next + 1]))
  <2>1. ~Accepted
    BY <1>5, <1>6 DEF Accepted
  <2>2. at' = "failed" /\ args' = args
    BY <1>6 DEF TakeOption, Store, Word
  <2> QED
    BY <1>3, <2>1, <2>2, Refused
<1>7. CASE ~(next = Len(argv) \/ (field \in Numeric /\ ~Readable(argv[next + 1])))
  <2>1. at' = at /\ args' = [args EXCEPT ![field] = Stored(field, argv[next + 1])]
    BY <1>7 DEF TakeOption, Store, Word, Stored
  <2>2. next < Len(argv) /\ (field \in Numeric => Readable(argv[next + 1]))
    <3>1. Len(argv) \in Nat
      BY <1>3, LineIs
    <3> QED
      BY <1>4, <1>7, <3>1
  <2>3. Scanned(next + 2, rest)
    BY <1>2, <1>3, <2>2, ScanOption
  <2>4. FitsOptions(args', next + 2)
    BY <1>2, <1>3, <2>1, <2>2, FitsOption
  <2>5. FitsWords(args', argNum, rest) /\ IsArgs(args')
    BY <1>2, <1>3, <2>1, FitsWordsOption
  <2>6. WhileReading(at', next', rest', argNum', args')
    BY <1>1, <1>2, <1>3, <2>1, <2>3, <2>4, <2>5 DEF WhileReading
  <2> QED
    BY <1>2, <1>3, <2>1, <2>5, <2>6, GoesOnReading
<1> QED
  BY <1>6, <1>7

\* A word that argp or trace6 ends with.
LEMMA EndsAtWord ==
    ASSUME ArgInv, at = "words", next <= Len(argv), argv[next] \notin DOMAIN Options,
           Java \/ argv[next] # "--",
           argv[next] = "--help" \/ (~Java /\ argv[next] \in Dashed)
    PROVE  ~Accepted
<1>1. Called /\ Scanned(next, rest)
  BY Reading
<1>2. next \in 1..Len(argv) /\ next - 1 \notin OptionAt /\ Early(next)
  BY <1>1, WordAt
<1>3. next \in Free /\ ~Behind(next)
  BY <1>1, <1>2, WordIsFree
<1> QED
  BY <1>3 DEF Accepted

LEMMA HelpHolds ==
    ASSUME ArgInv, Help
    PROVE  ArgInv'
<1>1. UNCHANGED <<prog, argv, next, rest, argNum, args>> /\ at' = "help"
  BY DEF Help
<1>2. at = "words" /\ next <= Len(argv) /\ argv[next] = "--help"
  BY DEF Help, AtWord, Word
<1>3. Called /\ IsArgs(args) /\ "--help" \notin DOMAIN Options
  BY <1>2, Reading, OptionsAre DEF Called
<1>4. ~Accepted
  BY <1>2, <1>3, EndsAtWord
<1> QED
  BY <1>1, <1>3, <1>4, Kept, Refused

LEMMA UnknownOptionHolds ==
    ASSUME ArgInv, UnknownOption
    PROVE  ArgInv'
<1>1. UNCHANGED <<prog, argv, next, rest, argNum, args>> /\ at' = "failed"
  BY DEF UnknownOption
<1>2. /\ at = "words" /\ next <= Len(argv) /\ ~Java
      /\ argv[next] \in Dashed /\ argv[next] \notin DOMAIN Options /\ argv[next] # "--"
  BY DEF UnknownOption, AtWord, Word
<1>3. Called /\ IsArgs(args)
  BY <1>2, Reading
<1>4. ~Accepted
  BY <1>2, EndsAtWord
<1> QED
  BY <1>1, <1>3, <1>4, Kept, Refused

LEMMA EndOfOptionsHolds ==
    ASSUME ArgInv, EndOfOptions
    PROVE  ArgInv'
<1>1. /\ UNCHANGED <<prog, argv, at, argNum, args>> /\ next' = Len(argv) + 1
      /\ rest' = rest \o SubSeq(argv, next + 1, Len(argv))
  BY DEF EndOfOptions
<1>2. at = "words" /\ next <= Len(argv) /\ ~Java /\ argv[next] = "--"
  BY DEF EndOfOptions, AtWord, Word
<1>3. /\ Called /\ IsArgs(args) /\ Scanned(next, rest) /\ FitsOptions(args, next)
      /\ FitsWords(args, argNum, rest) /\ argNum = 0
      /\ prog = "collatz" => argv # <<>>
  BY <1>2, Reading
<1>4. Scanned(next', rest') /\ \A k \in OptionAt : k < next <=> k < next'
  BY <1>1, <1>2, <1>3, ScanMarker
<1>5. next \in Nat /\ next' \in Nat
  BY <1>1, <1>2, <1>3, WordAt, LineIs
<1>6. FitsOptions(args, next')
  BY <1>3, <1>4, <1>5, FitsNoOption
<1>7. FitsWords(args, argNum, rest')
  BY <1>3, PositionalsAre DEF FitsWords, TakenFrom, Called
<1>8. WhileReading(at', next', rest', argNum', args')
  BY <1>1, <1>2, <1>3, <1>4, <1>6, <1>7 DEF WhileReading
<1> QED
  BY <1>1, <1>2, <1>3, <1>8, Kept, GoesOnReading

LEMMA TakeWordHolds ==
    ASSUME ArgInv, TakeWord
    PROVE  ArgInv'
<1>1. UNCHANGED <<prog, argv, argNum, args>> /\ next' = next + 1
  BY DEF TakeWord
<1>2. /\ at = "words" /\ next <= Len(argv) /\ argv[next] \notin DOMAIN Options
      /\ argv[next] # "--help" /\ (Java \/ (argv[next] \notin Dashed /\ argv[next] # "--"))
  BY DEF TakeWord, AtWord, Word
<1>3. /\ Called /\ IsArgs(args) /\ Scanned(next, rest) /\ FitsOptions(args, next)
      /\ FitsWords(args, argNum, rest) /\ argNum = 0
      /\ prog = "collatz" => argv # <<>>
  BY <1>2, Reading
<1>4. /\ next \in 1..Len(argv) /\ next \in Nat /\ next - 1 \in Nat /\ (next - 1) + 1 = next
      /\ next - 1 \notin OptionAt /\ Early(next)
  BY <1>2, <1>3, WordAt
<1> SUFFICES Holds(at', next', rest', argNum', args')
  BY <1>1, Kept
<1>5. CASE Java /\ rest # <<>>
  <2>1. at' = "failed"
    BY <1>5 DEF TakeWord
  <2>2. next \in Free
    BY <1>2, <1>3, <1>4, WordIsFree
  <2>3. Len(rest) \in Nat /\ Len(rest) # 0 /\ Len(rest) = Cardinality(UpTo(Free, next - 1))
    BY <1>3, <1>5 DEF Scanned, Collected
  <2>4. Place(next - 1) = Len(rest)
    BY <1>3, <1>4, <2>3, CountFree
  <2>5. Place(next) = Place(next - 1) + 1 /\ Place(next) <= Cardinality(Free)
    BY <1>3, <1>4, <2>2, CountFree
  <2>6. Cardinality(Free) \in Nat /\ Cardinality(Free) # 1
    <3>1. Cardinality(Free) \in Nat
      BY <1>3, CountFree
    <3> QED
      BY <2>3, <2>4, <2>5, <3>1
  <2>7. ~Accepted
    BY <1>5, <2>6 DEF Accepted, Java
  <2> QED
    BY <1>1, <1>3, <2>1, <2>7, Refused
<1>6. CASE ~(Java /\ rest # <<>>)
  <2>1. at' = at /\ rest' = Append(rest, argv[next])
    BY <1>6 DEF TakeWord, Word
  <2>2. Scanned(next + 1, rest') /\ \A k \in OptionAt : k < next <=> k < next + 1
    BY <1>2, <1>3, <1>6, <2>1, ScanWord
  <2>3. FitsOptions(args, next + 1)
    BY <1>3, <1>4, <2>2, FitsNoOption
  <2>4. FitsWords(args, argNum, rest')
    BY <1>3, PositionalsAre DEF FitsWords, TakenFrom, Called
  <2>5. WhileReading(at', next', rest', argNum', args')
    BY <1>1, <1>2, <1>3, <2>1, <2>2, <2>3, <2>4 DEF WhileReading
  <2> QED
    BY <1>1, <1>2, <1>3, <2>1, <2>5, GoesOnReading
<1> QED
  BY <1>5, <1>6

LEMMA WordsEndHolds ==
    ASSUME ArgInv, WordsEnd
    PROVE  ArgInv'
<1>1. /\ UNCHANGED <<prog, argv, next, rest, argNum, args>>
      /\ at = "words" /\ next > Len(argv) /\ at' = "args"
  BY DEF WordsEnd
<1>2. /\ Called /\ IsArgs(args) /\ Scanned(next, rest) /\ FitsOptions(args, next)
      /\ FitsWords(args, argNum, rest) /\ argNum = 0
      /\ prog = "collatz" => argv # <<>>
  BY <1>1, Reading
<1>3. next = Len(argv) + 1
  <2>1. Len(argv) \in Nat /\ next \in 1..(Len(argv) + 1)
    BY <1>2, LineIs DEF Scanned
  <2> QED
    BY <1>1, <2>1
<1>4. argNum \in 0..Len(rest) /\ ReadTo(argNum, rest)
  <2>1. Len(rest) \in Nat
    BY <1>2, <1>3, AllScanned
  <2> QED
    BY <1>2, <2>1 DEF ReadTo
<1>5. WhileReading(at', next, rest, argNum, args)
  BY <1>1, <1>2, <1>3, <1>4 DEF WhileReading
<1> QED
  BY <1>1, <1>2, <1>5, Kept, GoesOnReading

LEMMA TakeArgHolds ==
    ASSUME ArgInv, TakeArg
    PROVE  ArgInv'
<1>1. /\ UNCHANGED <<prog, argv, next, rest>> /\ argNum' = argNum + 1
      /\ at = "args" /\ argNum < Len(rest)
  BY DEF TakeArg
<1>2. /\ Called /\ IsArgs(args) /\ Scanned(next, rest) /\ FitsOptions(args, next)
      /\ FitsWords(args, argNum, rest) /\ (prog = "collatz" => argv # <<>>)
      /\ next = Len(argv) + 1 /\ argNum \in 0..Len(rest) /\ ReadTo(argNum, rest)
  BY <1>1, Reading
<1> DEFINE q == argNum + 1
           field == Positionals[q]
<1>3. Len(rest) \in Nat /\ Len(Positionals) \in Nat
  BY <1>2, AllScanned, PositionalsAre DEF Called
<1>4. argNum \in Nat /\ q \in 1..Len(rest) /\ q \in 0..Len(rest)
  BY <1>1, <1>2, <1>3
<1>5. argNum <= Len(Positionals)
  <2>1. argNum = 0 \/ argNum \in 1..argNum
    BY <1>4
  <2> QED
    BY <1>2, <1>3, <2>1 DEF ReadTo
<1> SUFFICES Holds(at', next', rest', argNum', args')
  BY <1>1, Kept
<1>6. CASE argNum = Len(Positionals)
  <2>1. ~(q <= Len(Positionals))
    BY <1>3, <1>4, <1>6
  <2>2. ~Accepted
    BY <1>2, <1>4, <2>1, ArgumentRefused
  <2>3. at' = "failed" /\ args' = args
    BY <1>6 DEF TakeArg
  <2> QED
    BY <1>2, <2>2, <2>3, Refused
<1>7. CASE argNum # Len(Positionals) /\ field \in Numeric /\ ~Readable(rest[q])
  <2>1. ~Accepted
    BY <1>2, <1>4, <1>7, ArgumentRefused
  <2>2. at' = "failed" /\ args' = args
    BY <1>7 DEF TakeArg, Store
  <2> QED
    BY <1>2, <2>1, <2>2, Refused
<1>8. CASE argNum # Len(Positionals) /\ (field \in Numeric => Readable(rest[q]))
  <2>1. at' = at /\ args' = [args EXCEPT ![field] = Stored(field, rest[q])]
    BY <1>8 DEF TakeArg, Store, Stored
  <2>2. argNum < Len(Positionals) /\ q <= Len(Positionals)
    BY <1>3, <1>4, <1>5, <1>8
  <2>3. IsArgs(args') /\ FitsOptions(args', next) /\ FitsWords(args', q, rest)
    BY <1>2, <1>4, <2>1, <2>2, FitsNextWord
  <2>4. ReadTo(q, rest)
    <3>1. \A r \in 1..q : r \in 1..argNum \/ r = q
      BY <1>4
    <3> QED
      BY <1>2, <1>8, <2>2, <3>1 DEF ReadTo
  <2>5. WhileReading(at', next', rest', argNum', args')
    BY <1>1, <1>2, <1>4, <2>1, <2>3, <2>4 DEF WhileReading
  <2> QED
    BY <1>1, <1>2, <2>1, <2>3, <2>5, GoesOnReading
<1> QED
  BY <1>6, <1>7, <1>8

LEMMA ArgsEndHolds ==
    ASSUME ArgInv, ArgsEnd
    PROVE  ArgInv'
<1>1. /\ UNCHANGED <<prog, argv, next, rest, argNum, args>>
      /\ at = "args" /\ argNum = Len(rest)
  BY DEF ArgsEnd
<1>2. /\ Called /\ IsArgs(args) /\ Scanned(Len(argv) + 1, rest)
      /\ FitsOptions(args, Len(argv) + 1) /\ FitsWords(args, Len(rest), rest)
      /\ prog = "collatz" => argv # <<>>
      /\ ReadTo(Len(rest), rest)
  BY <1>1, Reading
<1>3. Accepted <=>
        /\ prog = "collatz" => argv # <<>>
        /\ prog = "trace6" => Len(rest) = 1
        /\ prog = "asciiclient" => Len(rest) = 2 /\ Given("file") \cup Given("msg") # {}
  BY <1>2, AcceptedIs
<1>4. /\ prog = "trace6" => (args["dst"] # None <=> Len(rest) = 1)
      /\ prog = "asciiclient" =>
           /\ args["dst"] # None /\ args["nick"] # None <=> Len(rest) = 2
           /\ \A f \in {"file", "msg"} : args[f] # None <=> Given(f) # {}
  BY <1>2, TextsAre
<1>5. Complete <=> Accepted
  BY <1>2, <1>3, <1>4 DEF Complete
<1>6. \A f \in Fields : (f = "msg" => Given("file") = {}) => args[f] = Meaning(f)
  BY <1>2, MeaningIs
<1> SUFFICES Holds(at', next, rest, argNum, args)
  BY <1>1, Kept
<1>7. CASE ~Complete
  <2>1. at' = "failed"
    BY <1>7 DEF ArgsEnd
  <2> QED
    BY <1>2, <1>5, <1>7, <2>1, Refused
<1>8. CASE Complete /\ prog = "asciiclient" /\ args.file # None
  <2>1. at' = "file"
    BY <1>8 DEF ArgsEnd
  <2>2. Given("file") # {}
    BY <1>4, <1>8
  <2>3. "file" \in Fields /\ "file" \notin Numeric
    BY <1>8, DefaultsAre
  <2>4. args["file"] = Meaning("file")
    BY <1>6, <2>3
  <2>5. Meaning("file") = argv[Latest("file") + 1]
    BY <2>2, <2>3 DEF Meaning, ValueOf
  <2>6. HasFile(args)
    BY <1>8, <2>2, <2>4, <2>5 DEF HasFile
  <2>7. Means(args, Fields \ {"msg"})
    BY <1>6 DEF Means
  <2> QED
    BY <1>2, <1>5, <1>8, <2>1, <2>6, <2>7 DEF Holds
<1>9. CASE Complete /\ ~(prog = "asciiclient" /\ args.file # None)
  <2>1. at' = "run"
    BY <1>9 DEF ArgsEnd
  <2>2. Given("file") = {}
    <3>1. CASE prog = "asciiclient"
      BY <1>4, <1>9, <3>1
    <3>2. CASE prog # "asciiclient"
      BY <1>2, <3>2, OptionsAre, WordsAre DEF Given, Called
    <3> QED
      BY <3>1, <3>2
  <2>3. Means(args, Fields)
    BY <1>6, <2>2 DEF Means
  <2> QED
    BY <1>2, <1>5, <1>9, <2>1, <2>3 DEF Holds
<1> QED
  BY <1>7, <1>8, <1>9

LEMMA ReadFileHolds ==
    ASSUME ArgInv, ReadFile
    PROVE  ArgInv'
<1>1. UNCHANGED <<prog, argv, next, rest, argNum>> /\ at = "file"
  BY DEF ReadFile
<1>2. /\ Called /\ IsArgs(args) /\ Accepted /\ HasFile(args) /\ Means(args, Fields \ {"msg"})
  BY <1>1 DEF ArgInv, Holds
<1> SUFFICES Holds(at', next, rest, argNum, args')
  BY <1>1, Kept
<1>3. CASE at' = "run" /\ args' = [args EXCEPT !.msg = <<"content of", args.file>>]
  <2>1. "msg" \in Fields
    BY <1>2, DefaultsAre DEF HasFile
  <2>2. /\ IsArgs(args') /\ args'["msg"] = <<"content of", args["file"]>>
        /\ \A f \in Fields \ {"msg"} : args'[f] = args[f]
    BY <1>2, <1>3, <2>1 DEF IsArgs
  <2>3. args'["msg"] = Meaning("msg")
    BY <1>2, <2>2 DEF HasFile, Meaning
  <2>4. Means(args', Fields)
    BY <1>2, <2>2, <2>3 DEF Means
  <2> QED
    BY <1>2, <1>3, <2>2, <2>4 DEF Holds
<1>4. CASE at' = "failed" /\ args' = args
  BY <1>2, <1>4 DEF Holds, HasFile
<1> QED
  BY <1>3, <1>4 DEF ReadFile

\* collatz begins where the arguments end.
LEMMA LoopHolds ==
    ASSUME ArgInv, UNCHANGED <<prog, argv, next, rest, argNum, args>>,
           at' \in {"loop", "done"}
    PROVE  ArgInv'
<1>1. Holds(at', next, rest, argNum, args)
  BY DEF ArgInv, Holds
<1> QED
  BY <1>1, Kept

LEMMA StepHolds == ArgInv /\ [Next]_vars => ArgInv'
<1> SUFFICES ASSUME ArgInv, [Next]_vars PROVE ArgInv'
  OBVIOUS
<1>1. CASE Parse
  BY <1>1, StartHolds, TakeOptionHolds, HelpHolds, EndOfOptionsHolds, UnknownOptionHolds,
     TakeWordHolds, WordsEndHolds, TakeArgHolds, ArgsEndHolds, ReadFileHolds DEF Parse, ArgNext
<1>2. CASE Call
  BY <1>2, LoopHolds DEF Call
<1>3. CASE Halve \/ TripleAndOne
  BY <1>3, LoopHolds DEF Halve, TripleAndOne, argVars
<1>4. CASE Return
  BY <1>4, LoopHolds DEF Return
<1>5. CASE UNCHANGED vars
  <2>1. UNCHANGED <<prog, argv, at, next, rest, argNum, args>>
    BY <1>5 DEF vars, argVars
  <2> QED
    BY <2>1, Kept DEF ArgInv
<1> QED
  BY <1>1, <1>2, <1>3, <1>4, <1>5 DEF Next

LEMMA AlwaysHolds == Spec => []ArgInv
<1>1. Init => ArgInv
  BY InitHolds DEF Init
<1> QED
  BY <1>1, StepHolds, PTL DEF Spec

-----------------------------------------------------------------------------
(* The arguments.                                                          *)

\* Each program runs with what its command line means, whatever the words are
\* and however options and other words are mixed.
THEOREM EachRunsAsMeant == Spec => []RunsAsMeant
<1>1. ArgInv => RunsAsMeant
  BY DEF ArgInv, Holds, RunsAsMeant, Means, IsArgs
<1> QED
  BY <1>1, AlwaysHolds, PTL

\* A command line of collatz without a START is one that is left empty by its
\* marker.
LEMMA NoStart ==
    ASSUME Called, prog = "collatz", argv # <<>>
    PROVE  Free = {} <=> StartIsMissing
<1>1. /\ Len(argv) \in Nat /\ DOMAIN argv = 1..Len(argv) /\ Len(argv) # 0
      /\ argv \in Seq(Range(argv))
  BY LineIs DEF Called
<1>2. OptionAt = {}
  <2>1. DOMAIN Options = {}
    BY DEF Options, OptionWords
  <2> QED
    BY <2>1, WordsAre
<1>3. \A k \in 1..Len(argv) : /\ k \in Markers <=> argv[k] = "--"
                              /\ k \in Free <=> (k \in Markers => Behind(k))
  BY <1>2, WordsAre DEF Java
<1>4. 1 \in 1..Len(argv) /\ ~Behind(1)
  <2>1. \A j \in Markers : ~(j < 1)
    BY WordsAre
  <2> QED
    BY <1>1, <2>1 DEF Behind
<1>5. ASSUME Free = {} PROVE StartIsMissing
  <2>1. argv[1] = "--" /\ 1 \in Markers
    BY <1>3, <1>4, <1>5
  <2>2. Len(argv) = 1
    <3> SUFFICES ASSUME Len(argv) # 1 PROVE FALSE
      OBVIOUS
    <3>1. 2 \in 1..Len(argv) /\ 1 < 2
      BY <1>1
    <3>2. Behind(2)
      BY <2>1, <3>1 DEF Behind
    <3> QED
      BY <1>3, <1>5, <3>1, <3>2
  <2>3. argv = <<"--">>
    BY <1>1, <2>1, <2>2
  <2> QED
    BY <2>3 DEF StartIsMissing
<1>6. ASSUME StartIsMissing PROVE Free = {}
  <2>1. Len(argv) = 1 /\ argv[1] = "--"
    BY <1>6 DEF StartIsMissing
  <2>2. 1 \notin Free
    BY <1>3, <1>4, <2>1
  <2> QED
    BY <2>1, <2>2, WordsAre
<1> QED
  BY <1>5, <1>6

\* It runs only with a well-formed command line, but for "collatz --" and its 0,
\* and gives up with no other but for a file that cannot be read.
THEOREM MalformedAreRefused == Spec => []RefusesMalformed
<1>1. ASSUME Called PROVE WellFormed <=> Accepted /\ ~StartIsMissing
  <2>1. CASE prog # "collatz"
    BY <2>1 DEF WellFormed, Accepted, StartIsMissing
  <2>2. CASE prog = "collatz"
    <3>1. Free # {} => argv # <<>>
      BY <1>1, WordsAre, LineIs
    <3> QED
      BY <1>1, <2>2, <3>1, NoStart DEF WellFormed, Accepted
  <2> QED
    BY <2>1, <2>2
<1>2. ArgInv => RefusesMalformed
  BY <1>1 DEF ArgInv, Holds, RefusesMalformed
<1> QED
  BY <1>2, AlwaysHolds, PTL

-----------------------------------------------------------------------------
(* collatz.                                                                *)

\* From 0 and below the loop stays there, until a number leaves the range.
LoopInv ==
    /\ at = "loop" =>
         /\ start \in Int /\ args["start"] \in Int
         /\ start <= 0 \/ args["start"] > 0 \/ wrapped
    /\ OnlyFromPositive

LEMMA StartIsNumber ==
    ASSUME ArgInv, at = "run", prog = "collatz"
    PROVE  args["start"] \in Int
<1>1. \A w : ReadNumber(w) \in Int
  BY NumberAssumption DEF ReadNumber
<1>2. "start" \in Fields /\ Defaults(prog)["start"] = 0 /\ "start" \in Numeric
  BY DEF Fields, Defaults, Numeric
<1>3. args["start"] = Meaning("start")
  BY <1>2 DEF ArgInv, Holds, Means
<1>4. \A k : ValueOf("start", k) \in Int
  BY <1>1, <1>2 DEF ValueOf
<1> QED
  BY <1>2, <1>3, <1>4 DEF Meaning

LEMMA ParseNeverLoops ==
    ASSUME Parse
    PROVE  at' \notin {"loop", "done"} /\ at \notin {"loop", "done"}
<1>1. CASE Start
  BY <1>1 DEF Start
<1>2. CASE TakeOption
  BY <1>2 DEF TakeOption, AtWord, Store
<1>3. CASE Help \/ EndOfOptions \/ UnknownOption \/ TakeWord
  BY <1>3 DEF Help, EndOfOptions, UnknownOption, TakeWord, AtWord
<1>4. CASE TakeArg
  BY <1>4 DEF TakeArg, Store
<1>5. CASE WordsEnd \/ ArgsEnd \/ ReadFile
  BY <1>5 DEF WordsEnd, ArgsEnd, ReadFile
<1> QED
  BY <1>1, <1>2, <1>3, <1>4, <1>5 DEF Parse, ArgNext

LEMMA LoopStep == ArgInv /\ LoopInv /\ [Next]_vars => LoopInv'
<1> SUFFICES ASSUME ArgInv, LoopInv, [Next]_vars PROVE LoopInv'
  OBVIOUS
<1>1. CASE Parse
  BY <1>1, ParseNeverLoops DEF LoopInv, OnlyFromPositive
<1>2. CASE Call
  <2>1. args["start"] \in Int
    BY <1>2, StartIsNumber DEF Call
  <2>2. at' = "loop" /\ args' = args /\ start' = args["start"]
    BY <1>2 DEF Call
  <2> QED
    BY <2>1, <2>2 DEF LoopInv, OnlyFromPositive
<1>3. CASE Halve
  <2>1. at = "loop" /\ at' = "loop" /\ args' = args /\ wrapped' = wrapped /\ start' = start \div 2
    BY <1>3 DEF Halve, argVars
  <2>2. start \in Int
    BY <2>1 DEF LoopInv
  <2>3. start' \in Int /\ (start <= 0 => start' <= 0)
    BY <2>1, <2>2
  <2> QED
    BY <2>1, <2>3 DEF LoopInv, OnlyFromPositive
<1>4. CASE TripleAndOne
  <2>1. /\ at = "loop" /\ at' = "loop" /\ args' = args
        /\ wrapped' = (wrapped \/ start' # Triple(start))
        /\ start' = Long(Triple(start)) /\ start % 2 # 0
    BY <1>4 DEF TripleAndOne, argVars
  <2>2. start \in Int /\ Triple(start) \in Int
    BY <2>1 DEF LoopInv, Triple
  <2>3. start <= 0 => Triple(start) <= 0
    <3>1. start # 0
      BY <2>1
    <3> QED
      BY <2>2, <3>1 DEF Triple
  <2>4. start' \in Int
    <3>1. \A n \in Int : Long(n) \in Int
      BY LongAssumption DEF Long
    <3> QED
      BY <2>1, <2>2, <3>1
  <2>5. wrapped' \/ (start' = Triple(start) /\ ~wrapped)
    BY <2>1
  <2>6. start <= 0 \/ args["start"] > 0 \/ wrapped
    BY <2>1 DEF LoopInv
  <2>7. start' <= 0 \/ args["start"] > 0 \/ wrapped'
    BY <2>3, <2>5, <2>6
  <2> QED
    BY <2>1, <2>4, <2>7 DEF LoopInv, OnlyFromPositive
<1>5. CASE Return
  <2>1. /\ at = "loop" /\ at' = "done" /\ start = 1 /\ args' = args /\ wrapped' = wrapped
    BY <1>5 DEF Return, GoesOn
  <2>2. args["start"] > 0 \/ wrapped
    BY <2>1 DEF LoopInv
  <2> QED
    BY <2>1, <2>2 DEF LoopInv, OnlyFromPositive
<1>6. CASE UNCHANGED vars
  BY <1>6 DEF vars, argVars, LoopInv, OnlyFromPositive
<1> QED
  BY <1>1, <1>2, <1>3, <1>4, <1>5, <1>6 DEF Next

\* collatz ends from positive numbers only, whatever the width of a long, as
\* long as no number leaves its range.
THEOREM NoEndFromOthers == Spec => []OnlyFromPositive
<1>1. Init => LoopInv
  BY DEF Init, ArgInit, LoopInv, OnlyFromPositive
<1>2. LoopInv => OnlyFromPositive
  BY DEF LoopInv
<1> QED
  BY <1>1, <1>2, AlwaysHolds, LoopStep, PTL DEF Spec

=============================================================================
