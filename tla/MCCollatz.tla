----------------------------- MODULE MCCollatz -----------------------------
(* Command lines of every program: all sequences of a few words, among     *)
(* them each option, two numbers, one that is no int, and what is neither. *)
EXTENDS Collatz, SequencesExt

Numbers == "7" :> 7 @@ "15" :> 15 @@ "4103" :> 4103 @@ "-5" :> -5 @@ "0" :> 0

Lines(program, words, max) ==
    { [prog |-> program, argv |-> line] : line \in BoundedSeq(words, max) }

Inputs ==
    Lines("collatz", {"7", "15", "0", "-5", "", "x", "--", "--help"}, 3)
      \cup Lines("ethstats", {"-i", "7", "4103", "", "x", "-5", "--", "--help"}, 4)
      \cup Lines("trace6", {"-i", "-t", "-q", "-m", "7", "4103", "x", "--", "--help"}, 4)
      \cup Lines("asciiclient", {"-f", "-p", "-m", "7", "x"}, 6)
      \cup Lines("asciiclient", {"-m", "x", "", "-5", "--"}, 5)
=============================================================================
