----------------------------- MODULE MainOptions -----------------------------
(***************************************************************************)
(* The command-line loop of main (src/main.cpp):                           *)
(*                                                                         *)
(*   for (uint8_t i = 1; i < argc; i += 2) { ... }                         *)
(*                                                                         *)
(* Each iteration reads an option and its value, validates the value and *)
(* stores it, or sets breakCheck and leaves the loop; with breakCheck set *)
(* main prints the usage and returns 1.  The loop index is a uint8_t,     *)
(* kept here modulo 2^INDEX_BITS.  Arguments are tokens: the model does   *)
(* not spell strings out, it only knows which tokens consist of digits    *)
(* (DigitStrings), what atoi makes of them (Atoi) and which are valid     *)
(* addresses (Addresses).                                                  *)
(***************************************************************************)
EXTENDS Naturals, Sequences, FiniteSets

CONSTANTS
    ArgVectors,     \* the argument vectors argv[1..argc-1] a run may get
    DigitStrings,   \* tokens made of digits only, the empty token included
    Atoi,           \* atoi of each token of DigitStrings
    Addresses,      \* tokens address::from_string accepts
    INDEX_BITS      \* width of the loop index (uint8_t)

Options == {"-m", "-w", "-b", "-lp", "-lpc", "-ra", "-rp"}
Ports == {"-lp", "-lpc", "-rp"}

ASSUME /\ DOMAIN Atoi = DigitStrings
       /\ INDEX_BITS \in Nat \ {0}

VARIABLES
    argv,           \* the argument vector of this run (never changes)
    i,              \* the loop index
    config,         \* mode, list sizes, ports and remote address so far
    breakCheck,
    done            \* the loop has been left

vars == <<argv, i, config, breakCheck, done>>

Wrap(x) == x % (2 ^ INDEX_BITS)

Argc == Len(argv) + 1

(* checkUnsignedInt: every character is a digit (vacuously so for "") *)
CheckUnsignedInt(v) == v \in DigitStrings

(* Seeded fault: the -m branch storing its value unchecked *)
ValidModeUnchecked(o, v) ==
    CASE o = "-m"  -> TRUE
      [] o = "-ra" -> v \in Addresses
      [] OTHER     -> CheckUnsignedInt(v)

(* the validation of each option's value *)
Valid(o, v) ==
    CASE o = "-m"  -> v \in {"accept", "drop"}
      [] o = "-ra" -> v \in Addresses
      [] OTHER     -> CheckUnsignedInt(v)

(* what is stored: the string itself, (size_t) atoi or (uint16_t) atoi *)
Parse(o, v) ==
    CASE o \in {"-m", "-ra"} -> v
      [] o \in Ports         -> Atoi[v] % (2 ^ 16)
      [] OTHER               -> Atoi[v]

Defaults ==
    [o \in Options |->
        CASE o = "-m"   -> "accept"
          [] o = "-w"   -> 1000000
          [] o = "-b"   -> 1000000
          [] o = "-lp"  -> 6361
          [] o = "-lpc" -> 6362
          [] o = "-ra"  -> "127.0.0.1"
          [] o = "-rp"  -> 6363]

Running == ~done /\ i < Argc

Break ==
    /\ breakCheck' = TRUE
    /\ done' = TRUE
    /\ UNCHANGED <<argv, i, config>>

(* i < argc fails: the loop ends *)
LoopExit ==
    /\ ~done
    /\ i >= Argc
    /\ done' = TRUE
    /\ UNCHANGED <<argv, i, config, breakCheck>>

(* "-h" *)
Help ==
    /\ Running
    /\ argv[i] = "-h"
    /\ Break

(* an option with no value after it *)
MissingValue ==
    /\ Running
    /\ argv[i] # "-h"
    /\ i + 1 = Argc
    /\ Break

(* a known option with a valid value: store it and advance by two *)
SetOption ==
    /\ Running
    /\ argv[i] # "-h"
    /\ i + 1 < Argc
    /\ argv[i] \in Options
    /\ Valid(argv[i], argv[i + 1])
    /\ config' = [config EXCEPT ![argv[i]] = Parse(argv[i], argv[i + 1])]
    /\ i' = Wrap(i + 2)
    /\ UNCHANGED <<argv, breakCheck, done>>

(* an unknown option, or a value that fails its check *)
InvalidOption ==
    /\ Running
    /\ argv[i] # "-h"
    /\ i + 1 < Argc
    /\ argv[i] \notin Options \/ ~Valid(argv[i], argv[i + 1])
    /\ Break

Init ==
    /\ argv \in ArgVectors
    /\ i = 1
    /\ config = Defaults
    /\ breakCheck = FALSE
    /\ done = FALSE

Next == LoopExit \/ Help \/ MissingValue \/ SetOption \/ InvalidOption

(* main runs the loop on its own, before any other thread or callback *)
Spec == Init /\ [][Next]_vars /\ WF_vars(Next)

-----------------------------------------------------------------------------
(* The loop of main terminates: every argument vector is either accepted *)
(* or answered with the usage text.                                       *)
ParseTerminates == <>done

(* Reference reading of the command line: it is accepted exactly when it *)
(* is a sequence of option/value pairs with valid values and no -h, and  *)
(* then every option has the value of its last occurrence, or its default.*)
(* The values the usage text admits for each option.                      *)
UsageValues(o) ==
    IF o = "-m" THEN {"accept", "drop"}
    ELSE IF o = "-ra" THEN Addresses ELSE DigitStrings

WellFormed(a) ==
    /\ Len(a) % 2 = 0
    /\ \A k \in 1..Len(a) : k % 2 = 1 =>
          a[k] \in Options /\ a[k + 1] \in UsageValues(a[k])

(* the position of the last occurrence of option o, 0 if there is none *)
LastAt(a, o) ==
    LET at == {k \in 1..Len(a) : k % 2 = 1 /\ a[k] = o}
    IN IF at = {} THEN 0 ELSE CHOOSE k \in at : \A j \in at : j <= k

LastGiven(a, o) ==
    IF LastAt(a, o) = 0 THEN Defaults[o] ELSE Parse(o, a[LastAt(a, o) + 1])

(* When the loop has ended, main goes on exactly for the well-formed      *)
(* command lines, and with the options as the reference reads them.      *)
OptionsAsParsed ==
    done => /\ breakCheck = ~WellFormed(argv)
            /\ ~breakCheck => \A o \in Options : config[o] = LastGiven(argv, o)
=============================================================================
