-------------------------- MODULE ArgumentsParsing --------------------------
(***************************************************************************)
(* parse_command_line_arguments() of arguments_parsing.c: one action for   *)
(* each case of the switch over what getopt_long() returns, and one for    *)
(* what is checked after the last option.                                  *)
(*                                                                         *)
(* An option is a record: option is getopt's character, number the number  *)
(* its argument starts with, junk says whether text follows the number,    *)
(* and word is the argument of --pause-method.                             *)
(***************************************************************************)
EXTENDS CTypes, Sequences

CONSTANTS
  CommandLines,                    \* sequences of options
  UINT32_MAX,
  TIMEOUT_MIN_SUPPORTED_VALUE,
  TIMEOUT_MAX_SUPPORTED_VALUE,
  DefaultTimeout,                  \* in seconds
  DefaultDelay,                    \* --start-monitor-after
  MsPerSecond

NumericOptions == {"t", "p", "a"}
Flags == {"v", "d", "q", "h", "V", "?"}   \* "?" is any error of getopt_long()
Words == {"SIGSTOP", "SIGTSTP", "sigstop", "sigtstp", "SIGHUP"}
pause_method_string == {"SIGSTOP", "SIGTSTP"}

Option ==
  [option : NumericOptions, number : Int, junk : BOOLEAN]
    \cup [option : {"m"}, word : Words] \cup [option : Flags]

ASSUME ArgumentsAssumption ==
  /\ UINT32_MAX \in Nat \ {0}
  /\ TIMEOUT_MIN_SUPPORTED_VALUE \in Nat \ {0} /\ TIMEOUT_MAX_SUPPORTED_VALUE \in Nat
  /\ DefaultTimeout \in TIMEOUT_MIN_SUPPORTED_VALUE .. TIMEOUT_MAX_SUPPORTED_VALUE
  /\ DefaultDelay \in Nat
  /\ MsPerSecond \in Nat \ {0}
  /\ TIMEOUT_MAX_SUPPORTED_VALUE * MsPerSecond <= LONG_MAX
  /\ CommandLines \subseteq Seq(Option)

VARIABLES
  given,        \* the options of the command line ...
  has_words,    \* ... and whether words follow them
  optind,       \* the next option to look at
  parsing,      \* "options", "parsed", or how the program ended: "0" or "1"
  errno,        \* 0 or ERANGE
  settings      \* the global variables that the options set

argumentsVars == <<given, has_words, optind, parsing, errno, settings>>

ArgumentsInit ==
  /\ given \in CommandLines
  /\ has_words \in BOOLEAN
  /\ optind = 1
  /\ parsing = "options"
  /\ errno = "0"
  /\ settings = [user_idle_timeout_ms |-> DefaultTimeout * MsPerSecond,
                 external_pid |-> 0,
                 start_monitor_after_ms |-> DefaultDelay,
                 pause_method |-> "SIGSTOP",
                 verbose |-> FALSE, debug |-> FALSE, quiet |-> FALSE]

-----------------------------------------------------------------------------
(* Conversions. *)

\* toupper() letter by letter.
toupper(word) ==
  CASE word = "sigstop" -> "SIGSTOP"
    [] word = "sigtstp" -> "SIGTSTP"
    [] OTHER            -> word

\* Mutant: a timeout that is too long for the protocol is cut off.
low_32_bits == settings.user_idle_timeout_ms % (UINT32_MAX + 1)

\* What wayland.c makes of the timeout for the compositor.
timeout_ms_for_protocol ==
  IF settings.user_idle_timeout_ms > UINT32_MAX THEN UINT32_MAX
                                               ELSE settings.user_idle_timeout_ms

-----------------------------------------------------------------------------
(* The loop over the options. *)

Case(option) ==
  /\ parsing = "options"
  /\ optind \in DOMAIN given
  /\ given[optind].option = option
  /\ optind' = optind + 1
  /\ UNCHANGED <<given, has_words>>

Set(field, value) == settings' = [settings EXCEPT ![field] = value]

\* The condition of each numeric case: "< MIN || > MAX || errno != 0 || *endptr".
Check(inRange) ==
  /\ errno' = IF OutOfRange(given[optind].number) THEN "ERANGE" ELSE errno
  /\ parsing' = IF inRange /\ errno' = "0" /\ ~given[optind].junk THEN "options" ELSE "1"

\* Mutant: the upper end is not supported.
TimeoutBelowMax ==
  /\ Case("t")
  /\ LET seconds == strtol(given[optind].number) IN
       /\ Check(seconds >= TIMEOUT_MIN_SUPPORTED_VALUE /\ seconds < TIMEOUT_MAX_SUPPORTED_VALUE)
       /\ IF parsing' = "1" THEN UNCHANGED settings
                            ELSE Set("user_idle_timeout_ms", seconds * MsPerSecond)

CaseTimeout ==
  /\ Case("t")
  /\ LET seconds == strtol(given[optind].number) IN
       /\ Check(seconds \in TIMEOUT_MIN_SUPPORTED_VALUE .. TIMEOUT_MAX_SUPPORTED_VALUE)
       /\ IF parsing' = "1" THEN UNCHANGED settings
                            ELSE Set("user_idle_timeout_ms", seconds * MsPerSecond)

\* Mutant: the pid is checked before it is narrowed.
PidIsCheckedAsLong ==
  /\ Case("p")
  /\ Set("external_pid", ToInt(strtol(given[optind].number)))
  /\ Check(strtol(given[optind].number) >= 1)

CasePid ==
  /\ Case("p")
  /\ Set("external_pid", ToInt(strtol(given[optind].number)))
  /\ Check(settings'.external_pid >= 1)

\* The maximum that the message names is not checked.
CaseStartMonitorAfter ==
  /\ Case("a")
  /\ Set("start_monitor_after_ms", strtol(given[optind].number))
  /\ Check(settings'.start_monitor_after_ms >= 0)

CasePauseMethod ==
  /\ Case("m")
  /\ LET method == toupper(given[optind].word) IN
       IF method \in pause_method_string
       THEN Set("pause_method", method) /\ UNCHANGED parsing
       ELSE Set("pause_method", "UNKNOWN") /\ parsing' = "1"
  /\ UNCHANGED errno

CaseFlag ==
  /\ \/ Case("v") /\ Set("verbose", TRUE)
     \/ Case("d") /\ settings' = [settings EXCEPT !.debug = TRUE, !.verbose = TRUE]
     \/ Case("q") /\ Set("quiet", TRUE)
  /\ UNCHANGED <<parsing, errno>>

\* --help and --version end the program at once, and so does a wrong option.
CaseExit ==
  /\ \/ Case("h") /\ parsing' = "0"
     \/ Case("V") /\ parsing' = "0"
     \/ Case("?") /\ parsing' = "1"
  /\ UNCHANGED <<errno, settings>>

\* There is a process to monitor or a command to run, and not both.
AfterOptions ==
  /\ parsing = "options"
  /\ optind \notin DOMAIN given
  /\ parsing' = IF \/ (settings.external_pid # 0) = has_words
                   \/ settings.quiet /\ settings.debug
                   \/ settings.quiet /\ settings.verbose
                THEN "1" ELSE "parsed"
  /\ UNCHANGED <<given, has_words, optind, errno, settings>>

ParseArguments ==
  CaseTimeout \/ CasePid \/ CaseStartMonitorAfter \/ CasePauseMethod
    \/ CaseFlag \/ CaseExit \/ AfterOptions

-----------------------------------------------------------------------------
ArgumentsTypeOK ==
  /\ given \in Seq(Option) /\ has_words \in BOOLEAN
  /\ optind \in Nat \ {0}
  /\ parsing \in {"options", "parsed", "0", "1"}
  /\ errno \in {"0", "ERANGE"}
  /\ settings \in [user_idle_timeout_ms : Nat, external_pid : Int,
                   start_monitor_after_ms : Int,
                   pause_method : pause_method_string \cup {"UNKNOWN"},
                   verbose : BOOLEAN, debug : BOOLEAN, quiet : BOOLEAN]

\* Whatever was given and however it overflowed, what the program goes on with
\* is usable: a timeout that is supported, one thing to control and not two,
\* a method it can use, and no contradiction about its output.
SettingsAreUsable ==
  parsing = "parsed" =>
    /\ settings.user_idle_timeout_ms \in
         {MsPerSecond * s : s \in TIMEOUT_MIN_SUPPORTED_VALUE .. TIMEOUT_MAX_SUPPORTED_VALUE}
    /\ settings.start_monitor_after_ms >= 0
    /\ settings.pause_method \in pause_method_string
    /\ settings.external_pid >= 0
    /\ (settings.external_pid = 0) = has_words
    /\ settings.quiet => ~settings.verbose /\ ~settings.debug

\* Reference: what an option may be by itself, by the ranges that the program's
\* own messages name.
START_MONITOR_AFTER_MAX_SUPPORTED_VALUE == TIMEOUT_MAX_SUPPORTED_VALUE * MsPerSecond

Acceptable(o) ==
  CASE o.option = "t" -> ~o.junk /\ o.number \in TIMEOUT_MIN_SUPPORTED_VALUE
                                                 .. TIMEOUT_MAX_SUPPORTED_VALUE
    [] o.option = "p" -> ~o.junk /\ o.number \in 1 .. INT_MAX
    [] o.option = "a" -> ~o.junk /\ o.number \in 0 .. START_MONITOR_AFTER_MAX_SUPPORTED_VALUE
    [] o.option = "m" -> toupper(o.word) \in pause_method_string
    [] OTHER          -> o.option \notin {"h", "V", "?"}

\* The two ways to get past the checks with an option that is not acceptable: a
\* pid that no int can hold, if what is left of it is positive, and a delay
\* above the maximum, which is named in the message and compared with nothing.
Overlooked(o) ==
  /\ o.option \in {"p", "a"} /\ ~o.junk /\ ~OutOfRange(o.number)
  /\ o.option = "p" => o.number \notin -INT_MAX - 1 .. INT_MAX /\ ToInt(o.number) >= 1
  /\ o.option = "a" => o.number > START_MONITOR_AFTER_MAX_SUPPORTED_VALUE

Uses(option) == {k \in DOMAIN given : given[k].option = option}
LastUse(option) == given[CHOOSE k \in Uses(option) : \A m \in Uses(option) : m <= k]
LastNumber(option, default) ==
  IF Uses(option) = {} THEN default ELSE LastUse(option).number

Meant ==
  [user_idle_timeout_ms |-> LastNumber("t", DefaultTimeout) * MsPerSecond,
   external_pid |-> ToInt(LastNumber("p", 0)),   \* the number itself if an int can hold it
   start_monitor_after_ms |-> LastNumber("a", DefaultDelay),
   pause_method |-> IF Uses("m") = {} THEN "SIGSTOP" ELSE toupper(LastUse("m").word),
   verbose |-> Uses("v") \cup Uses("d") # {},
   debug |-> Uses("d") # {},
   quiet |-> Uses("q") # {}]

\* The options mean what they say: a command line of acceptable options is
\* never refused because of an earlier one (the errno that strtol() left
\* behind, a value set twice), the last use of an option counts, a pid and a
\* command are never both taken, and an option that is not acceptable is only
\* let through in the two ways above.
ParsesAsMeant ==
  /\ parsing = "parsed" =>
       /\ settings = Meant
       /\ (Uses("p") = {}) = has_words
       /\ \A k \in DOMAIN given : Acceptable(given[k]) \/ Overlooked(given[k])
  /\ parsing = "1" =>
       \/ \E k \in DOMAIN given : ~Acceptable(given[k])
       \/ (Uses("p") # {}) = has_words
       \/ Meant.quiet /\ Meant.verbose

\* A timeout of months does not become one of seconds on its way into the
\* protocol's 32 bits: the compositor gets the longest it can express.
ProtocolTimeoutIsLongest ==
  parsing = "parsed" =>
    /\ timeout_ms_for_protocol \in 1 .. UINT32_MAX
    /\ timeout_ms_for_protocol <= settings.user_idle_timeout_ms
    /\ timeout_ms_for_protocol < settings.user_idle_timeout_ms =>
         timeout_ms_for_protocol = UINT32_MAX
=============================================================================
