----------------------- MODULE ArgumentsParsingProofs -----------------------
(***************************************************************************)
(* Proofs about the options, for every command line and all widths of the  *)
(* C types: the program goes on only with settings it can work with, and   *)
(* those are what the options say.                                         *)
(***************************************************************************)
EXTENDS Startup, TLAPS

Timeouts ==
  {MsPerSecond * s : s \in TIMEOUT_MIN_SUPPORTED_VALUE .. TIMEOUT_MAX_SUPPORTED_VALUE}

SettingsFields ==
  [user_idle_timeout_ms : Nat, external_pid : Int, start_monitor_after_ms : Int,
   pause_method : pause_method_string \cup {"UNKNOWN"},
   verbose : BOOLEAN, debug : BOOLEAN, quiet : BOOLEAN]

\* The timeout is only assigned when it is right; the others may be wrong as
\* soon as the program is about to end because of them.
Usable ==
  /\ settings.user_idle_timeout_ms \in Timeouts
  /\ parsing \in {"options", "parsed"} =>
       /\ settings.start_monitor_after_ms >= 0
       /\ settings.pause_method \in pause_method_string
       /\ settings.external_pid >= 0

Consistent ==
  parsing = "parsed" =>
    /\ (settings.external_pid = 0) = has_words
    /\ settings.quiet => ~settings.verbose /\ ~settings.debug

OptionsInv == ArgumentsTypeOK /\ Usable /\ Consistent

USE CTypesAssumption, ArgumentsAssumption

-----------------------------------------------------------------------------
(* Conversions. *)

LEMMA strtolIsInt == \A n \in Int : strtol(n) \in Int
BY DEF strtol

LEMMA ToIntIsInt == \A n \in Int : ToInt(n) \in Int
<1> SUFFICES ASSUME NEW n \in Int PROVE ToInt(n) \in Int
  OBVIOUS
<1>1. PICK a \in Int, b \in Nat \ {0} : a = n + INT_MAX + 1 /\ b = 2 * (INT_MAX + 1)
  OBVIOUS
<1>2. a % b \in Int
  BY <1>1
<1>3. (n + INT_MAX + 1) % (2 * (INT_MAX + 1)) \in Int
  BY <1>1, <1>2, Zenon
<1> QED
  BY <1>3 DEF ToInt

LEMMA TimeoutsAreNat == Timeouts \subseteq Nat \ {0}
BY DEF Timeouts

-----------------------------------------------------------------------------
(* Every case of the switch. *)

LEMMA OptionsBegin == ArgumentsInit => OptionsInv
<1> SUFFICES ASSUME ArgumentsInit PROVE OptionsInv
  OBVIOUS
<1>1. DefaultTimeout * MsPerSecond \in Timeouts
  BY DEF Timeouts
<1>2. DefaultTimeout * MsPerSecond \in Nat
  BY <1>1, TimeoutsAreNat
<1>3. given \in Seq(Option)
  BY DEF ArgumentsInit
<1> QED
  BY <1>1, <1>2, <1>3 DEF ArgumentsInit, OptionsInv, ArgumentsTypeOK, Usable, Consistent,
     pause_method_string

\* Each case leaves alone what is not its own.
LEMMA CaseTypes ==
  ASSUME ArgumentsTypeOK, NEW option, Case(option)
  PROVE  /\ given' \in Seq(Option) /\ has_words' \in BOOLEAN /\ optind' \in Nat \ {0}
         /\ given[optind] \in Option /\ given[optind].option = option
         /\ parsing = "options"
BY DEF ArgumentsTypeOK, Case

LEMMA NumberIsInt ==
  ASSUME NEW o \in Option, o.option \in NumericOptions PROVE o.number \in Int
BY DEF Option, NumericOptions, Flags

LEMMA CheckTypes ==
  ASSUME ArgumentsTypeOK, NEW inRange \in BOOLEAN, Check(inRange)
  PROVE  /\ parsing' \in {"options", "1"} /\ errno' \in {"0", "ERANGE"}
         /\ parsing' # "1" => inRange
BY DEF ArgumentsTypeOK, Check

LEMMA TimeoutStep == OptionsInv /\ CaseTimeout => OptionsInv'
<1> SUFFICES ASSUME OptionsInv, CaseTimeout PROVE OptionsInv'
  OBVIOUS
<1> DEFINE seconds == strtol(given[optind].number)
<1> DEFINE inRange == seconds \in TIMEOUT_MIN_SUPPORTED_VALUE .. TIMEOUT_MAX_SUPPORTED_VALUE
<1>1. /\ Case("t") /\ Check(inRange) /\ inRange \in BOOLEAN
      /\ IF parsing' = "1" THEN UNCHANGED settings
                           ELSE Set("user_idle_timeout_ms", seconds * MsPerSecond)
  BY DEF CaseTimeout
<1> HIDE DEF inRange
<1>2. ArgumentsTypeOK /\ settings \in SettingsFields /\ parsing = "options"
  BY <1>1, CaseTypes DEF OptionsInv, ArgumentsTypeOK, SettingsFields
<1>3. /\ given' \in Seq(Option) /\ has_words' \in BOOLEAN /\ optind' \in Nat \ {0}
      /\ parsing' \in {"options", "1"} /\ errno' \in {"0", "ERANGE"}
      /\ parsing' # "1" => inRange
  BY <1>1, <1>2, CaseTypes, CheckTypes
<1>4. /\ settings' \in SettingsFields /\ settings'.user_idle_timeout_ms \in Timeouts
      /\ \A field \in {"start_monitor_after_ms", "pause_method", "external_pid"} :
           settings'[field] = settings[field]
  <2>1. CASE parsing' = "1"
    BY <1>1, <1>2, <2>1 DEF OptionsInv, Usable
  <2>2. CASE parsing' # "1"
    <3>1. inRange
      BY <1>3, <2>2
    <3>2. seconds * MsPerSecond \in Timeouts
      BY <3>1 DEF inRange, Timeouts
    <3>3. seconds * MsPerSecond \in Nat
      BY <3>2, TimeoutsAreNat
    <3>4. settings' = [settings EXCEPT !["user_idle_timeout_ms"] = seconds * MsPerSecond]
      BY <1>1, <2>2 DEF Set
    <3> HIDE DEF seconds
    <3> QED
      BY <1>2, <3>2, <3>3, <3>4 DEF SettingsFields
  <2> QED
    BY <2>1, <2>2
<1>5. Usable'
  BY <1>2, <1>3, <1>4 DEF OptionsInv, Usable
<1> QED
  BY <1>3, <1>4, <1>5 DEF OptionsInv, ArgumentsTypeOK, SettingsFields, Consistent

LEMMA PidStep == OptionsInv /\ CasePid => OptionsInv'
<1> SUFFICES ASSUME OptionsInv, CasePid PROVE OptionsInv'
  OBVIOUS
<1> DEFINE value == ToInt(strtol(given[optind].number))
<1>1. /\ Case("p") /\ settings' = [settings EXCEPT !["external_pid"] = value]
      /\ Check(settings'.external_pid >= 1)
  BY DEF CasePid, Set
<1>2. ArgumentsTypeOK /\ settings \in SettingsFields /\ parsing = "options"
  BY <1>1, CaseTypes DEF OptionsInv, ArgumentsTypeOK, SettingsFields
<1>3. value \in Int
  <2>1. given[optind].number \in Int
    BY <1>1, <1>2, CaseTypes, NumberIsInt DEF NumericOptions
  <2> QED
    BY <2>1, strtolIsInt, ToIntIsInt
<1> HIDE DEF value
<1>4. /\ settings' \in SettingsFields /\ settings'.external_pid = value
      /\ \A field \in {"user_idle_timeout_ms", "start_monitor_after_ms", "pause_method"} :
           settings'[field] = settings[field]
  BY <1>1, <1>2, <1>3 DEF SettingsFields
<1>5. (settings'.external_pid >= 1) \in BOOLEAN
  BY <1>3, <1>4
<1>6. /\ given' \in Seq(Option) /\ has_words' \in BOOLEAN /\ optind' \in Nat \ {0}
      /\ parsing' \in {"options", "1"} /\ errno' \in {"0", "ERANGE"}
      /\ parsing' # "1" => settings'.external_pid >= 1
  BY <1>1, <1>2, <1>5, CaseTypes, CheckTypes
<1>7. Usable'
  BY <1>2, <1>3, <1>4, <1>6 DEF OptionsInv, Usable
<1> QED
  BY <1>4, <1>6, <1>7 DEF OptionsInv, ArgumentsTypeOK, SettingsFields, Consistent

LEMMA StartMonitorAfterStep == OptionsInv /\ CaseStartMonitorAfter => OptionsInv'
<1> SUFFICES ASSUME OptionsInv, CaseStartMonitorAfter PROVE OptionsInv'
  OBVIOUS
<1> DEFINE value == strtol(given[optind].number)
<1>1. /\ Case("a") /\ settings' = [settings EXCEPT !["start_monitor_after_ms"] = value]
      /\ Check(settings'.start_monitor_after_ms >= 0)
  BY DEF CaseStartMonitorAfter, Set
<1>2. ArgumentsTypeOK /\ settings \in SettingsFields /\ parsing = "options"
  BY <1>1, CaseTypes DEF OptionsInv, ArgumentsTypeOK, SettingsFields
<1>3. value \in Int
  <2>1. given[optind].number \in Int
    BY <1>1, <1>2, CaseTypes, NumberIsInt DEF NumericOptions
  <2> QED
    BY <2>1, strtolIsInt
<1> HIDE DEF value
<1>4. /\ settings' \in SettingsFields /\ settings'.start_monitor_after_ms = value
      /\ \A field \in {"user_idle_timeout_ms", "external_pid", "pause_method"} :
           settings'[field] = settings[field]
  BY <1>1, <1>2, <1>3 DEF SettingsFields
<1>5. (settings'.start_monitor_after_ms >= 0) \in BOOLEAN
  BY <1>3, <1>4
<1>6. /\ given' \in Seq(Option) /\ has_words' \in BOOLEAN /\ optind' \in Nat \ {0}
      /\ parsing' \in {"options", "1"} /\ errno' \in {"0", "ERANGE"}
      /\ parsing' # "1" => settings'.start_monitor_after_ms >= 0
  BY <1>1, <1>2, <1>5, CaseTypes, CheckTypes
<1>7. Usable'
  BY <1>2, <1>4, <1>6 DEF OptionsInv, Usable
<1> QED
  BY <1>4, <1>6, <1>7 DEF OptionsInv, ArgumentsTypeOK, SettingsFields, Consistent

LEMMA PauseMethodStep == OptionsInv /\ CasePauseMethod => OptionsInv'
<1> SUFFICES ASSUME OptionsInv, CasePauseMethod PROVE OptionsInv'
  OBVIOUS
<1> DEFINE method == toupper(given[optind].word)
<1>1. /\ Case("m") /\ errno' = errno
      /\ \/ /\ method \in pause_method_string /\ parsing' = parsing
            /\ settings' = [settings EXCEPT !["pause_method"] = method]
         \/ /\ parsing' = "1"
            /\ settings' = [settings EXCEPT !["pause_method"] = "UNKNOWN"]
  BY DEF CasePauseMethod, Set
<1> HIDE DEF method
<1>2. /\ settings \in SettingsFields /\ parsing = "options" /\ errno \in {"0", "ERANGE"}
      /\ given' \in Seq(Option) /\ has_words' \in BOOLEAN /\ optind' \in Nat \ {0}
  BY <1>1, CaseTypes DEF OptionsInv, ArgumentsTypeOK, SettingsFields
<1>3. /\ settings' \in SettingsFields /\ parsing' \in {"options", "1"}
      /\ parsing' # "1" => settings'.pause_method \in pause_method_string
      /\ \A field \in {"user_idle_timeout_ms", "external_pid", "start_monitor_after_ms"} :
           settings'[field] = settings[field]
  BY <1>1, <1>2 DEF SettingsFields
<1>4. Usable'
  BY <1>2, <1>3 DEF OptionsInv, Usable
<1> QED
  BY <1>1, <1>2, <1>3, <1>4 DEF OptionsInv, ArgumentsTypeOK, SettingsFields, Consistent

LEMMA FlagStep == OptionsInv /\ CaseFlag => OptionsInv'
<1> SUFFICES ASSUME OptionsInv, CaseFlag PROVE OptionsInv'
  OBVIOUS
<1>1. /\ \/ settings' = [settings EXCEPT !["verbose"] = TRUE]
         \/ settings' = [settings EXCEPT !.debug = TRUE, !.verbose = TRUE]
         \/ settings' = [settings EXCEPT !["quiet"] = TRUE]
      /\ parsing' = parsing /\ errno' = errno
  BY DEF CaseFlag, Set
<1>2. /\ settings \in SettingsFields /\ parsing = "options" /\ errno \in {"0", "ERANGE"}
      /\ given' \in Seq(Option) /\ has_words' \in BOOLEAN /\ optind' \in Nat \ {0}
  BY CaseTypes DEF CaseFlag, OptionsInv, ArgumentsTypeOK, SettingsFields
<1>3. /\ settings' \in SettingsFields
      /\ \A field \in {"user_idle_timeout_ms", "external_pid", "start_monitor_after_ms",
                        "pause_method"} :
           settings'[field] = settings[field]
  BY <1>1, <1>2 DEF SettingsFields
<1>4. Usable'
  BY <1>1, <1>3 DEF OptionsInv, Usable
<1> QED
  BY <1>1, <1>2, <1>3, <1>4 DEF OptionsInv, ArgumentsTypeOK, SettingsFields, Consistent

LEMMA ExitStep == OptionsInv /\ CaseExit => OptionsInv'
<1> SUFFICES ASSUME OptionsInv, CaseExit PROVE OptionsInv'
  OBVIOUS
<1>1. /\ given' \in Seq(Option) /\ has_words' \in BOOLEAN /\ optind' \in Nat \ {0}
      /\ parsing' \in {"0", "1"} /\ errno' = errno /\ settings' = settings
  BY CaseTypes DEF CaseExit, OptionsInv
<1> QED
  BY <1>1 DEF OptionsInv, ArgumentsTypeOK, Usable, Consistent

LEMMA AfterOptionsStep == OptionsInv /\ AfterOptions => OptionsInv'
<1> SUFFICES ASSUME OptionsInv, AfterOptions PROVE OptionsInv'
  OBVIOUS
<1>1. /\ UNCHANGED <<given, has_words, optind, errno, settings>>
      /\ parsing = "options" /\ parsing' \in {"parsed", "1"}
  BY DEF AfterOptions
<1>2. parsing' = "parsed" =>
        /\ ~((settings.external_pid # 0) = has_words)
        /\ ~(settings.quiet /\ settings.debug) /\ ~(settings.quiet /\ settings.verbose)
  BY DEF AfterOptions
<1>3. Consistent'
  BY <1>1, <1>2 DEF OptionsInv, ArgumentsTypeOK, Consistent
<1> QED
  BY <1>1, <1>3 DEF OptionsInv, ArgumentsTypeOK, Usable

LEMMA ParseStep == OptionsInv /\ ParseArguments => OptionsInv'
BY TimeoutStep, PidStep, StartMonitorAfterStep, PauseMethodStep, FlagStep, ExitStep,
   AfterOptionsStep DEF ParseArguments

LEMMA OptionsInvariance == Spec => []OptionsInv
<1>1. Init => OptionsInv
  BY OptionsBegin DEF Init
<1>2. OptionsInv /\ UNCHANGED argumentsVars => OptionsInv'
  BY DEF argumentsVars, OptionsInv, ArgumentsTypeOK, Usable, Consistent
<1>3. OptionsInv /\ [Next]_vars => OptionsInv'
  BY <1>2, ParseStep DEF Next, Program, World, StartCommand, vars
<1> QED
  BY <1>1, <1>3, PTL DEF Spec

-----------------------------------------------------------------------------
\* Whatever the options and whatever the widths of int and long: what the
\* program goes on with is a supported timeout, a method it can use, a pid or a
\* command and not both, and no contradiction about its output.
THEOREM UsableSettings == Spec => []SettingsAreUsable
<1>1. OptionsInv => SettingsAreUsable
  BY DEF OptionsInv, Usable, Consistent, Timeouts, SettingsAreUsable
<1> QED
  BY <1>1, OptionsInvariance, PTL

\* Whatever the width of the protocol's integer: the compositor gets the timeout
\* that was asked for or the longest one it can express.
THEOREM LongestTimeout == Spec => []ProtocolTimeoutIsLongest
<1>1. OptionsInv => ProtocolTimeoutIsLongest
  <2> SUFFICES ASSUME OptionsInv PROVE ProtocolTimeoutIsLongest
    OBVIOUS
  <2>1. settings.user_idle_timeout_ms \in Nat \ {0}
    BY TimeoutsAreNat DEF OptionsInv, Usable
  <2> QED
    BY <2>1 DEF ProtocolTimeoutIsLongest, timeout_ms_for_protocol
<1> QED
  BY <1>1, OptionsInvariance, PTL

-----------------------------------------------------------------------------
(***************************************************************************)
(* The options mean what they say.  After each round of the loop the       *)
(* settings are what the options before optind mean, all of which could be *)
(* let through, and no errno is left behind by one of them.                *)
(***************************************************************************)
UsesBelow(line, option, n) == {k \in 1 .. n - 1 : line[k].option = option}
LastOf(line, uses) == line[CHOOSE k \in uses : \A m \in uses : m <= k]
NumberOf(line, uses, default) == IF uses = {} THEN default ELSE LastOf(line, uses).number

TimeoutBelow(line, n) ==
  NumberOf(line, UsesBelow(line, "t", n), DefaultTimeout) * MsPerSecond
PidBelow(line, n) == ToInt(NumberOf(line, UsesBelow(line, "p", n), 0))
DelayBelow(line, n) == NumberOf(line, UsesBelow(line, "a", n), DefaultDelay)
MethodBelow(line, n) ==
  IF UsesBelow(line, "m", n) = {}
  THEN "SIGSTOP" ELSE toupper(LastOf(line, UsesBelow(line, "m", n)).word)
VerboseBelow(line, n) == UsesBelow(line, "v", n) \cup UsesBelow(line, "d", n) # {}
DebugBelow(line, n) == UsesBelow(line, "d", n) # {}
QuietBelow(line, n) == UsesBelow(line, "q", n) # {}

MeantBelow(s, line, n) ==
  /\ s.user_idle_timeout_ms = TimeoutBelow(line, n)
  /\ s.external_pid = PidBelow(line, n)
  /\ s.start_monitor_after_ms = DelayBelow(line, n)
  /\ s.pause_method = MethodBelow(line, n)
  /\ s.verbose = VerboseBelow(line, n)
  /\ s.debug = DebugBelow(line, n)
  /\ s.quiet = QuietBelow(line, n)

Passes(o) == Acceptable(o) \/ Overlooked(o)

\* 0 is not the pid of any option, so that it can stand for none.
PidIsGiven(s, line, n) == s.external_pid = 0 <=> UsesBelow(line, "p", n) = {}

MeantSoFar ==
  parsing = "options" =>
    /\ errno = "0"
    /\ optind \in 1 .. Len(given) + 1
    /\ MeantBelow(settings, given, optind)
    /\ PidIsGiven(settings, given, optind)
    /\ \A k \in 1 .. optind - 1 : Passes(given[k])

MeaningInv == OptionsInv /\ ParsesAsMeant /\ MeantSoFar

-----------------------------------------------------------------------------
(* Numbers that fit are converted to themselves. *)

LEMMA strtolOfLong == \A n \in Int : ~OutOfRange(n) => strtol(n) = n
BY DEF strtol, OutOfRange

LEMMA ModOfSmaller == \A a \in Nat, b \in Nat \ {0} : a < b => a % b = a
OBVIOUS

LEMMA ToIntOfInt == \A n \in -INT_MAX - 1 .. INT_MAX : ToInt(n) = n
<1> SUFFICES ASSUME NEW n \in -INT_MAX - 1 .. INT_MAX PROVE ToInt(n) = n
  OBVIOUS
<1>1. PICK a \in Nat, b \in Nat \ {0} : a = n + INT_MAX + 1 /\ b = 2 * (INT_MAX + 1) /\ a < b
  OBVIOUS
<1>2. a % b = a
  BY <1>1, ModOfSmaller
<1>3. (n + INT_MAX + 1) % (2 * (INT_MAX + 1)) = n + INT_MAX + 1
  BY <1>1, <1>2, Zenon
<1> QED
  BY <1>3 DEF ToInt

\* A timeout that is supported fits into a long even in milliseconds.
LEMMA TimeoutIsLong == TIMEOUT_MAX_SUPPORTED_VALUE <= LONG_MAX
BY DEF ArgumentsAssumption

-----------------------------------------------------------------------------
(* What one more option changes in what the options mean. *)

LEMMA OtherUses ==
  ASSUME NEW line, NEW n \in Nat \ {0}, NEW option, line[n].option # option
  PROVE  UsesBelow(line, option, n + 1) = UsesBelow(line, option, n)
BY DEF UsesBelow

LEMMA LatestUse ==
  ASSUME NEW line, NEW n \in Nat \ {0}, NEW option, line[n].option = option
  PROVE  /\ UsesBelow(line, option, n + 1) # {}
         /\ LastOf(line, UsesBelow(line, option, n + 1)) = line[n]
<1> DEFINE U == UsesBelow(line, option, n + 1)
<1>1. n \in U /\ \A m \in U : m \in Int /\ m <= n
  BY DEF UsesBelow
<1> HIDE DEF U
<1> DEFINE c == CHOOSE k \in U : \A m \in U : m <= k
<1>2. c \in U /\ \A m \in U : m <= c
  BY <1>1, Zenon
<1>3. c = n
  <2> HIDE DEF c
  <2> QED
    BY <1>1, <1>2
<1> QED
  BY <1>1, <1>3, Zenon DEF U, LastOf

LEMMA MeaningOfNone ==
  ASSUME NEW line, NEW s,
         s = [user_idle_timeout_ms |-> DefaultTimeout * MsPerSecond,
              external_pid |-> 0, start_monitor_after_ms |-> DefaultDelay,
              pause_method |-> "SIGSTOP", verbose |-> FALSE, debug |-> FALSE, quiet |-> FALSE]
  PROVE  MeantBelow(s, line, 1) /\ PidIsGiven(s, line, 1)
<1>1. \A option : UsesBelow(line, option, 1) = {}
  BY DEF UsesBelow
<1>2. \A option, default : NumberOf(line, UsesBelow(line, option, 1), default) = default
  BY <1>1, Zenon DEF NumberOf
<1>3. /\ ~VerboseBelow(line, 1) /\ ~DebugBelow(line, 1) /\ ~QuietBelow(line, 1)
      /\ MethodBelow(line, 1) = "SIGSTOP"
  BY <1>1 DEF VerboseBelow, DebugBelow, QuietBelow, MethodBelow
<1>4. /\ TimeoutBelow(line, 1) = DefaultTimeout * MsPerSecond /\ PidBelow(line, 1) = ToInt(0)
      /\ DelayBelow(line, 1) = DefaultDelay
  BY <1>2, Zenon DEF TimeoutBelow, PidBelow, DelayBelow
<1>5. ToInt(0) = 0
  BY ToIntOfInt
<1> QED
  BY <1>1, <1>3, <1>4, <1>5 DEF MeantBelow, PidIsGiven, VerboseBelow, DebugBelow, QuietBelow

LEMMA MeaningOfNext ==
  ASSUME NEW line, NEW n \in Nat \ {0}, NEW s \in SettingsFields, NEW r, NEW o, o = line[n],
         MeantBelow(s, line, n), PidIsGiven(s, line, n),
         \/ o.option = "t" /\ r = [s EXCEPT !["user_idle_timeout_ms"] = o.number * MsPerSecond]
         \/ o.option = "p" /\ r = [s EXCEPT !["external_pid"] = ToInt(o.number)]
              /\ ToInt(o.number) \in Int \ {0}
         \/ o.option = "a" /\ r = [s EXCEPT !["start_monitor_after_ms"] = o.number]
         \/ o.option = "m" /\ r = [s EXCEPT !["pause_method"] = toupper(o.word)]
         \/ o.option = "v" /\ r = [s EXCEPT !["verbose"] = TRUE]
         \/ o.option = "d" /\ r = [s EXCEPT !.debug = TRUE, !.verbose = TRUE]
         \/ o.option = "q" /\ r = [s EXCEPT !["quiet"] = TRUE]
  PROVE  MeantBelow(r, line, n + 1) /\ PidIsGiven(r, line, n + 1)
<1>1. \A x : o.option # x => UsesBelow(line, x, n + 1) = UsesBelow(line, x, n)
  BY OtherUses
<1>2. \A x : o.option = x => /\ UsesBelow(line, x, n + 1) # {}
                             /\ LastOf(line, UsesBelow(line, x, n + 1)) = o
  BY LatestUse
<1>3. \A x : o.option = x =>
               \A default : NumberOf(line, UsesBelow(line, x, n + 1), default) = o.number
  BY <1>2, Zenon DEF NumberOf
<1>4. /\ o.option # "t" => TimeoutBelow(line, n + 1) = TimeoutBelow(line, n)
      /\ o.option # "p" => PidBelow(line, n + 1) = PidBelow(line, n)
      /\ o.option # "a" => DelayBelow(line, n + 1) = DelayBelow(line, n)
      /\ o.option # "m" => MethodBelow(line, n + 1) = MethodBelow(line, n)
      /\ o.option # "d" => DebugBelow(line, n + 1) = DebugBelow(line, n)
      /\ o.option # "q" => QuietBelow(line, n + 1) = QuietBelow(line, n)
      /\ o.option # "v" /\ o.option # "d" => VerboseBelow(line, n + 1) = VerboseBelow(line, n)
  <2>1. o.option # "t" => TimeoutBelow(line, n + 1) = TimeoutBelow(line, n)
    BY <1>1 DEF TimeoutBelow
  <2>2. o.option # "p" => PidBelow(line, n + 1) = PidBelow(line, n)
    BY <1>1 DEF PidBelow
  <2>3. o.option # "a" => DelayBelow(line, n + 1) = DelayBelow(line, n)
    BY <1>1 DEF DelayBelow
  <2>4. o.option # "m" => MethodBelow(line, n + 1) = MethodBelow(line, n)
    BY <1>1 DEF MethodBelow
  <2>5. /\ o.option # "d" => DebugBelow(line, n + 1) = DebugBelow(line, n)
        /\ o.option # "q" => QuietBelow(line, n + 1) = QuietBelow(line, n)
    BY <1>1 DEF DebugBelow, QuietBelow
  <2>6. o.option # "v" /\ o.option # "d" => VerboseBelow(line, n + 1) = VerboseBelow(line, n)
    BY <1>1 DEF VerboseBelow
  <2> QED
    BY <2>1, <2>2, <2>3, <2>4, <2>5, <2>6
<1>5. /\ o.option # "p" /\ r.external_pid = s.external_pid => PidIsGiven(r, line, n + 1)
      /\ o.option = "p" /\ r.external_pid # 0 => PidIsGiven(r, line, n + 1)
  BY <1>1, <1>2 DEF PidIsGiven
<1>6. CASE o.option = "t" /\ r = [s EXCEPT !["user_idle_timeout_ms"] = o.number * MsPerSecond]
  <2>1. /\ r.user_idle_timeout_ms = o.number * MsPerSecond
        /\ r.external_pid = s.external_pid
        /\ r.start_monitor_after_ms = s.start_monitor_after_ms
        /\ r.pause_method = s.pause_method
        /\ r.verbose = s.verbose
        /\ r.debug = s.debug
        /\ r.quiet = s.quiet
    BY <1>6 DEF SettingsFields
  <2>2. TimeoutBelow(line, n + 1) = o.number * MsPerSecond
    BY <1>2, <1>3, <1>6 DEF TimeoutBelow
  <2> QED
    BY <1>4, <1>5, <1>6, <2>1, <2>2 DEF MeantBelow
<1>7. CASE /\ o.option = "p" /\ r = [s EXCEPT !["external_pid"] = ToInt(o.number)]
           /\ ToInt(o.number) \in Int \ {0}
  <2>1. /\ r.external_pid = ToInt(o.number) /\ r.external_pid # 0
        /\ r.user_idle_timeout_ms = s.user_idle_timeout_ms
        /\ r.start_monitor_after_ms = s.start_monitor_after_ms
        /\ r.pause_method = s.pause_method
        /\ r.verbose = s.verbose
        /\ r.debug = s.debug
        /\ r.quiet = s.quiet
    BY <1>7 DEF SettingsFields
  <2>2. PidBelow(line, n + 1) = ToInt(o.number)
    <3>1. NumberOf(line, UsesBelow(line, "p", n + 1), 0) = o.number
      BY <1>3, <1>7
    <3> QED
      BY <3>1, Zenon DEF PidBelow
  <2> QED
    BY <1>4, <1>5, <1>7, <2>1, <2>2 DEF MeantBelow
<1>8. CASE o.option = "a" /\ r = [s EXCEPT !["start_monitor_after_ms"] = o.number]
  <2>1. /\ r.start_monitor_after_ms = o.number
        /\ r.user_idle_timeout_ms = s.user_idle_timeout_ms
        /\ r.external_pid = s.external_pid
        /\ r.pause_method = s.pause_method
        /\ r.verbose = s.verbose
        /\ r.debug = s.debug
        /\ r.quiet = s.quiet
    BY <1>8 DEF SettingsFields
  <2>2. DelayBelow(line, n + 1) = o.number
    BY <1>2, <1>3, <1>8 DEF DelayBelow
  <2> QED
    BY <1>4, <1>5, <1>8, <2>1, <2>2 DEF MeantBelow
<1>9. CASE o.option = "m" /\ r = [s EXCEPT !["pause_method"] = toupper(o.word)]
  <2>1. /\ r.pause_method = toupper(o.word)
        /\ r.user_idle_timeout_ms = s.user_idle_timeout_ms
        /\ r.external_pid = s.external_pid
        /\ r.start_monitor_after_ms = s.start_monitor_after_ms
        /\ r.verbose = s.verbose
        /\ r.debug = s.debug
        /\ r.quiet = s.quiet
    BY <1>9 DEF SettingsFields
  <2>2. MethodBelow(line, n + 1) = toupper(o.word)
    BY <1>2, <1>9 DEF MethodBelow
  <2> QED
    BY <1>4, <1>5, <1>9, <2>1, <2>2 DEF MeantBelow
<1>10. CASE o.option = "v" /\ r = [s EXCEPT !["verbose"] = TRUE]
  <2>1. /\ r.verbose = TRUE
        /\ r.user_idle_timeout_ms = s.user_idle_timeout_ms
        /\ r.external_pid = s.external_pid
        /\ r.start_monitor_after_ms = s.start_monitor_after_ms
        /\ r.pause_method = s.pause_method
        /\ r.debug = s.debug
        /\ r.quiet = s.quiet
    BY <1>10 DEF SettingsFields
  <2>2. VerboseBelow(line, n + 1) = TRUE
    BY <1>2, <1>10 DEF VerboseBelow
  <2> QED
    BY <1>4, <1>5, <1>10, <2>1, <2>2 DEF MeantBelow
<1>11. CASE o.option = "d" /\ r = [s EXCEPT !.debug = TRUE, !.verbose = TRUE]
  <2>1. r.debug = TRUE
    BY <1>11 DEF SettingsFields
  <2>2. r.verbose = TRUE
    BY <1>11 DEF SettingsFields
  <2>3. /\ r.user_idle_timeout_ms = s.user_idle_timeout_ms
        /\ r.external_pid = s.external_pid
        /\ r.start_monitor_after_ms = s.start_monitor_after_ms
        /\ r.pause_method = s.pause_method
        /\ r.quiet = s.quiet
    BY <1>11 DEF SettingsFields
  <2>4. DebugBelow(line, n + 1) = TRUE /\ VerboseBelow(line, n + 1) = TRUE
    BY <1>2, <1>11 DEF DebugBelow, VerboseBelow
  <2>5. r.debug = DebugBelow(line, n + 1) /\ r.verbose = VerboseBelow(line, n + 1)
    BY <2>1, <2>2, <2>4, Zenon
  <2> QED
    BY <1>4, <1>5, <1>11, <2>3, <2>5 DEF MeantBelow
<1>12. CASE o.option = "q" /\ r = [s EXCEPT !["quiet"] = TRUE]
  <2>1. /\ r.quiet = TRUE
        /\ r.user_idle_timeout_ms = s.user_idle_timeout_ms
        /\ r.external_pid = s.external_pid
        /\ r.start_monitor_after_ms = s.start_monitor_after_ms
        /\ r.pause_method = s.pause_method
        /\ r.verbose = s.verbose
        /\ r.debug = s.debug
    BY <1>12 DEF SettingsFields
  <2>2. QuietBelow(line, n + 1) = TRUE
    BY <1>2, <1>12 DEF QuietBelow
  <2> QED
    BY <1>4, <1>5, <1>12, <2>1, <2>2 DEF MeantBelow
<1> QED
  BY <1>6, <1>7, <1>8, <1>9, <1>10, <1>11, <1>12

LEMMA MeaningOfAll ==
  ASSUME given \in Seq(Option), settings \in SettingsFields,
         MeantBelow(settings, given, Len(given) + 1),
         PidIsGiven(settings, given, Len(given) + 1)
  PROVE  settings = Meant /\ (settings.external_pid = 0 <=> Uses("p") = {})
<1>1. \A option : Uses(option) = UsesBelow(given, option, Len(given) + 1)
  BY DEF Uses, UsesBelow
<1>2. \A option : LastUse(option) = LastOf(given, Uses(option))
  BY Zenon DEF LastUse, LastOf
<1>3. \A option, default : LastNumber(option, default) = NumberOf(given, Uses(option), default)
  BY <1>2, Zenon DEF LastNumber, NumberOf
<1>4. /\ settings.user_idle_timeout_ms = Meant.user_idle_timeout_ms
      /\ settings.external_pid = Meant.external_pid
      /\ settings.start_monitor_after_ms = Meant.start_monitor_after_ms
  BY <1>1, <1>3 DEF Meant, MeantBelow, TimeoutBelow, PidBelow, DelayBelow
<1>5. settings.pause_method = Meant.pause_method
  BY <1>1, <1>2 DEF Meant, MeantBelow, MethodBelow
<1>6. /\ settings.verbose = Meant.verbose
      /\ settings.debug = Meant.debug
      /\ settings.quiet = Meant.quiet
  BY <1>1 DEF Meant, MeantBelow, VerboseBelow, DebugBelow, QuietBelow
<1>7. Meant = [user_idle_timeout_ms |-> Meant.user_idle_timeout_ms,
               external_pid |-> Meant.external_pid,
               start_monitor_after_ms |-> Meant.start_monitor_after_ms,
               pause_method |-> Meant.pause_method, verbose |-> Meant.verbose,
               debug |-> Meant.debug, quiet |-> Meant.quiet]
  BY Zenon DEF Meant
<1> QED
  BY <1>1, <1>4, <1>5, <1>6, <1>7 DEF SettingsFields, PidIsGiven

LEMMA OthersPass ==
  ASSUME NEW line \in Seq(Option), NEW n \in 1 .. Len(line),
         \A k \in 1 .. n - 1 : Passes(line[k]), Passes(line[n])
  PROVE  \A k \in 1 .. n : Passes(line[k])
OBVIOUS

-----------------------------------------------------------------------------
(* Every case of the switch. *)

LEMMA MeaningBegins == ArgumentsInit => MeantSoFar
<1> SUFFICES ASSUME ArgumentsInit PROVE MeantSoFar
  OBVIOUS
<1>1. MeantBelow(settings, given, 1) /\ PidIsGiven(settings, given, 1)
  BY MeaningOfNone DEF ArgumentsInit
<1>2. optind = 1 /\ errno = "0" /\ Len(given) \in Nat
  BY DEF ArgumentsInit
<1> QED
  BY <1>1, <1>2 DEF MeantSoFar

\* What all the cases have in common: there is an option to look at, and the
\* next one is looked at with what that one means.
LEMMA CaseFacts ==
  ASSUME OptionsInv, MeantSoFar, NEW option, Case(option)
  PROVE  /\ given \in Seq(Option) /\ settings \in SettingsFields /\ errno = "0"
         /\ parsing = "options" /\ optind \in Nat \ {0} /\ optind \in 1 .. Len(given)
         /\ given[optind] \in Option /\ given[optind].option = option
         /\ given' = given /\ has_words' = has_words /\ optind' = optind + 1
         /\ MeantBelow(settings, given, optind) /\ PidIsGiven(settings, given, optind)
         /\ \A k \in 1 .. optind - 1 : Passes(given[k])
<1>1. /\ parsing = "options" /\ optind \in DOMAIN given /\ given[optind].option = option
      /\ given' = given /\ has_words' = has_words /\ optind' = optind + 1
  BY DEF Case
<1>2. given \in Seq(Option) /\ settings \in SettingsFields
  BY DEF OptionsInv, ArgumentsTypeOK, SettingsFields
<1> QED
  BY <1>1, <1>2 DEF MeantSoFar

LEMMA NextMeaning ==
  ASSUME OptionsInv, MeantSoFar, NEW option, Case(option), errno' = "0",
         MeantBelow(settings', given, optind + 1), PidIsGiven(settings', given, optind + 1),
         Passes(given[optind])
  PROVE  MeantSoFar'
<1>1. MeantBelow(settings', given', optind') /\ PidIsGiven(settings', given', optind')
  BY CaseFacts, Zenon
<1>2. \A k \in 1 .. optind : Passes(given[k])
  BY CaseFacts, OthersPass
<1>3. optind' \in 1 .. Len(given') + 1 /\ optind' - 1 = optind /\ given' = given
  BY CaseFacts
<1> QED
  BY <1>1, <1>2, <1>3 DEF MeantSoFar

LEMMA MaximumIsLong ==
  START_MONITOR_AFTER_MAX_SUPPORTED_VALUE \in Nat
    /\ START_MONITOR_AFTER_MAX_SUPPORTED_VALUE <= LONG_MAX
<1>1. \A a, b \in Nat : a * b \in Nat
  OBVIOUS
<1>2. TIMEOUT_MAX_SUPPORTED_VALUE * MsPerSecond \in Nat
  BY <1>1
<1> QED
  BY <1>2 DEF START_MONITOR_AFTER_MAX_SUPPORTED_VALUE

\* What an option has to be to pass, one kind at a time.  For a pid and a delay
\* this is what is acceptable together with what is overlooked.
LEMMA PassingKinds ==
  ASSUME NEW o \in Option
  PROVE  /\ o.option = "t" =>
              (Passes(o) <=> /\ ~o.junk
                             /\ o.number \in TIMEOUT_MIN_SUPPORTED_VALUE
                                             .. TIMEOUT_MAX_SUPPORTED_VALUE)
         /\ o.option = "p" =>
              (Passes(o) <=> ~o.junk /\ ~OutOfRange(o.number) /\ ToInt(o.number) >= 1)
         /\ o.option = "a" => (Passes(o) <=> ~o.junk /\ o.number \in 0 .. LONG_MAX)
         /\ o.option = "m" => (Passes(o) <=> toupper(o.word) \in pause_method_string)
         /\ o.option \in {"v", "d", "q"} => Passes(o)
         /\ o.option \in {"h", "V", "?"} => ~Passes(o)
<1>1. o.option \notin {"p", "a"} => ~Overlooked(o)
  BY DEF Overlooked
<1>2. ASSUME o.option = "p"
      PROVE  Passes(o) <=> ~o.junk /\ ~OutOfRange(o.number) /\ ToInt(o.number) >= 1
  <2>1. o.number \in Int
    BY <1>2, NumberIsInt DEF NumericOptions
  <2>2. CASE o.number \in -INT_MAX - 1 .. INT_MAX
    <3>1. ToInt(o.number) = o.number /\ ~OutOfRange(o.number)
      BY <2>2, ToIntOfInt DEF OutOfRange
    <3> QED
      BY <1>2, <2>2, <3>1 DEF Passes, Acceptable, Overlooked
  <2>3. CASE o.number \notin -INT_MAX - 1 .. INT_MAX
    <3>1. ~Acceptable(o)
      BY <1>2, <2>1, <2>3 DEF Acceptable
    <3> QED
      BY <1>2, <2>3, <3>1 DEF Passes, Overlooked
  <2> QED
    BY <2>2, <2>3
<1>3. ASSUME o.option = "a"
      PROVE  Passes(o) <=> ~o.junk /\ o.number \in 0 .. LONG_MAX
  <2>1. o.number \in Int
    BY <1>3, NumberIsInt DEF NumericOptions
  <2> QED
    BY <1>3, <2>1, MaximumIsLong DEF Passes, Acceptable, Overlooked, OutOfRange
<1> QED
  BY <1>1, <1>2, <1>3 DEF Passes, Acceptable

LEMMA CheckOutcome ==
  ASSUME NEW inRange \in BOOLEAN, Check(inRange), errno = "0", given[optind] \in Option
  PROVE  /\ parsing' = "options" => /\ errno' = "0" /\ inRange /\ ~given[optind].junk
                                    /\ ~OutOfRange(given[optind].number)
         /\ parsing' # "options" => /\ parsing' = "1"
                                    /\ \/ ~inRange \/ given[optind].junk
                                       \/ OutOfRange(given[optind].number)
BY DEF Check

\* What a round of the loop has to do: to go on with what the options mean so
\* far, or to refuse an option that does not pass.
Meaningful ==
  /\ MeantSoFar'
  /\ parsing' # "parsed"
  /\ parsing' = "1" => optind \in DOMAIN given /\ ~Passes(given[optind])

LEMMA TimeoutMeans == OptionsInv /\ MeantSoFar /\ CaseTimeout => Meaningful
<1> SUFFICES ASSUME OptionsInv, MeantSoFar, CaseTimeout PROVE Meaningful
  OBVIOUS
<1> DEFINE o == given[optind]
           seconds == strtol(o.number)
           inRange == seconds \in TIMEOUT_MIN_SUPPORTED_VALUE .. TIMEOUT_MAX_SUPPORTED_VALUE
<1>1. /\ Case("t") /\ Check(inRange) /\ inRange \in BOOLEAN
      /\ parsing' # "1" =>
           settings' = [settings EXCEPT !["user_idle_timeout_ms"] = seconds * MsPerSecond]
  BY DEF CaseTimeout, Set
<1>2. /\ o \in Option /\ o.option = "t" /\ o.number \in Int /\ errno = "0"
      /\ optind \in DOMAIN given
  BY <1>1, CaseFacts, NumberIsInt DEF NumericOptions
<1>3. ~OutOfRange(o.number) => seconds = o.number
  BY <1>2, strtolOfLong
<1>4. Passes(o) <=> inRange /\ ~o.junk /\ ~OutOfRange(o.number)
  BY <1>2, <1>3, PassingKinds, TimeoutIsLong DEF OutOfRange
<1> HIDE DEF inRange
<1>5. CASE parsing' = "options"
  <2>1. Passes(o) /\ seconds = o.number /\ errno' = "0"
    BY <1>1, <1>2, <1>3, <1>4, <1>5, CheckOutcome
  <2>2. settings' = [settings EXCEPT !["user_idle_timeout_ms"] = o.number * MsPerSecond]
    BY <1>1, <1>5, <2>1
  <2>3. MeantBelow(settings', given, optind + 1) /\ PidIsGiven(settings', given, optind + 1)
    BY <1>1, <1>2, <2>2, CaseFacts, MeaningOfNext
  <2> QED
    BY <1>1, <1>5, <2>1, <2>3, NextMeaning DEF Meaningful
<1>6. CASE parsing' # "options"
  BY <1>1, <1>2, <1>4, <1>6, CheckOutcome DEF Meaningful, MeantSoFar
<1> QED
  BY <1>5, <1>6

LEMMA PidMeans == OptionsInv /\ MeantSoFar /\ CasePid => Meaningful
<1> SUFFICES ASSUME OptionsInv, MeantSoFar, CasePid PROVE Meaningful
  OBVIOUS
<1> DEFINE o == given[optind]
           pid == ToInt(strtol(o.number))
<1>1. /\ Case("p") /\ Check(settings'.external_pid >= 1)
      /\ settings' = [settings EXCEPT !["external_pid"] = pid]
  BY DEF CasePid, Set
<1>2. /\ o \in Option /\ o.option = "p" /\ o.number \in Int /\ errno = "0"
      /\ optind \in DOMAIN given
  BY <1>1, CaseFacts, NumberIsInt DEF NumericOptions
<1>3. pid \in Int /\ (~OutOfRange(o.number) => pid = ToInt(o.number))
  BY <1>2, strtolOfLong, strtolIsInt, ToIntIsInt
<1> HIDE DEF pid
<1>4. settings'.external_pid = pid
  BY <1>1, CaseFacts DEF SettingsFields
<1>5. Passes(o) <=> settings'.external_pid >= 1 /\ ~o.junk /\ ~OutOfRange(o.number)
  BY <1>2, <1>3, <1>4, PassingKinds
<1>6. (settings'.external_pid >= 1) \in BOOLEAN
  BY <1>3, <1>4
<1>7. CASE parsing' = "options"
  <2>1. errno' = "0" /\ settings'.external_pid >= 1 /\ ~o.junk /\ ~OutOfRange(o.number)
    BY <1>1, <1>2, <1>6, <1>7, CheckOutcome
  <2>2. Passes(o) /\ pid = ToInt(o.number) /\ ToInt(o.number) \in Int \ {0}
    BY <1>3, <1>4, <1>5, <2>1
  <2>3. settings' = [settings EXCEPT !["external_pid"] = ToInt(o.number)]
    BY <1>1, <2>2
  <2>4. MeantBelow(settings', given, optind + 1) /\ PidIsGiven(settings', given, optind + 1)
    BY <1>1, <1>2, <2>2, <2>3, CaseFacts, MeaningOfNext
  <2> QED
    BY <1>1, <1>7, <2>1, <2>2, <2>4, NextMeaning DEF Meaningful
<1>8. CASE parsing' # "options"
  BY <1>1, <1>2, <1>5, <1>6, <1>8, CheckOutcome DEF Meaningful, MeantSoFar
<1> QED
  BY <1>7, <1>8

LEMMA StartMonitorAfterMeans == OptionsInv /\ MeantSoFar /\ CaseStartMonitorAfter => Meaningful
<1> SUFFICES ASSUME OptionsInv, MeantSoFar, CaseStartMonitorAfter PROVE Meaningful
  OBVIOUS
<1> DEFINE o == given[optind]
           delay == strtol(o.number)
<1>1. /\ Case("a") /\ Check(settings'.start_monitor_after_ms >= 0)
      /\ settings' = [settings EXCEPT !["start_monitor_after_ms"] = delay]
  BY DEF CaseStartMonitorAfter, Set
<1>2. /\ o \in Option /\ o.option = "a" /\ o.number \in Int /\ errno = "0"
      /\ optind \in DOMAIN given
  BY <1>1, CaseFacts, NumberIsInt DEF NumericOptions
<1>3. delay \in Int /\ (~OutOfRange(o.number) => delay = o.number)
  BY <1>2, strtolOfLong, strtolIsInt
<1>4. settings'.start_monitor_after_ms = delay
  BY <1>1, CaseFacts DEF SettingsFields
<1>5. Passes(o) <=>
        settings'.start_monitor_after_ms >= 0 /\ ~o.junk /\ ~OutOfRange(o.number)
  BY <1>2, <1>3, <1>4, PassingKinds DEF OutOfRange
<1> HIDE DEF delay
<1>6. (settings'.start_monitor_after_ms >= 0) \in BOOLEAN
  BY <1>3, <1>4
<1>7. CASE parsing' = "options"
  <2>1. Passes(o) /\ delay = o.number /\ errno' = "0"
    BY <1>1, <1>2, <1>3, <1>5, <1>6, <1>7, CheckOutcome
  <2>2. MeantBelow(settings', given, optind + 1) /\ PidIsGiven(settings', given, optind + 1)
    BY <1>1, <1>2, <2>1, CaseFacts, MeaningOfNext
  <2> QED
    BY <1>1, <1>7, <2>1, <2>2, NextMeaning DEF Meaningful
<1>8. CASE parsing' # "options"
  BY <1>1, <1>2, <1>5, <1>6, <1>8, CheckOutcome DEF Meaningful, MeantSoFar
<1> QED
  BY <1>7, <1>8

LEMMA PauseMethodMeans == OptionsInv /\ MeantSoFar /\ CasePauseMethod => Meaningful
<1> SUFFICES ASSUME OptionsInv, MeantSoFar, CasePauseMethod PROVE Meaningful
  OBVIOUS
<1> DEFINE o == given[optind]
<1>1. /\ Case("m") /\ errno' = errno
      /\ IF toupper(o.word) \in pause_method_string
         THEN /\ settings' = [settings EXCEPT !["pause_method"] = toupper(o.word)]
              /\ parsing' = parsing
         ELSE parsing' = "1"
  BY DEF CasePauseMethod, Set
<1>2. /\ o \in Option /\ o.option = "m" /\ errno = "0" /\ parsing = "options"
      /\ optind \in DOMAIN given
  BY <1>1, CaseFacts
<1>3. Passes(o) <=> toupper(o.word) \in pause_method_string
  BY <1>2, PassingKinds
<1>4. CASE Passes(o)
  <2>1. MeantBelow(settings', given, optind + 1) /\ PidIsGiven(settings', given, optind + 1)
    BY <1>1, <1>2, <1>3, <1>4, CaseFacts, MeaningOfNext
  <2> QED
    BY <1>1, <1>2, <1>3, <1>4, <2>1, NextMeaning DEF Meaningful
<1>5. CASE ~Passes(o)
  BY <1>1, <1>2, <1>3, <1>5 DEF Meaningful, MeantSoFar
<1> QED
  BY <1>4, <1>5

LEMMA FlagMeans == OptionsInv /\ MeantSoFar /\ CaseFlag => Meaningful
<1> SUFFICES ASSUME OptionsInv, MeantSoFar, CaseFlag PROVE Meaningful
  OBVIOUS
<1>1. PICK option \in {"v", "d", "q"} :
        /\ Case(option) /\ parsing' = parsing /\ errno' = errno
        /\ \/ option = "v" /\ settings' = [settings EXCEPT !["verbose"] = TRUE]
           \/ option = "d" /\ settings' = [settings EXCEPT !.debug = TRUE, !.verbose = TRUE]
           \/ option = "q" /\ settings' = [settings EXCEPT !["quiet"] = TRUE]
  BY DEF CaseFlag, Set
<1>2. MeantBelow(settings', given, optind + 1) /\ PidIsGiven(settings', given, optind + 1)
  BY <1>1, CaseFacts, MeaningOfNext
<1>3. Passes(given[optind])
  BY <1>1, CaseFacts, PassingKinds
<1> QED
  BY <1>1, <1>2, <1>3, CaseFacts, NextMeaning DEF Meaningful

LEMMA ExitMeans == OptionsInv /\ MeantSoFar /\ CaseExit => Meaningful
<1> SUFFICES ASSUME OptionsInv, MeantSoFar, CaseExit PROVE Meaningful
  OBVIOUS
<1>1. PICK option \in {"h", "V", "?"} : Case(option) /\ parsing' \in {"0", "1"}
  BY DEF CaseExit
<1>2. optind \in DOMAIN given /\ ~Passes(given[optind])
  BY <1>1, CaseFacts, PassingKinds
<1> QED
  BY <1>1, <1>2 DEF Meaningful, MeantSoFar

-----------------------------------------------------------------------------
(* The invariant. *)

LEMMA LineStays ==
  ASSUME given' = given
  PROVE  Meant' = Meant /\ Uses("p")' = Uses("p")
<1>1. \A option : Uses(option)' = Uses(option)
  BY DEF Uses
<1>2. \A option : LastUse(option) = LastOf(given, Uses(option))
  BY Zenon DEF LastUse, LastOf
<1>3. \A option : LastUse(option)' = LastOf(given', Uses(option)')
  BY Zenon DEF LastUse, LastOf
<1>4. \A option : LastUse(option)' = LastUse(option)
  BY <1>1, <1>2, <1>3, Zenon
<1>5. \A option, default : LastNumber(option, default)' = LastNumber(option, default)
  BY <1>1, <1>4, Zenon DEF LastNumber
<1>6. Meant' = Meant
  BY <1>1, <1>4, <1>5, Zenon DEF Meant
<1> QED
  BY <1>1, <1>6

LEMMA LoopMeans ==
  ASSUME MeaningInv,
         \/ CaseTimeout \/ CasePid \/ CaseStartMonitorAfter
         \/ CasePauseMethod \/ CaseFlag \/ CaseExit
  PROVE  ParsesAsMeant' /\ MeantSoFar'
<1>1. given' = given
  BY DEF CaseTimeout, CasePid, CaseStartMonitorAfter, CasePauseMethod, CaseFlag, CaseExit, Case
<1>2. Meaningful
  BY TimeoutMeans, PidMeans, StartMonitorAfterMeans, PauseMethodMeans, FlagMeans, ExitMeans
     DEF MeaningInv
<1>3. MeantSoFar' /\ parsing' # "parsed"
      /\ (parsing' = "1" => \E k \in DOMAIN given' : ~Acceptable(given'[k]))
  BY <1>1, <1>2 DEF Meaningful, Passes
<1> QED
  BY <1>3, Zenon DEF ParsesAsMeant

LEMMA AfterOptionsMeans ==
  ASSUME MeaningInv, AfterOptions
  PROVE  ParsesAsMeant' /\ MeantSoFar'
<1>1. /\ given' = given /\ has_words' = has_words /\ settings' = settings
      /\ parsing = "options" /\ optind \notin DOMAIN given /\ parsing' \in {"1", "parsed"}
      /\ parsing' = "1" => \/ (settings.external_pid # 0) = has_words
                           \/ settings.quiet /\ settings.debug
                           \/ settings.quiet /\ settings.verbose
  BY DEF AfterOptions
<1>2. given \in Seq(Option) /\ settings \in SettingsFields
  BY DEF MeaningInv, OptionsInv, ArgumentsTypeOK, SettingsFields
<1>3. optind = Len(given) + 1
  BY <1>1, <1>2 DEF MeaningInv, MeantSoFar
<1>4. settings = Meant /\ (settings.external_pid = 0 <=> Uses("p") = {})
  BY <1>1, <1>2, <1>3, MeaningOfAll DEF MeaningInv, MeantSoFar
<1>5. \A k \in DOMAIN given : Acceptable(given[k]) \/ Overlooked(given[k])
  BY <1>1, <1>2, <1>3 DEF MeaningInv, MeantSoFar, Passes
<1>6. Meant.debug => Meant.verbose
  BY DEF Meant
<1>7. /\ parsing' = "1" => (Uses("p") # {}) = has_words \/ (Meant.quiet /\ Meant.verbose)
      /\ parsing' = "parsed" => (Uses("p") = {}) = has_words
  BY <1>1, <1>4, <1>6 DEF AfterOptions, MeaningInv, OptionsInv, ArgumentsTypeOK
<1>8. ParsesAsMeant'
  BY <1>1, <1>4, <1>5, <1>7, LineStays, Zenon DEF ParsesAsMeant
<1> QED
  BY <1>1, <1>8 DEF MeantSoFar

LEMMA MeaningStays ==
  ASSUME MeaningInv, UNCHANGED argumentsVars
  PROVE  ParsesAsMeant' /\ MeantSoFar'
<1>1. /\ given' = given /\ has_words' = has_words /\ settings' = settings
      /\ parsing' = parsing /\ optind' = optind /\ errno' = errno
  BY DEF argumentsVars
<1>2. Meant' = Meant /\ Uses("p")' = Uses("p")
  BY <1>1, LineStays
<1>3. ParsesAsMeant'
  BY <1>1, <1>2, Zenon DEF MeaningInv, ParsesAsMeant
<1>4. MeantSoFar'
  BY <1>1, Zenon DEF MeaningInv, MeantSoFar
<1> QED
  BY <1>3, <1>4

LEMMA MeaningInvariance == Spec => []MeaningInv
<1>1. Init => MeaningInv
  <2> SUFFICES ASSUME Init PROVE MeaningInv
    OBVIOUS
  <2>1. OptionsInv /\ MeantSoFar /\ parsing = "options"
    BY OptionsBegin, MeaningBegins DEF Init, ArgumentsInit
  <2> QED
    BY <2>1 DEF MeaningInv, ParsesAsMeant
<1>2. MeaningInv /\ [Next]_vars => MeaningInv'
  <2> SUFFICES ASSUME MeaningInv, [Next]_vars PROVE MeaningInv'
    OBVIOUS
  <2>1. ParseArguments \/ UNCHANGED argumentsVars
    BY DEF Next, Program, World, StartCommand, vars
  <2>2. OptionsInv'
    BY <2>1, ParseStep DEF MeaningInv, argumentsVars, OptionsInv, ArgumentsTypeOK, Usable,
       Consistent
  <2>3. ParsesAsMeant' /\ MeantSoFar'
    BY <2>1, LoopMeans, AfterOptionsMeans, MeaningStays DEF ParseArguments
  <2> QED
    BY <2>2, <2>3 DEF MeaningInv
<1> QED
  BY <1>1, <1>2, PTL DEF Spec

\* For every command line, of any length: the last use of an option counts, no
\* option is refused because of an earlier one, and the program goes on with one
\* that is not acceptable only if it is a pid that no int can hold or a delay
\* above the maximum.
THEOREM OptionsMeanWhatTheySay == Spec => []ParsesAsMeant
BY MeaningInvariance, PTL DEF MeaningInv
=============================================================================
