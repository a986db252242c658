--------------------- MODULE EnvironmentGuessingProofs ---------------------
(***************************************************************************)
(* Proofs about the session that is found, for any number of sockets and   *)
(* whatever servers start, end and crash while it is looked for.           *)
(***************************************************************************)
EXTENDS ArgumentsParsingProofs

suffix(n) == current_socket_numeric_suffix_value(n)
Notifies(n) == {"wl_seat", "ext_idle_notifier_v1"} \subseteq Interfaces[n]

\* The kernel's side.
WorldTypes ==
  /\ session \in [runtime_dir : BOOLEAN, cookie : {"none", "given", "home"}]
  /\ sockets \in [Kinds -> SUBSET Nat] /\ listening \in [Kinds -> SUBSET Nat]
  /\ seen \in [Kinds -> SUBSET Nat] /\ reliable \in [Kinds -> SUBSET Nat]
  /\ \A k \in Kinds : /\ listening[k] \subseteq sockets[k] /\ reliable[k] \subseteq listening[k]
                      /\ sockets[k] \subseteq seen[k] /\ seen[k] \subseteq Names[k]
  /\ sockets["wayland"] # {} => session.runtime_dir
  /\ changes \in 0 .. MaxChanges

\* The program's side.
ProgramTypes ==
  /\ pc \in {"start", "infer", "connect", "registry", "x_open"}
            \cup WaylandScans \cup XScans \cup Ended
  /\ env \in Variables /\ asked_for \in Variables
  /\ found \in BOOLEAN /\ lowest \in 0 .. INT_MAX /\ best \in Int
  /\ connection \in SocketNames \cup {Unset}

ScanTypes ==
  pc \in WaylandScans \cup XScans =>
    /\ stable \subseteq sockets[KindOf(pc)]
    /\ entries_read \subseteq seen[KindOf(pc)]
    /\ found <=> entries_read # {}

\* Of the entries that were read none is better, and the number of the best is
\* INT_MAX exactly if it has none.
WaylandScan ==
  pc \in WaylandScans /\ found =>
    /\ best \in entries_read
    /\ \A n \in entries_read : Preferred(best, n)
    /\ lowest = IF suffix(best) >= 0 THEN suffix(best) ELSE INT_MAX

XScan ==
  pc \in XScans /\ found =>
    /\ \E n \in entries_read : best = ToInt(strtol(n))
    /\ \A n \in entries_read : best <= ToInt(strtol(n))

SessionInv == WorldTypes /\ ProgramTypes /\ ScanTypes /\ WaylandScan /\ XScan

USE CTypesAssumption, GuessingAssumption

-----------------------------------------------------------------------------
(* Numbers and the order of the names. *)

LEMMA KindsAre == Kinds = {"wayland", "x"} /\ Names["wayland"] = SocketNames
                  /\ Names["x"] = XNumbers
BY DEF Kinds, Names

LEMMA Remainder ==
  ASSUME NEW a \in Nat, NEW b \in Nat \ {0}, a < b PROVE a % b = a
OBVIOUS

LEMMA IntsAreKept == \A n \in Nat : n <= INT_MAX => ToInt(strtol(n)) = n
<1> SUFFICES ASSUME NEW n \in Nat, n <= INT_MAX PROVE ToInt(strtol(n)) = n
  OBVIOUS
<1>1. strtol(n) = n
  BY DEF strtol
<1>2. PICK a \in Nat, b \in Nat \ {0} :
        a = n + INT_MAX + 1 /\ b = 2 * (INT_MAX + 1) /\ a < b
  OBVIOUS
<1>3. a % b = a
  BY <1>2, Remainder
<1>4. (n + INT_MAX + 1) % (2 * (INT_MAX + 1)) = n + INT_MAX + 1
  BY <1>2, <1>3, Zenon
<1> QED
  BY <1>1, <1>4 DEF ToInt

LEMMA SuffixIsInt == \A n \in SocketNames : suffix(n) \in -1 .. INT_MAX - 1
<1> SUFFICES ASSUME NEW n \in SocketNames PROVE suffix(n) \in -1 .. INT_MAX - 1
  OBVIOUS
<1>1. Number[n] \in Int /\ Number[n] # INT_MAX
  OBVIOUS
<1> QED
  BY <1>1 DEF suffix, current_socket_numeric_suffix_value

LEMMA SuffixIsUnique ==
  \A m, n \in SocketNames : suffix(m) = suffix(n) /\ suffix(m) >= 0 => m = n
BY DEF suffix, current_socket_numeric_suffix_value

LEMMA PreferredMeans ==
  \A m, n \in SocketNames :
    Preferred(m, n) <=>
      \/ suffix(m) >= 0 /\ suffix(n) >= 0 /\ suffix(m) <= suffix(n)
      \/ suffix(m) < 0 /\ suffix(n) < 0 /\ m <= n
      \/ suffix(m) >= 0 /\ suffix(n) < 0
<1> SUFFICES ASSUME NEW m \in SocketNames, NEW n \in SocketNames
             PROVE  Preferred(m, n) <=>
                      \/ suffix(m) >= 0 /\ suffix(n) >= 0 /\ suffix(m) <= suffix(n)
                      \/ suffix(m) < 0 /\ suffix(n) < 0 /\ m <= n
                      \/ suffix(m) >= 0 /\ suffix(n) < 0
  OBVIOUS
<1>1. suffix(m) \in Int /\ suffix(n) \in Int
  BY SuffixIsInt
<1> QED
  BY <1>1 DEF Preferred, suffix

LEMMA PreferredIsReflexive == \A n \in SocketNames : Preferred(n, n)
BY PreferredMeans, SuffixIsInt

LEMMA PreferredIsTransitive ==
  \A l, m, n \in SocketNames : Preferred(l, m) /\ Preferred(m, n) => Preferred(l, n)
BY PreferredMeans, SuffixIsInt

LEMMA PreferredIsAntisymmetric ==
  \A m, n \in SocketNames : Preferred(m, n) /\ Preferred(n, m) => m = n
BY PreferredMeans, SuffixIsInt, SuffixIsUnique

-----------------------------------------------------------------------------
(* The world. *)

LEMMA SessionBegins == SessionInit => SessionInv
<1> SUFFICES ASSUME SessionInit PROVE SessionInv
  OBVIOUS
<1>1. /\ pc = "start" /\ found = FALSE /\ lowest = INT_MAX /\ best = 0
      /\ connection = Unset /\ changes = 0 /\ asked_for = env
      /\ session = [runtime_dir |-> FALSE, cookie |-> "none"]
      /\ sockets = [k \in Kinds |-> {}]
      /\ listening = sockets /\ seen = sockets /\ reliable = sockets
  BY DEF SessionInit
<1>2. env \in Variables
  BY DEF SessionInit, Variables
<1>3. WorldTypes
  BY <1>1, KindsAre DEF WorldTypes
<1>4. ProgramTypes
  <2>1. asked_for \in Variables
    BY <1>1, <1>2
  <2>2. 0 \in Int /\ INT_MAX \in 0 .. INT_MAX /\ FALSE \in BOOLEAN
    OBVIOUS
  <2> QED
    BY <1>1, <1>2, <2>1, <2>2 DEF ProgramTypes
<1> QED
  BY <1>1, <1>3, <1>4 DEF SessionInv, ScanTypes, WaylandScan, XScan, WaylandScans, XScans

LEMMA BeginStep == SessionInv /\ Begin => SessionInv'
<1> SUFFICES ASSUME SessionInv, Begin PROVE SessionInv'
  OBVIOUS
<1>1. /\ pc' = "infer" /\ env' \in Variables /\ asked_for' = env'
      /\ session' \in [runtime_dir : BOOLEAN, cookie : {"none", "given", "home"}]
      /\ sockets' \in Directories
      /\ session'.runtime_dir \/ sockets'["wayland"] = {}
      /\ listening' \in [wayland : SUBSET sockets'["wayland"], x : SUBSET sockets'["x"]]
      /\ seen' = sockets' /\ reliable' = listening'
      /\ UNCHANGED <<found, lowest, best, connection, changes>>
  BY DEF Begin, scanVars
<1>2. sockets' \in [Kinds -> SUBSET Nat] /\ \A k \in Kinds : sockets'[k] \subseteq Names[k]
  BY <1>1
<1>3. /\ listening' \in [Kinds -> SUBSET Nat]
      /\ \A k \in Kinds : listening'[k] \subseteq sockets'[k]
  BY <1>1, <1>2, KindsAre
<1>4. WorldTypes'
  BY <1>1, <1>2, <1>3 DEF WorldTypes, SessionInv
<1>5. ProgramTypes'
  BY <1>1 DEF ProgramTypes, SessionInv
<1> QED
  BY <1>1, <1>4, <1>5 DEF SessionInv, ScanTypes, WaylandScan, XScan, WaylandScans, XScans

\* What servers do leaves alone what the program has read.
LEMMA ServersFrame ==
  ASSUME SessionInv, WorldTypes', ScanTypes',
         UNCHANGED <<pc, env, asked_for, entries_read, found, lowest, best>>,
         connection' \in {connection, Unset}
  PROVE  SessionInv'
<1>1. ProgramTypes'
  BY DEF SessionInv, ProgramTypes
<1>2. WaylandScan' /\ XScan'
  BY DEF SessionInv, WaylandScan, XScan
<1> QED
  BY <1>1, <1>2 DEF SessionInv

LEMMA ServerStartsStep ==
  ASSUME SessionInv, NEW k \in Kinds, NEW n \in Names[k], ServerStarts(k, n)
  PROVE  SessionInv'
<1>1. /\ UNCHANGED <<pc, env, session, reliable, asked_for, entries_read, found, lowest,
                     best, connection>>
      /\ k = "wayland" => session.runtime_dir
      /\ changes < MaxChanges /\ changes' = changes + 1
      /\ sockets' = [sockets EXCEPT ![k] = @ \cup {n}]
      /\ listening' = [listening EXCEPT ![k] = @ \cup {n}]
      /\ seen' = [seen EXCEPT ![k] = @ \cup {n}]
      /\ stable' \subseteq stable
  BY DEF ServerStarts
<1>2. n \in Nat
  BY KindsAre
<1>3. WorldTypes'
  BY <1>1, <1>2 DEF SessionInv, WorldTypes
<1>4. ScanTypes'
  <2>1. KindOf(pc) \in Kinds
    BY KindsAre DEF KindOf
  <2>2. /\ sockets[KindOf(pc)] \subseteq sockets'[KindOf(pc)]
        /\ seen[KindOf(pc)] \subseteq seen'[KindOf(pc)]
    BY <1>1, <2>1 DEF SessionInv, WorldTypes
  <2>3. KindOf(pc)' = KindOf(pc)
    BY <1>1 DEF KindOf
  <2> QED
    BY <1>1, <2>2, <2>3 DEF SessionInv, ScanTypes
<1> QED
  BY <1>1, <1>3, <1>4, ServersFrame

LEMMA ServerEndsStep ==
  ASSUME SessionInv, NEW k \in Kinds, NEW n \in Names[k], ServerEnds(k, n)
  PROVE  SessionInv'
<1>1. /\ UNCHANGED <<pc, env, session, seen, asked_for, entries_read, found, lowest, best>>
      /\ changes < MaxChanges /\ changes' = changes + 1
      /\ listening' = [listening EXCEPT ![k] = @ \ {n}]
      /\ reliable' = [reliable EXCEPT ![k] = @ \ {n}]
      /\ connection' \in {connection, Unset}
  BY DEF ServerEnds
<1>2. \/ UNCHANGED <<sockets, stable>>
      \/ /\ sockets' = [sockets EXCEPT ![k] = @ \ {n}]
         /\ stable' = IF k = KindOf(pc) THEN stable \ {n} ELSE stable
  BY DEF ServerEnds
<1>3. n \in listening[k]
  BY DEF ServerEnds
<1>4. WorldTypes'
  <2>1. /\ sockets' \in [Kinds -> SUBSET Nat]
        /\ \A j \in Kinds : sockets'[j] \subseteq sockets[j]
        /\ \A j \in Kinds : \A m \in sockets[j] : m # n \/ j # k => m \in sockets'[j]
    BY <1>2 DEF SessionInv, WorldTypes
  <2>2. /\ listening' \in [Kinds -> SUBSET Nat] /\ reliable' \in [Kinds -> SUBSET Nat]
        /\ \A j \in Kinds : listening'[j] = listening[j] \ (IF j = k THEN {n} ELSE {})
        /\ \A j \in Kinds : reliable'[j] = reliable[j] \ (IF j = k THEN {n} ELSE {})
    BY <1>1 DEF SessionInv, WorldTypes
  <2>3. \A j \in Kinds : listening'[j] \subseteq sockets'[j] /\ reliable'[j] \subseteq listening'[j]
    BY <2>1, <2>2 DEF SessionInv, WorldTypes
  <2> QED
    BY <1>1, <2>1, <2>2, <2>3, KindsAre DEF SessionInv, WorldTypes
<1>5. ScanTypes'
  <2>1. KindOf(pc) \in Kinds /\ KindOf(pc)' = KindOf(pc)
    BY <1>1, KindsAre DEF KindOf
  <2>2. ASSUME stable \subseteq sockets[KindOf(pc)]
        PROVE  stable' \subseteq sockets'[KindOf(pc)]
    <3> DEFINE kind == KindOf(pc)
    <3>1. kind \in Kinds
      BY <2>1
    <3> HIDE DEF kind
    <3>2. CASE UNCHANGED <<sockets, stable>>
      BY <2>2, <3>2
    <3>3. CASE /\ sockets' = [sockets EXCEPT ![k] = @ \ {n}]
               /\ stable' = IF k = kind THEN stable \ {n} ELSE stable
      <4>1. sockets'[kind] = IF k = kind THEN sockets[kind] \ {n} ELSE sockets[kind]
        BY <3>1, <3>3 DEF SessionInv, WorldTypes
      <4> QED
        BY <2>2, <3>3, <4>1 DEF kind
    <3> QED
      BY <1>2, <3>2, <3>3 DEF kind
  <2> QED
    BY <1>1, <2>1, <2>2 DEF SessionInv, ScanTypes
<1> QED
  BY <1>1, <1>4, <1>5, ServersFrame

LEMMA ServersStep == SessionInv /\ Servers => SessionInv'
BY ServerStartsStep, ServerEndsStep DEF Servers

-----------------------------------------------------------------------------
(* Reading an entry. *)

\* What the conditions of the code decide, once something has been found.
LEMMA BetterIsPreferred ==
  ASSUME NEW b \in SocketNames, NEW n \in SocketNames, NEW l \in Int,
         l = IF suffix(b) >= 0 THEN suffix(b) ELSE INT_MAX
  PROVE  LET better == \/ suffix(n) >= 0 /\ (l = INT_MAX \/ suffix(n) < l)
                       \/ suffix(n) < 0 /\ l = INT_MAX /\ n < b
         IN  /\ better => Preferred(n, b)
             /\ ~better => Preferred(b, n)
<1>1. suffix(b) \in -1 .. INT_MAX - 1 /\ suffix(n) \in -1 .. INT_MAX - 1
  BY SuffixIsInt
<1>2. b \in Nat /\ n \in Nat
  OBVIOUS
<1> QED
  BY <1>1, <1>2, PreferredMeans

LEMMA ReadSocketStep ==
  ASSUME SessionInv, pc \in WaylandScans, NEW n \in SocketNames, ReadSocket(n),
         entries_read' = entries_read \cup {n}, pc' = pc
  PROVE  /\ found' = TRUE /\ lowest' \in 0 .. INT_MAX /\ best' \in Int
         /\ WaylandScan'
<1> DEFINE better == \/ suffix(n) >= 0 /\ (lowest = INT_MAX \/ suffix(n) < lowest)
                     \/ suffix(n) < 0 /\ lowest = INT_MAX /\ n < best
<1>1. entries_read \subseteq SocketNames /\ lowest \in 0 .. INT_MAX /\ best \in Int
      /\ found \in BOOLEAN /\ (found <=> entries_read # {})
  <2>1. KindOf(pc) = "wayland"
    BY DEF KindOf
  <2> QED
    BY <2>1, KindsAre DEF SessionInv, WorldTypes, ProgramTypes, ScanTypes
<1>2. /\ ~found \/ better =>
           found' = TRUE /\ best' = n
             /\ lowest' = IF suffix(n) >= 0 THEN suffix(n) ELSE INT_MAX
      /\ ~(~found \/ better) => UNCHANGED <<found, lowest, best>>
  <2>1. suffix(n) = current_socket_numeric_suffix_value(n)
    BY DEF suffix
  <2> QED
    BY <2>1 DEF ReadSocket
<1>3. suffix(n) \in -1 .. INT_MAX - 1
  BY SuffixIsInt
<1>4. CASE ~found
  <2>1. best' \in entries_read' /\ entries_read' = {n} /\ best' = n
    BY <1>1, <1>2, <1>4
  <2>2. Preferred(n, n)
    BY PreferredIsReflexive
  <2>3. \A m \in entries_read' : Preferred(n, m)
    BY <2>1, <2>2
  <2>4. WaylandScan'
    BY <1>2, <1>4, <2>1, <2>3 DEF WaylandScan, Preferred, suffix
  <2>5. /\ found' = TRUE /\ best' = n
        /\ lowest' = IF suffix(n) >= 0 THEN suffix(n) ELSE INT_MAX
    BY <1>2, <1>4
  <2>6. lowest' \in 0 .. INT_MAX /\ best' \in Int
    <3>1. INT_MAX \in Nat
      OBVIOUS
    <3>4. n \in Nat
      BY GuessingAssumption, Zenon
    <3>2. CASE suffix(n) >= 0
      BY <1>3, <2>5, <3>1, <3>2, <3>4
    <3>3. CASE ~(suffix(n) >= 0)
      BY <1>3, <2>5, <3>1, <3>3, <3>4
    <3> QED
      BY <3>2, <3>3
  <2> QED
    BY <2>4, <2>5, <2>6
<1>5. CASE found /\ better
  <2>1. /\ best \in SocketNames /\ lowest = IF suffix(best) >= 0 THEN suffix(best) ELSE INT_MAX
        /\ \A m \in entries_read : Preferred(best, m)
    BY <1>1, <1>5 DEF SessionInv, WaylandScan
  <2>2. Preferred(n, best)
    BY <1>1, <1>5, <2>1, BetterIsPreferred
  <2>3. \A m \in entries_read' : Preferred(n, m)
    BY <1>1, <2>1, <2>2, PreferredIsReflexive, PreferredIsTransitive
  <2>4. WaylandScan'
    BY <1>2, <1>5, <2>3 DEF WaylandScan, Preferred, suffix
  <2> QED
    BY <1>2, <1>3, <1>5, <2>4
<1>6. CASE found /\ ~better
  <2>1. /\ best \in SocketNames /\ lowest = IF suffix(best) >= 0 THEN suffix(best) ELSE INT_MAX
        /\ \A m \in entries_read : Preferred(best, m)
    BY <1>1, <1>6 DEF SessionInv, WaylandScan
  <2>2. Preferred(best, n)
    BY <1>1, <1>6, <2>1, BetterIsPreferred
  <2>3. \A m \in entries_read' : Preferred(best, m)
    BY <2>1, <2>2
  <2>4. WaylandScan'
    BY <1>2, <1>6, <2>1, <2>3 DEF SessionInv, WaylandScan, Preferred, suffix
  <2> QED
    BY <1>1, <1>2, <1>6, <2>4
<1> QED
  BY <1>1, <1>4, <1>5, <1>6

LEMMA ReadDisplayStep ==
  ASSUME SessionInv, pc \in XScans, NEW n \in XNumbers, ReadDisplay(n),
         entries_read' = entries_read \cup {n}, pc' = pc
  PROVE  /\ found' = TRUE /\ lowest' \in 0 .. INT_MAX /\ best' \in Int
         /\ XScan'
<1> DEFINE display_number(m) == ToInt(strtol(m))
<1>1. /\ entries_read \subseteq XNumbers /\ lowest \in 0 .. INT_MAX /\ best \in Int
      /\ found \in BOOLEAN /\ (found <=> entries_read # {})
  <2>1. KindOf(pc) = "x"
    BY DEF KindOf, WaylandScans, XScans
  <2> QED
    BY <2>1, KindsAre DEF SessionInv, WorldTypes, ProgramTypes, ScanTypes
<1>2. /\ IF ~found \/ display_number(n) < best
         THEN found' = TRUE /\ best' = display_number(n)
         ELSE UNCHANGED <<found, best>>
      /\ lowest' = lowest
  BY DEF ReadDisplay
<1>3. \A m \in XNumbers : display_number(m) \in Int
  BY strtolIsInt, ToIntIsInt
<1>4. found => /\ \E m \in entries_read : best = display_number(m)
               /\ \A m \in entries_read : best <= display_number(m)
  BY DEF SessionInv, XScan
<1> HIDE DEF display_number
<1>5. found' = TRUE /\ best' \in Int
  BY <1>1, <1>2, <1>3
<1>6. \E m \in entries_read' : best' = display_number(m)
  BY <1>1, <1>2, <1>4
<1>7. \A m \in entries_read' : best' <= display_number(m)
  <2> SUFFICES ASSUME NEW m \in entries_read' PROVE best' <= display_number(m)
    OBVIOUS
  <2>1. display_number(m) \in Int /\ display_number(n) \in Int
    BY <1>1, <1>3
  <2>2. CASE ~found
    <3>1. m = n
      BY <1>1, <2>2
    <3>2. best' = display_number(n)
      BY <1>2, <2>2
    <3> QED
      BY <2>1, <3>1, <3>2
  <2>3. CASE found
    <3>1. best <= display_number(m) \/ m = n
      BY <1>4, <2>3
    <3>2. CASE display_number(n) < best
      <4>1. best' = display_number(n)
        BY <1>2, <3>2
      <4> QED
        BY <1>1, <2>1, <3>1, <3>2, <4>1
    <3>3. CASE ~(display_number(n) < best)
      <4>1. best' = best
        BY <1>2, <2>3, <3>3
      <4> QED
        BY <1>1, <2>1, <3>1, <3>3, <4>1
    <3> QED
      BY <3>2, <3>3
  <2> QED
    BY <2>2, <2>3
<1>8. XScan'
  BY <1>6, <1>7 DEF XScan, display_number
<1> QED
  BY <1>1, <1>2, <1>5, <1>8

LEMMA ReadEntryStep == SessionInv /\ ReadEntry => SessionInv'
<1> SUFFICES ASSUME SessionInv, ReadEntry PROVE SessionInv'
  OBVIOUS
<1>1. PICK n \in sockets[KindOf(pc)] \ entries_read :
        /\ entries_read' = entries_read \cup {n}
        /\ IF pc \in WaylandScans THEN ReadSocket(n) ELSE ReadDisplay(n)
  BY DEF ReadEntry
<1>2. /\ pc \in WaylandScans \cup XScans
      /\ UNCHANGED <<pc, env, session, sockets, listening, changes, seen, reliable, asked_for,
                     stable, connection>>
  BY DEF ReadEntry, worldVars
<1>3. KindOf(pc) \in Kinds /\ n \in Names[KindOf(pc)] /\ n \in seen[KindOf(pc)]
  BY KindsAre DEF KindOf, SessionInv, WorldTypes
<1>4. found' = TRUE /\ lowest' \in 0 .. INT_MAX /\ best' \in Int /\ WaylandScan' /\ XScan'
  <2>1. CASE pc \in WaylandScans
    <3>1. n \in SocketNames
      BY <1>3, <2>1, KindsAre DEF KindOf
    <3>2. XScan'
      BY <1>2, <2>1 DEF XScan, WaylandScans, XScans
    <3> QED
      BY <1>1, <1>2, <2>1, <3>1, <3>2, ReadSocketStep
  <2>2. CASE pc \in XScans /\ pc \notin WaylandScans
    <3>1. n \in XNumbers
      BY <1>3, <2>2, KindsAre DEF KindOf
    <3>2. WaylandScan'
      BY <1>2, <2>2 DEF WaylandScan
    <3> QED
      BY <1>1, <1>2, <2>2, <3>1, <3>2, ReadDisplayStep
  <2> QED
    BY <1>2, <2>1, <2>2
<1>5. WorldTypes'
  BY <1>2 DEF SessionInv, WorldTypes
<1>6. ProgramTypes'
  BY <1>2, <1>4 DEF SessionInv, ProgramTypes
<1>7. ScanTypes'
  <2>1. KindOf(pc)' = KindOf(pc)
    BY <1>2 DEF KindOf
  <2> QED
    BY <1>1, <1>2, <1>3, <1>4, <2>1 DEF SessionInv, ScanTypes
<1> QED
  BY <1>4, <1>5, <1>6, <1>7 DEF SessionInv

-----------------------------------------------------------------------------
(* The program. *)

LEMMA OpenDirectoryStep ==
  ASSUME SessionInv, NEW label \in WaylandScans \cup XScans, OpenDirectory(label),
         UNCHANGED worldVars, env' \in Variables, connection' = connection
  PROVE  SessionInv'
<1>1. /\ pc' = label /\ stable' = sockets[KindOf(label)] /\ entries_read' = {}
      /\ found' = FALSE /\ lowest' = INT_MAX /\ best' = 0
      /\ UNCHANGED <<session, sockets, listening, changes, seen, reliable, asked_for>>
  BY DEF OpenDirectory, worldVars
<1>2. WorldTypes'
  BY <1>1 DEF SessionInv, WorldTypes
<1>3. 0 \in Int /\ INT_MAX \in 0 .. INT_MAX
  OBVIOUS
<1>4. ProgramTypes'
  BY <1>1, <1>3 DEF SessionInv, ProgramTypes
<1>5. ScanTypes'
  BY <1>1 DEF ScanTypes, KindOf
<1> QED
  BY <1>1, <1>2, <1>4, <1>5 DEF SessionInv, WaylandScan, XScan

LEMMA OtherStep ==
  ASSUME SessionInv, pc' \in {"connect", "registry", "x_open"} \cup Ended,
         UNCHANGED <<worldVars, found, lowest, best>>, env' \in Variables,
         connection' \in SocketNames \cup {Unset}
  PROVE  SessionInv'
<1>1. /\ UNCHANGED <<session, sockets, listening, changes, seen, reliable, asked_for>>
      /\ UNCHANGED <<found, lowest, best>>
  BY DEF worldVars
<1>2. WorldTypes'
  BY <1>1 DEF SessionInv, WorldTypes
<1>3. ProgramTypes'
  BY <1>1 DEF SessionInv, ProgramTypes
<1>4. pc' \notin WaylandScans \cup XScans
  BY DEF WaylandScans, XScans, Ended
<1> QED
  BY <1>2, <1>3, <1>4 DEF SessionInv, ScanTypes, WaylandScan, XScan

LEMMA UnchangedSession == SessionInv /\ UNCHANGED sessionVars => SessionInv'
<1> SUFFICES ASSUME SessionInv, UNCHANGED sessionVars PROVE SessionInv'
  OBVIOUS
<1>1. /\ UNCHANGED <<session, sockets, listening, changes, seen, reliable, asked_for>>
      /\ UNCHANGED <<pc, env, connection, stable, entries_read, found, lowest, best>>
  BY DEF sessionVars, worldVars, scanVars
<1>2. WorldTypes' /\ ProgramTypes'
  BY <1>1 DEF SessionInv, WorldTypes, ProgramTypes
<1>3. ScanTypes' /\ WaylandScan' /\ XScan'
  BY <1>1 DEF SessionInv, ScanTypes, WaylandScan, XScan, KindOf
<1> QED
  BY <1>2, <1>3 DEF SessionInv

LEMMA BestIsSocket ==
  SessionInv /\ pc \in WaylandScans /\ found => best \in SocketNames
<1> SUFFICES ASSUME SessionInv, pc \in WaylandScans, found PROVE best \in SocketNames
  OBVIOUS
<1>1. KindOf(pc) = "wayland"
  BY DEF KindOf
<1> QED
  BY <1>1, KindsAre DEF SessionInv, WorldTypes, ScanTypes, WaylandScan

\* An inferred variable is set only if it was missing, and no other is.
LEMMA GuessedRuntimeDir ==
  ASSUME env \in Variables, setenv("XDG_RUNTIME_DIR", "run_user")
  PROVE  /\ env' \in Variables
         /\ env' = [env EXCEPT !["XDG_RUNTIME_DIR"] = "run_user"] \/ env' = env
BY DEF setenv, Variables

LEMMA GuessedSocket ==
  ASSUME env \in Variables, best \in SocketNames, setenv("WAYLAND_DISPLAY", best)
  PROVE  /\ env' \in Variables
         /\ \A v \in {"XDG_RUNTIME_DIR", "DISPLAY", "XAUTHORITY"} : env'[v] = env[v]
         /\ env'["WAYLAND_DISPLAY"] =
              IF env["WAYLAND_DISPLAY"] = Unset THEN best ELSE env["WAYLAND_DISPLAY"]
BY DEF setenv, Variables

LEMMA GuessedDisplay ==
  ASSUME env \in Variables, best \in Int, GuessDisplay
  PROVE  /\ env' \in Variables
         /\ \A v \in {"XDG_RUNTIME_DIR", "WAYLAND_DISPLAY"} : env'[v] = env[v]
         /\ env'["DISPLAY"] = IF env["DISPLAY"] = Unset THEN best ELSE env["DISPLAY"]
         /\ env'["XAUTHORITY"] = IF env["XAUTHORITY"] = Unset /\ session.cookie = "home"
                                 THEN "home" ELSE env["XAUTHORITY"]
<1> DEFINE with_display == IF env["DISPLAY"] = Unset THEN [env EXCEPT !["DISPLAY"] = best] ELSE env
<1>1. /\ with_display \in Variables
      /\ \A v \in {"XDG_RUNTIME_DIR", "WAYLAND_DISPLAY", "XAUTHORITY"} : with_display[v] = env[v]
      /\ with_display["DISPLAY"] = IF env["DISPLAY"] = Unset THEN best ELSE env["DISPLAY"]
  BY DEF Variables
<1>2. env' = IF with_display["XAUTHORITY"] = Unset /\ session.cookie = "home"
             THEN [with_display EXCEPT !["XAUTHORITY"] = "home"] ELSE with_display
  BY DEF GuessDisplay
<1> HIDE DEF with_display
<1>3. env' \in Variables
  BY <1>1, <1>2 DEF Variables
<1> QED
  BY <1>1, <1>2, <1>3 DEF Variables

LEMMA InferRuntimeDirStep == SessionInv /\ InferRuntimeDir => SessionInv'
<1> SUFFICES ASSUME SessionInv, InferRuntimeDir PROVE SessionInv'
  OBVIOUS
<1>1. UNCHANGED worldVars /\ connection' = connection /\ env \in Variables
      /\ connection \in SocketNames \cup {Unset}
  BY DEF InferRuntimeDir, SessionInv, ProgramTypes
<1>2. CASE pc' = "connect" /\ UNCHANGED <<env, scanVars>>
  BY <1>1, <1>2, OtherStep DEF scanVars
<1>3. CASE ~(pc' = "connect" /\ UNCHANGED <<env, scanVars>>)
  <2>1. \/ OpenDirectory("infer_socket") \/ OpenDirectory("infer_display")
    BY <1>3 DEF InferRuntimeDir
  <2>2. env' \in Variables
    BY <1>1, <1>3, GuessedRuntimeDir DEF InferRuntimeDir
  <2> QED
    BY <1>1, <2>1, <2>2, OpenDirectoryStep DEF WaylandScans, XScans
<1> QED
  BY <1>2, <1>3

LEMMA InferWaylandDisplayStep == SessionInv /\ InferWaylandDisplay => SessionInv'
<1> SUFFICES ASSUME SessionInv, InferWaylandDisplay PROVE SessionInv'
  OBVIOUS
<1>1. /\ UNCHANGED worldVars /\ connection' = connection /\ env \in Variables
      /\ pc \in WaylandScans /\ OpenDirectory("infer_display")
  BY DEF InferWaylandDisplay, EndOfDirectory, SessionInv, ProgramTypes, WaylandScans
<1>2. env' \in Variables
  BY <1>1, BestIsSocket, GuessedSocket DEF InferWaylandDisplay
<1> QED
  BY <1>1, <1>2, OpenDirectoryStep DEF XScans

LEMMA InferDisplayStep == SessionInv /\ InferDisplay => SessionInv'
<1> SUFFICES ASSUME SessionInv, InferDisplay PROVE SessionInv'
  OBVIOUS
<1>1. /\ UNCHANGED <<worldVars, found, lowest, best>> /\ connection' = connection
      /\ pc' = "connect" /\ env \in Variables /\ best \in Int
      /\ connection \in SocketNames \cup {Unset}
  BY DEF InferDisplay, SessionInv, ProgramTypes, scanVars
<1>2. env' \in Variables
  BY <1>1, GuessedDisplay DEF InferDisplay
<1> QED
  BY <1>1, <1>2, OtherStep

LEMMA ConnectByEnvironmentStep == SessionInv /\ ConnectByEnvironment => SessionInv'
<1> SUFFICES ASSUME SessionInv, ConnectByEnvironment PROVE SessionInv'
  OBVIOUS
<1>1. /\ UNCHANGED worldVars /\ env' = env /\ env \in Variables
      /\ connection \in SocketNames \cup {Unset}
      /\ listening["wayland"] \subseteq SocketNames
  BY KindsAre DEF ConnectByEnvironment, SessionInv, ProgramTypes, WorldTypes
<1>2. \/ pc' = "registry" /\ connection' \in SocketNames /\ UNCHANGED scanVars
      \/ OpenDirectory("connect_socket") /\ connection' = connection
      \/ pc' = "x_open" /\ UNCHANGED <<scanVars, connection>>
  BY <1>1 DEF ConnectByEnvironment
<1> QED
  BY <1>1, <1>2, OtherStep, OpenDirectoryStep DEF scanVars, WaylandScans

LEMMA ConnectByGuessStep == SessionInv /\ ConnectByGuess => SessionInv'
<1> SUFFICES ASSUME SessionInv, ConnectByGuess PROVE SessionInv'
  OBVIOUS
<1>1. /\ UNCHANGED <<worldVars, found, lowest, best>> /\ env \in Variables
      /\ pc \in WaylandScans /\ connection \in SocketNames \cup {Unset}
  BY DEF ConnectByGuess, EndOfDirectory, SessionInv, ProgramTypes, WaylandScans, scanVars
<1>2. /\ pc' \in {"registry", "x_open"} /\ connection' \in SocketNames \cup {Unset}
      /\ env' \in Variables
  <2>1. CASE found /\ best \in listening["wayland"]
    <3>1. best \in SocketNames
      BY <1>1, <2>1, BestIsSocket
    <3>2. env' = [env EXCEPT
             !["XDG_RUNTIME_DIR"] = IF @ = Unset THEN "run_user" ELSE @,
             !["WAYLAND_DISPLAY"] = IF @ = Unset THEN best ELSE @]
          /\ pc' = "registry" /\ connection' = best
      BY <2>1 DEF ConnectByGuess
    <3> QED
      BY <1>1, <3>1, <3>2 DEF Variables
  <2>2. CASE ~(found /\ best \in listening["wayland"])
    BY <1>1, <2>2 DEF ConnectByGuess
  <2> QED
    BY <2>1, <2>2
<1> QED
  BY <1>1, <1>2, OtherStep

LEMMA RegistryStep == SessionInv /\ InitializeWaylandBackend => SessionInv'
<1> SUFFICES ASSUME SessionInv, InitializeWaylandBackend PROVE SessionInv'
  OBVIOUS
<1>1. /\ UNCHANGED <<worldVars, found, lowest, best, env>> /\ env \in Variables
      /\ pc' \in {"wayland", "x_open"} /\ connection' \in {connection, Unset}
      /\ connection \in SocketNames \cup {Unset}
  BY DEF InitializeWaylandBackend, SessionInv, ProgramTypes, scanVars
<1> QED
  BY <1>1, OtherStep DEF Ended

LEMMA OpenX11DisplayStep == SessionInv /\ OpenX11Display => SessionInv'
<1> SUFFICES ASSUME SessionInv, OpenX11Display PROVE SessionInv'
  OBVIOUS
<1>1. /\ UNCHANGED <<worldVars, env, connection>> /\ env \in Variables
      /\ connection \in SocketNames \cup {Unset}
  BY DEF OpenX11Display, SessionInv, ProgramTypes
<1>2. \/ pc' \in {"x11", "none"} /\ UNCHANGED scanVars
      \/ OpenDirectory("open_display")
  BY DEF OpenX11Display, XScreenSaverQueryExtension
<1> QED
  BY <1>1, <1>2, OtherStep, OpenDirectoryStep DEF scanVars, XScans, Ended

LEMMA OpenGuessedX11DisplayStep == SessionInv /\ OpenGuessedX11Display => SessionInv'
<1> SUFFICES ASSUME SessionInv, OpenGuessedX11Display PROVE SessionInv'
  OBVIOUS
<1>1. /\ UNCHANGED <<worldVars, found, lowest, best, connection>>
      /\ env \in Variables /\ best \in Int /\ connection \in SocketNames \cup {Unset}
      /\ pc' \in {"x11", "none"}
  BY DEF OpenGuessedX11Display, XScreenSaverQueryExtension, SessionInv, ProgramTypes, scanVars
<1>2. env' \in Variables
  BY <1>1, GuessedDisplay DEF OpenGuessedX11Display
<1> QED
  BY <1>1, <1>2, OtherStep DEF Ended

LEMMA FindSessionStep == SessionInv /\ FindSession => SessionInv'
BY ReadEntryStep, InferRuntimeDirStep, InferWaylandDisplayStep, InferDisplayStep,
   ConnectByEnvironmentStep, ConnectByGuessStep, RegistryStep, OpenX11DisplayStep,
   OpenGuessedX11DisplayStep DEF FindSession

LEMMA SessionInvariance == Spec => []SessionInv
<1>1. Init => SessionInv
  BY SessionBegins DEF Init
<1>2. SessionInv /\ [Next]_vars => SessionInv'
  BY UnchangedSession, FindSessionStep, BeginStep, ServersStep
     DEF Next, Program, World, StartCommand, vars
<1> QED
  BY <1>1, <1>2, PTL DEF Spec

-----------------------------------------------------------------------------
LEMMA CommandInvariance ==
  Spec => [](command \in {"none", "child", "external", "failed"})
<1> DEFINE CommandOK == command \in {"none", "child", "external", "failed"}
<1>1. Init => CommandOK
  BY DEF Init
<1>2. CommandOK /\ [Next]_vars => CommandOK'
  BY DEF Next, Program, World, StartCommand, vars
<1> QED
  BY <1>1, <1>2, PTL DEF Spec

\* Whatever is given, found and read: every variable has one of the values that
\* the code can give it, and sockets, servers and what is read of them agree.
THEOREM TypeCorrect == Spec => []TypeOK
<1>1. OptionsInv /\ SessionInv /\ command \in {"none", "child", "external", "failed"} => TypeOK
  BY DEF OptionsInv, SessionInv, WorldTypes, ProgramTypes, ScanTypes, TypeOK, SessionTypeOK
<1> QED
  BY <1>1, OptionsInvariance, SessionInvariance, CommandInvariance, PTL

\* In whatever order the entries come and whatever servers start and end: the
\* socket that is chosen is at least as good as each that was there throughout.
THEOREM BestGuess == Spec => []GuessIsBest
<1>1. SessionInv => GuessIsBest
  <2> SUFFICES ASSUME SessionInv PROVE GuessIsBest
    OBVIOUS
  <2>1. ASSUME NEW label \in WaylandScans, EndOfDirectory(label), stable # {}
        PROVE  found /\ best \in SocketNames /\ \A n \in stable : Preferred(best, n)
    <3>1. pc \in WaylandScans /\ stable \subseteq entries_read
      BY <2>1 DEF EndOfDirectory
    <3>2. found
      BY <2>1, <3>1 DEF SessionInv, ScanTypes
    <3> QED
      BY <3>1, <3>2, BestIsSocket DEF SessionInv, WaylandScan
  <2>2. ASSUME NEW label \in XScans, EndOfDirectory(label), stable # {}
        PROVE  found /\ \A n \in stable : n <= INT_MAX => best <= n
    <3>1. pc \in XScans /\ stable \subseteq entries_read
      BY <2>2 DEF EndOfDirectory
    <3>2. found /\ \A n \in entries_read : best <= ToInt(strtol(n))
      BY <2>2, <3>1 DEF SessionInv, ScanTypes, XScan
    <3>3. stable \subseteq Nat
      <4>1. KindOf(pc) = "x"
        BY <3>1 DEF KindOf, WaylandScans, XScans
      <4> QED
        BY <3>1, <4>1, KindsAre DEF SessionInv, ScanTypes, WorldTypes
    <3> QED
      BY <3>1, <3>2, <3>3, IntsAreKept
  <2> QED
    BY <2>1, <2>2 DEF GuessIsBest
<1> QED
  BY <1>1, SessionInvariance, PTL

-----------------------------------------------------------------------------
(* What the program was told to use. *)

Told(name) ==
  /\ asked_for["XDG_RUNTIME_DIR"] = "run_user" /\ asked_for["WAYLAND_DISPLAY"] = name
  /\ name \in reliable["wayland"]

\* The first attempt to connect succeeds; only the registry can end it, and then
\* there is no second one.
UsesTold(name) ==
  \/ /\ pc \in {"infer", "connect"}
     /\ env["XDG_RUNTIME_DIR"] = "run_user" /\ env["WAYLAND_DISPLAY"] = name
  \/ pc = "registry" /\ connection = name
  \/ pc = "wayland" /\ connection = name /\ Notifies(name)
  \/ pc \in {"x_open", "open_display", "x11", "none"} /\ connection = Unset /\ ~Notifies(name)

HonoursInv ==
  pc # "start" =>
    /\ asked_for["DISPLAY"] \notin {Unset, Empty} => env["DISPLAY"] = asked_for["DISPLAY"]
    /\ \A name \in SocketNames : Told(name) => UsesTold(name)

LEMMA HonoursBegins == Begin => HonoursInv'
<1> SUFFICES ASSUME Begin PROVE HonoursInv'
  OBVIOUS
<1>1. pc' = "infer" /\ asked_for' = env'
  BY DEF Begin
<1>2. asked_for'["DISPLAY"] \notin {Unset, Empty} => env'["DISPLAY"] = asked_for'["DISPLAY"]
  BY <1>1
<1>3. ASSUME NEW name \in SocketNames, Told(name)' PROVE UsesTold(name)'
  <2>1. asked_for'["XDG_RUNTIME_DIR"] = "run_user" /\ asked_for'["WAYLAND_DISPLAY"] = name
    BY <1>3 DEF Told
  <2>2. env'["XDG_RUNTIME_DIR"] = "run_user" /\ env'["WAYLAND_DISPLAY"] = name
    BY <1>1, <2>1
  <2> QED
    BY <1>1, <2>2 DEF UsesTold
<1> QED
  BY <1>2, <1>3 DEF HonoursInv

LEMMA HonoursServers ==
  ASSUME SessionInv, HonoursInv, Servers PROVE HonoursInv'
<1>0. PICK k \in Kinds : \E n \in Names[k] : ServerStarts(k, n) \/ ServerEnds(k, n)
  BY DEF Servers
<1>1. PICK n \in Names[k] : ServerStarts(k, n) \/ ServerEnds(k, n)
  BY <1>0
<1>2. UNCHANGED <<pc, env, asked_for>>
  BY <1>1 DEF ServerStarts, ServerEnds
<1>3. ASSUME NEW name \in SocketNames, Told(name)' PROVE Told(name) /\ UsesTold(name)'
  <2>1. /\ reliable'["wayland"] \subseteq reliable["wayland"]
        /\ connection = name => connection' = name
        /\ connection = Unset => connection' = Unset
    <3>1. CASE ServerStarts(k, n)
      BY <3>1 DEF ServerStarts
    <3>2. CASE ServerEnds(k, n)
      <4>1. /\ reliable' = [reliable EXCEPT ![k] = @ \ {n}]
            /\ connection' = IF k = "wayland" /\ connection = n THEN Unset ELSE connection
        BY <3>2 DEF ServerEnds
      <4>2. reliable'["wayland"] = IF k = "wayland" THEN reliable["wayland"] \ {n}
                                                     ELSE reliable["wayland"]
        BY <4>1, KindsAre DEF SessionInv, WorldTypes
      <4>3. name \in reliable'["wayland"]
        BY <1>3 DEF Told
      <4> QED
        BY <4>1, <4>2, <4>3
    <3> QED
      BY <1>1, <3>1, <3>2
  <2>2. Told(name)
    BY <1>2, <1>3, <2>1 DEF Told
  <2>3. pc # "start"
    BY <1>1 DEF ServerStarts, ServerEnds
  <2> QED
    BY <1>2, <2>1, <2>2, <2>3 DEF HonoursInv, UsesTold
<1> QED
  BY <1>2, <1>3 DEF HonoursInv

LEMMA HonoursFrame ==
  ASSUME HonoursInv, pc # "start", UNCHANGED worldVars,
         env["DISPLAY"] \notin {Unset, Empty} => env'["DISPLAY"] = env["DISPLAY"],
         \A name \in SocketNames : Told(name) /\ UsesTold(name) => UsesTold(name)'
  PROVE  HonoursInv'
<1>1. asked_for' = asked_for /\ reliable' = reliable
  BY DEF worldVars
<1>2. asked_for'["DISPLAY"] \notin {Unset, Empty} => env'["DISPLAY"] = asked_for'["DISPLAY"]
  BY <1>1 DEF HonoursInv
<1>3. ASSUME NEW name \in SocketNames, Told(name)' PROVE UsesTold(name)'
  <2>1. Told(name)
    BY <1>1, <1>3 DEF Told
  <2> QED
    BY <2>1 DEF HonoursInv
<1> QED
  BY <1>2, <1>3 DEF HonoursInv

\* Sockets are looked for only if there was nothing to use, and X servers only
\* after that or after what was to be used has been tried.
LEMMA HonoursScans ==
  ASSUME SessionInv, HonoursInv, pc \in WaylandScans \cup XScans \cup {"x_open"},
         \/ pc \in WaylandScans \cup {"infer_display"}
         \/ /\ pc' \in {"x_open", "open_display", "x11", "none"}
            /\ connection' = connection,
         UNCHANGED worldVars,
         env["DISPLAY"] \notin {Unset, Empty} => env'["DISPLAY"] = env["DISPLAY"]
  PROVE  HonoursInv'
<1>1. \A name \in SocketNames : UsesTold(name) => UsesTold(name)'
  BY DEF UsesTold, WaylandScans, XScans
<1>2. pc # "start"
  BY DEF WaylandScans, XScans
<1> QED
  BY <1>1, <1>2, HonoursFrame

LEMMA NamesNameSomething == \A n \in SocketNames : n \notin {Unset, Empty}
<1> SUFFICES ASSUME NEW n \in SocketNames PROVE n \notin {Unset, Empty}
  OBVIOUS
<1>1. n \in Int
  OBVIOUS
<1> QED
  BY <1>1

LEMMA HonoursInferRuntimeDir == SessionInv /\ HonoursInv /\ InferRuntimeDir => HonoursInv'
<1> SUFFICES ASSUME SessionInv, HonoursInv, InferRuntimeDir PROVE HonoursInv'
  OBVIOUS
<1>1. pc = "infer" /\ UNCHANGED worldVars /\ env \in Variables
  BY DEF InferRuntimeDir, SessionInv, ProgramTypes
<1>2. env'["DISPLAY"] = env["DISPLAY"]
  <2>1. \/ env' = env \/ env' = [env EXCEPT !["XDG_RUNTIME_DIR"] = "run_user"]
    BY <1>1, GuessedRuntimeDir DEF InferRuntimeDir
  <2> QED
    BY <1>1, <2>1 DEF Variables
<1>3. ASSUME NEW name \in SocketNames, UsesTold(name) PROVE UsesTold(name)'
  <2>1. env["XDG_RUNTIME_DIR"] = "run_user" /\ env["WAYLAND_DISPLAY"] = name
    BY <1>1, <1>3 DEF UsesTold
  <2>2. ~IsNullOrEmpty("WAYLAND_DISPLAY")
    BY <2>1, NamesNameSomething DEF IsNullOrEmpty
  <2>3. pc' = "connect" /\ env' = env
    BY <2>2 DEF InferRuntimeDir
  <2> QED
    BY <2>1, <2>3 DEF UsesTold
<1> QED
  BY <1>1, <1>2, <1>3, HonoursFrame

LEMMA HonoursConnect == SessionInv /\ HonoursInv /\ ConnectByEnvironment => HonoursInv'
<1> SUFFICES ASSUME SessionInv, HonoursInv, ConnectByEnvironment PROVE HonoursInv'
  OBVIOUS
<1>1. pc = "connect" /\ UNCHANGED worldVars /\ env' = env
  BY DEF ConnectByEnvironment
<1>2. ASSUME NEW name \in SocketNames, Told(name), UsesTold(name) PROVE UsesTold(name)'
  <2>1. env["XDG_RUNTIME_DIR"] = "run_user" /\ LibWaylandSocket = name
    BY <1>1, <1>2, NamesNameSomething DEF UsesTold, LibWaylandSocket
  <2>2. name \in listening["wayland"]
    BY <1>2, KindsAre DEF Told, SessionInv, WorldTypes
  <2>3. pc' = "registry" /\ connection' = name
    BY <1>2, <2>1, <2>2 DEF UsesTold, ConnectByEnvironment
  <2> QED
    BY <1>1, <1>2, <2>3 DEF UsesTold
<1> QED
  BY <1>1, <1>2, HonoursFrame

LEMMA HonoursRegistry == SessionInv /\ HonoursInv /\ InitializeWaylandBackend => HonoursInv'
<1> SUFFICES ASSUME SessionInv, HonoursInv, InitializeWaylandBackend PROVE HonoursInv'
  OBVIOUS
<1>1. pc = "registry" /\ UNCHANGED worldVars /\ env' = env
  BY DEF InitializeWaylandBackend
<1>2. ASSUME NEW name \in SocketNames, Told(name), UsesTold(name) PROVE UsesTold(name)'
  <2>1. connection = name /\ connection # Unset
    BY <1>1, <1>2, NamesNameSomething DEF UsesTold
  <2>2. IF Notifies(name) THEN pc' = "wayland" /\ connection' = name
                          ELSE pc' = "x_open" /\ connection' = Unset
    BY <2>1 DEF InitializeWaylandBackend, Notifies
  <2> QED
    BY <2>2 DEF UsesTold, Notifies
<1> QED
  BY <1>1, <1>2, HonoursFrame

LEMMA HonoursFindSession == SessionInv /\ HonoursInv /\ FindSession => HonoursInv'
<1> SUFFICES ASSUME SessionInv, HonoursInv, FindSession PROVE HonoursInv'
  OBVIOUS
<1>1. env \in Variables /\ best \in Int
  BY DEF SessionInv, ProgramTypes
<1>2. CASE ReadEntry \/ OpenX11Display
  <2>1. /\ pc \in WaylandScans \cup XScans \cup {"x_open"}
        /\ UNCHANGED worldVars /\ env' = env /\ connection' = connection
        /\ \/ pc' = pc
           \/ pc = "x_open" /\ pc' \in {"open_display", "x11", "none"}
    BY <1>2 DEF ReadEntry, OpenX11Display, OpenDirectory, XScreenSaverQueryExtension
  <2> QED
    BY <2>1, HonoursScans DEF XScans
<1>3. CASE InferWaylandDisplay
  <2>1. pc \in WaylandScans /\ UNCHANGED worldVars
    BY <1>3 DEF InferWaylandDisplay, EndOfDirectory, WaylandScans
  <2>2. env'["DISPLAY"] = env["DISPLAY"]
    BY <1>1, <1>3, <2>1, BestIsSocket, GuessedSocket DEF InferWaylandDisplay
  <2> QED
    BY <2>1, <2>2, HonoursScans
<1>4. CASE InferDisplay \/ OpenGuessedX11Display
  <2>1. /\ pc \in XScans /\ UNCHANGED worldVars
        /\ \/ pc = "infer_display"
           \/ pc' \in {"x11", "none"} /\ connection' = connection
    BY <1>4 DEF InferDisplay, OpenGuessedX11Display, EndOfDirectory, XScans,
       XScreenSaverQueryExtension
  <2>2. GuessDisplay \/ env' = env
    BY <1>4 DEF InferDisplay, OpenGuessedX11Display
  <2>3. env["DISPLAY"] \notin {Unset, Empty} => env'["DISPLAY"] = env["DISPLAY"]
    BY <1>1, <2>2, GuessedDisplay
  <2> QED
    BY <2>1, <2>3, HonoursScans
<1>5. CASE ConnectByGuess
  <2>1. pc \in WaylandScans /\ UNCHANGED worldVars
    BY <1>5 DEF ConnectByGuess, EndOfDirectory, WaylandScans
  <2>2. env'["DISPLAY"] = env["DISPLAY"]
    BY <1>1, <1>5 DEF ConnectByGuess, Variables
  <2> QED
    BY <2>1, <2>2, HonoursScans
<1> QED
  BY <1>2, <1>3, <1>4, <1>5, HonoursInferRuntimeDir, HonoursConnect, HonoursRegistry DEF FindSession

\* A compositor that the environment names and that is there throughout is used,
\* or no compositor is if it cannot tell when the user is idle; a DISPLAY that was
\* set stays.  Nothing is said of a compositor that is not there throughout.
THEOREM Honours == Spec => []HonoursEnvironment
<1>1. Init => HonoursInv
  BY DEF Init, SessionInit, HonoursInv
<1>2. SessionInv /\ HonoursInv /\ [Next]_vars => HonoursInv'
  <2> SUFFICES ASSUME SessionInv, HonoursInv, [Next]_vars PROVE HonoursInv'
    OBVIOUS
  <2>1. CASE UNCHANGED sessionVars
    <3>1. UNCHANGED <<pc, env, asked_for, reliable, connection>>
      BY <2>1 DEF sessionVars, worldVars
    <3>2. \A name \in SocketNames : (Told(name)' <=> Told(name)) /\ (UsesTold(name)' <=> UsesTold(name))
      BY <3>1 DEF Told, UsesTold
    <3> QED
      BY <3>1, <3>2 DEF HonoursInv
  <2> QED
    BY <2>1, HonoursBegins, HonoursServers, HonoursFindSession
       DEF Next, Program, World, StartCommand, vars
<1>3. SessionInv /\ HonoursInv => HonoursEnvironment
  <2> SUFFICES ASSUME SessionInv, HonoursInv, pc \in Ended PROVE HonoursEnvironment
    BY DEF HonoursEnvironment
  <2> DEFINE name == asked_for["WAYLAND_DISPLAY"]
  <2>1. pc # "start" /\ pc \notin {"infer", "connect", "registry"}
    BY DEF Ended
  <2>2. ASSUME asked_for["XDG_RUNTIME_DIR"] = "run_user", name \in reliable["wayland"]
        PROVE  connection = IF Notifies(name) THEN name ELSE Unset
    <3>1. name \in SocketNames
      BY <2>2, KindsAre DEF SessionInv, WorldTypes
    <3>2. Told(name)
      BY <2>2 DEF Told
    <3> QED
      BY <2>1, <3>1, <3>2 DEF HonoursInv, UsesTold
  <2> QED
    BY <2>1, <2>2 DEF HonoursInv, HonoursEnvironment, Notifies
<1> QED
  BY <1>1, <1>2, <1>3, SessionInvariance, PTL DEF Spec

-----------------------------------------------------------------------------
(* The way to the preferred compositor. *)

Wanted(n) ==
  /\ n \in reliable["wayland"] /\ Notifies(n)
  /\ \A m \in seen["wayland"] : Preferred(n, m)

NamesNothing(variable) == env[variable] \in {Unset, Empty}

OnTheWay(n) ==
  \/ pc = "infer" /\ NamesNothing("WAYLAND_DISPLAY") /\ NamesNothing("DISPLAY")
  \/ pc = "infer_socket" /\ NamesNothing("WAYLAND_DISPLAY") /\ n \in stable
  \/ /\ pc \in {"infer_display", "connect"}
     /\ env["WAYLAND_DISPLAY"] \in {Unset, Empty, n}
     /\ env["XDG_RUNTIME_DIR"] = "run_user" => env["WAYLAND_DISPLAY"] # Unset
  \/ pc = "connect_socket" /\ n \in stable
  \/ pc \in {"registry", "wayland"} /\ connection = n

WaylandWay ==
  AskedForNothing /\ pc # "start" => \A n \in SocketNames : Wanted(n) => OnTheWay(n)

\* The socket that is wanted is the one the guess finds.
LEMMA GuessIsWanted ==
  ASSUME SessionInv, NEW label \in WaylandScans, EndOfDirectory(label),
         NEW n \in stable, n \in SocketNames, Wanted(n)
  PROVE  found /\ best = n
<1>1. pc \in WaylandScans /\ n \in entries_read /\ KindOf(pc) = "wayland"
  BY DEF EndOfDirectory, KindOf
<1>2. found /\ best \in SocketNames /\ Preferred(best, n) /\ best \in seen["wayland"]
  BY <1>1, BestIsSocket DEF SessionInv, ScanTypes, WaylandScan
<1>3. Preferred(n, best)
  BY <1>2 DEF Wanted
<1> QED
  BY <1>2, <1>3, PreferredIsAntisymmetric

LEMMA WantedListens ==
  ASSUME SessionInv, NEW n \in SocketNames, Wanted(n)
  PROVE  n \in listening["wayland"] /\ n \in sockets["wayland"] /\ session.runtime_dir
BY KindsAre DEF Wanted, SessionInv, WorldTypes

LEMMA WaylandWayServers ==
  ASSUME SessionInv, WaylandWay, Servers PROVE WaylandWay'
<1>1. PICK k \in Kinds : \E n \in Names[k] : ServerStarts(k, n) \/ ServerEnds(k, n)
  BY DEF Servers
<1>2. PICK m \in Names[k] : ServerStarts(k, m) \/ ServerEnds(k, m)
  BY <1>1
<1>3. pc # "start" /\ UNCHANGED <<pc, env, asked_for>>
  BY <1>2 DEF ServerStarts, ServerEnds
<1>4. ASSUME NEW n \in SocketNames, Wanted(n)' PROVE Wanted(n) /\ (OnTheWay(n) => OnTheWay(n)')
  <2>1. /\ reliable'["wayland"] \subseteq reliable["wayland"]
        /\ seen["wayland"] \subseteq seen'["wayland"]
        /\ pc \in WaylandScans /\ n \in stable => n \in stable'
        /\ connection = n => connection' = n
    <3>1. CASE ServerStarts(k, m)
      <4>1. /\ UNCHANGED <<reliable, connection>>
            /\ seen' = [seen EXCEPT ![k] = @ \cup {m}]
            /\ stable' = IF k = KindOf(pc) THEN stable \ {m} ELSE stable
            /\ m \notin listening[k]
        BY <3>1 DEF ServerStarts
      <4>2. seen["wayland"] \subseteq seen'["wayland"]
        BY <4>1, KindsAre DEF SessionInv, WorldTypes
      <4>3. n \in listening["wayland"]
        BY <1>4, <4>1, KindsAre DEF Wanted, SessionInv, WorldTypes
      <4>4. pc \in WaylandScans => KindOf(pc) = "wayland"
        BY DEF KindOf
      <4> QED
        BY <4>1, <4>2, <4>3, <4>4
    <3>2. CASE ServerEnds(k, m)
      <4>1. /\ reliable' = [reliable EXCEPT ![k] = @ \ {m}]
            /\ connection' = IF k = "wayland" /\ connection = m THEN Unset ELSE connection
            /\ \/ stable' = stable
               \/ stable' = IF k = KindOf(pc) THEN stable \ {m} ELSE stable
            /\ seen' = seen
        BY <3>2 DEF ServerEnds
      <4>2. reliable'["wayland"] = IF k = "wayland" THEN reliable["wayland"] \ {m}
                                                     ELSE reliable["wayland"]
        BY <4>1, KindsAre DEF SessionInv, WorldTypes
      <4>3. n \in reliable'["wayland"]
        BY <1>4 DEF Wanted
      <4>4. pc \in WaylandScans => KindOf(pc) = "wayland"
        BY DEF KindOf
      <4> QED
        BY <4>1, <4>2, <4>3, <4>4
    <3> QED
      BY <1>2, <3>1, <3>2
  <2>2. Wanted(n)
    BY <1>4, <2>1 DEF Wanted
  <2>3. OnTheWay(n) => OnTheWay(n)'
    BY <1>3, <2>1 DEF OnTheWay, NamesNothing, WaylandScans
  <2> QED
    BY <2>2, <2>3
<1>5. AskedForNothing' <=> AskedForNothing
  BY <1>3 DEF AskedForNothing
<1> QED
  BY <1>3, <1>4, <1>5 DEF WaylandWay

LEMMA WaylandWayBegins == Begin => WaylandWay'
<1> SUFFICES ASSUME Begin, AskedForNothing' PROVE \A n \in SocketNames : OnTheWay(n)'
  BY DEF WaylandWay
<1>1. pc' = "infer" /\ asked_for' = env'
  BY DEF Begin
<1>2. env'["WAYLAND_DISPLAY"] \in {Unset, Empty} /\ env'["DISPLAY"] \in {Unset, Empty}
  BY <1>1 DEF AskedForNothing
<1> QED
  BY <1>1, <1>2 DEF OnTheWay, NamesNothing

LEMMA WaylandWayFrame ==
  ASSUME WaylandWay, pc # "start", UNCHANGED worldVars,
         \A n \in SocketNames : Wanted(n) /\ OnTheWay(n) => OnTheWay(n)'
  PROVE  WaylandWay'
<1>1. UNCHANGED <<asked_for, reliable, seen>>
  BY DEF worldVars
<1>2. \A n \in SocketNames : Wanted(n)' => Wanted(n)
  BY <1>1 DEF Wanted
<1>3. AskedForNothing' <=> AskedForNothing
  BY <1>1 DEF AskedForNothing
<1> QED
  BY <1>2, <1>3 DEF WaylandWay

LEMMA WaylandWayInferRuntimeDir ==
  ASSUME SessionInv, InferRuntimeDir, NEW n \in SocketNames, Wanted(n), OnTheWay(n)
  PROVE  OnTheWay(n)'
<1>1. pc = "infer" /\ NamesNothing("WAYLAND_DISPLAY") /\ NamesNothing("DISPLAY")
  BY DEF InferRuntimeDir, OnTheWay
<1>2. env \in Variables /\ session.runtime_dir /\ n \in sockets["wayland"]
  BY WantedListens DEF SessionInv, ProgramTypes
<1>3. /\ IF IsNullOrEmpty("XDG_RUNTIME_DIR") THEN setenv("XDG_RUNTIME_DIR", "run_user")
                                             ELSE UNCHANGED env
      /\ IF env'["XDG_RUNTIME_DIR"] = "run_user"
         THEN OpenDirectory("infer_socket") ELSE OpenDirectory("infer_display")
  BY <1>1, <1>2 DEF InferRuntimeDir, IsNullOrEmpty, NamesNothing
<1>4. env'["WAYLAND_DISPLAY"] = env["WAYLAND_DISPLAY"]
  BY <1>2, <1>3, GuessedRuntimeDir DEF Variables
<1>5. CASE env'["XDG_RUNTIME_DIR"] = "run_user"
  <2>1. pc' = "infer_socket" /\ stable' = sockets["wayland"]
    BY <1>3, <1>5 DEF OpenDirectory, KindOf, WaylandScans
  <2> QED
    BY <1>1, <1>2, <1>4, <2>1 DEF OnTheWay, NamesNothing
<1>6. CASE env'["XDG_RUNTIME_DIR"] # "run_user"
  <2>1. pc' = "infer_display"
    BY <1>3, <1>6 DEF OpenDirectory
  <2> QED
    BY <1>1, <1>4, <1>6, <2>1 DEF OnTheWay, NamesNothing
<1> QED
  BY <1>5, <1>6

LEMMA WaylandWayInferSocket ==
  ASSUME SessionInv, InferWaylandDisplay, NEW n \in SocketNames, Wanted(n), OnTheWay(n)
  PROVE  OnTheWay(n)'
<1>1. /\ pc = "infer_socket" /\ NamesNothing("WAYLAND_DISPLAY") /\ n \in stable
      /\ EndOfDirectory("infer_socket")
  BY DEF InferWaylandDisplay, EndOfDirectory, OnTheWay
<1>2. found /\ best = n
  BY <1>1, GuessIsWanted DEF WaylandScans
<1>3. pc' = "infer_display" /\ setenv("WAYLAND_DISPLAY", best) /\ env \in Variables
  BY <1>2 DEF InferWaylandDisplay, OpenDirectory, SessionInv, ProgramTypes
<1>4. env'["WAYLAND_DISPLAY"] =
        IF env["WAYLAND_DISPLAY"] = Unset THEN n ELSE env["WAYLAND_DISPLAY"]
  BY <1>2, <1>3, GuessedSocket
<1>5. n # Unset
  BY NamesNameSomething
<1>6. env'["WAYLAND_DISPLAY"] \in {Unset, Empty, n} /\ env'["WAYLAND_DISPLAY"] # Unset
  BY <1>1, <1>4, <1>5 DEF NamesNothing
<1> QED
  BY <1>3, <1>6 DEF OnTheWay

LEMMA WaylandWayInferDisplay ==
  ASSUME SessionInv, InferDisplay, NEW n \in SocketNames, OnTheWay(n)
  PROVE  OnTheWay(n)'
<1>1. pc = "infer_display" /\ pc' = "connect" /\ (GuessDisplay \/ env' = env)
  BY DEF InferDisplay, EndOfDirectory
<1>2. \A v \in {"XDG_RUNTIME_DIR", "WAYLAND_DISPLAY"} : env'[v] = env[v]
  BY <1>1, GuessedDisplay DEF SessionInv, ProgramTypes
<1> QED
  BY <1>1, <1>2 DEF OnTheWay

LEMMA WaylandWayConnect ==
  ASSUME SessionInv, ConnectByEnvironment, NEW n \in SocketNames, Wanted(n), OnTheWay(n)
  PROVE  OnTheWay(n)'
<1>1. /\ pc = "connect" /\ env["WAYLAND_DISPLAY"] \in {Unset, Empty, n}
      /\ env["XDG_RUNTIME_DIR"] = "run_user" => env["WAYLAND_DISPLAY"] # Unset
  BY DEF ConnectByEnvironment, OnTheWay
<1>2. /\ n \in listening["wayland"] /\ n \in sockets["wayland"] /\ session.runtime_dir
      /\ listening["wayland"] \subseteq Nat
  BY WantedListens, KindsAre DEF SessionInv, WorldTypes
<1>3. CASE env["XDG_RUNTIME_DIR"] = "run_user" /\ env["WAYLAND_DISPLAY"] = n
  <2>1. LibWaylandSocket = n
    BY <1>3, NamesNameSomething DEF LibWaylandSocket
  <2>2. pc' = "registry" /\ connection' = n
    BY <1>2, <1>3, <2>1 DEF ConnectByEnvironment
  <2> QED
    BY <2>2 DEF OnTheWay
<1>4. CASE ~(env["XDG_RUNTIME_DIR"] = "run_user" /\ env["WAYLAND_DISPLAY"] = n)
  <2>1. ~(env["XDG_RUNTIME_DIR"] = "run_user" /\ LibWaylandSocket \in listening["wayland"])
    <3> SUFFICES ASSUME env["XDG_RUNTIME_DIR"] = "run_user" 
                 PROVE  LibWaylandSocket \notin listening["wayland"]
      OBVIOUS
    <3>1. LibWaylandSocket = Empty
      BY <1>1, <1>4 DEF LibWaylandSocket
    <3> QED
      BY <1>2, <3>1
  <2>2. OpenDirectory("connect_socket")
    BY <1>2, <2>1 DEF ConnectByEnvironment
  <2>3. pc' = "connect_socket" /\ n \in stable'
    BY <1>2, <2>2 DEF OpenDirectory, KindOf, WaylandScans
  <2> QED
    BY <2>3 DEF OnTheWay
<1> QED
  BY <1>3, <1>4

LEMMA WaylandWayGuess ==
  ASSUME SessionInv, ConnectByGuess, NEW n \in SocketNames, Wanted(n), OnTheWay(n)
  PROVE  OnTheWay(n)'
<1>1. EndOfDirectory("connect_socket") /\ n \in stable
  BY DEF ConnectByGuess, EndOfDirectory, OnTheWay
<1>2. found /\ best = n /\ n \in listening["wayland"]
  BY <1>1, GuessIsWanted, WantedListens DEF WaylandScans
<1>3. pc' = "registry" /\ connection' = n
  BY <1>2 DEF ConnectByGuess
<1> QED
  BY <1>3 DEF OnTheWay

LEMMA WaylandWayRegistry ==
  ASSUME InitializeWaylandBackend, NEW n \in SocketNames, Wanted(n), OnTheWay(n)
  PROVE  OnTheWay(n)'
<1>1. pc = "registry" /\ connection = n /\ n # Unset /\ Notifies(n)
  BY NamesNameSomething DEF InitializeWaylandBackend, OnTheWay, Wanted
<1>2. pc' = "wayland" /\ connection' = n
  BY <1>1 DEF InitializeWaylandBackend, Notifies
<1> QED
  BY <1>2 DEF OnTheWay

LEMMA WaylandWayFindSession == SessionInv /\ WaylandWay /\ FindSession => WaylandWay'
<1> SUFFICES ASSUME SessionInv, WaylandWay, FindSession PROVE WaylandWay'
  OBVIOUS
<1>1. pc # "start" /\ UNCHANGED worldVars
  BY DEF FindSession, ReadEntry, InferRuntimeDir, InferWaylandDisplay, InferDisplay,
     ConnectByEnvironment, ConnectByGuess, InitializeWaylandBackend, OpenX11Display,
     OpenGuessedX11Display, EndOfDirectory, WaylandScans, XScans
<1>2. ASSUME NEW n \in SocketNames, Wanted(n), OnTheWay(n) PROVE OnTheWay(n)'
  <2>1. CASE ReadEntry
    <3>1. UNCHANGED <<pc, env, stable, connection>>
      BY <2>1 DEF ReadEntry
    <3> QED
      BY <1>2, <3>1 DEF OnTheWay, NamesNothing
  <2>2. CASE OpenX11Display \/ OpenGuessedX11Display
    <3>1. pc \in {"x_open", "open_display"}
      BY <2>2 DEF OpenX11Display, OpenGuessedX11Display, EndOfDirectory
    <3> QED
      BY <1>2, <3>1 DEF OnTheWay
  <2> QED
    BY <1>2, <2>1, <2>2, WaylandWayInferRuntimeDir, WaylandWayInferSocket, WaylandWayInferDisplay,
       WaylandWayConnect, WaylandWayGuess, WaylandWayRegistry DEF FindSession
<1> QED
  BY <1>1, <1>2, WaylandWayFrame

\* Without a variable that names a display, as when started by cron, the idle
\* notifications of the preferred compositor are used if it runs throughout.
THEOREM FindsCompositor == Spec => []WorksUnderWayland
<1>1. Init => WaylandWay
  BY DEF Init, SessionInit, WaylandWay
<1>2. SessionInv /\ WaylandWay /\ [Next]_vars => WaylandWay'
  <2> SUFFICES ASSUME SessionInv, WaylandWay, [Next]_vars PROVE WaylandWay'
    OBVIOUS
  <2>1. CASE UNCHANGED sessionVars
    <3>1. UNCHANGED worldVars /\ UNCHANGED <<pc, env, stable, connection>>
      BY <2>1 DEF sessionVars, scanVars
    <3>2. \A n \in SocketNames : OnTheWay(n) => OnTheWay(n)'
      BY <3>1 DEF OnTheWay, NamesNothing
    <3>3. pc = "start" => WaylandWay'
      BY <3>1 DEF WaylandWay
    <3> QED
      BY <3>1, <3>2, <3>3, WaylandWayFrame
  <2> QED
    BY <2>1, WaylandWayBegins, WaylandWayServers, WaylandWayFindSession
       DEF Next, Program, World, StartCommand, vars
<1>3. SessionInv /\ WaylandWay => WorksUnderWayland
  <2> SUFFICES ASSUME SessionInv, WaylandWay, pc \in Ended, AskedForNothing,
                      NEW n \in reliable["wayland"], Notifies(n),
                      \A m \in seen["wayland"] : Preferred(n, m)
               PROVE  pc = "wayland" /\ connection = n
    BY DEF WorksUnderWayland, Notifies
  <2>1. n \in SocketNames /\ Wanted(n)
    BY KindsAre DEF Wanted, SessionInv, WorldTypes
  <2> QED
    BY <2>1 DEF WaylandWay, OnTheWay, Ended
<1> QED
  BY <1>1, <1>2, <1>3, SessionInvariance, PTL DEF Spec

-----------------------------------------------------------------------------
(* The way to the X server with the lowest number. *)

Lowest(n) ==
  /\ n \in reliable["x"] /\ n \in WithScreenSaver
  /\ \A m \in seen["x"] : n <= m /\ m <= INT_MAX

LeftToGuess ==
  /\ asked_for["DISPLAY"] = Unset
  /\ asked_for["XAUTHORITY"] = (IF session.cookie = "given" THEN "given" ELSE Unset)

\* The display is named together with the cookie, or neither is.
NamesWithCookie(n) ==
  /\ env["DISPLAY"] \in {Unset, n}
  /\ session.cookie = "given" => env["XAUTHORITY"] = "given"
  /\ session.cookie = "home" =>
       env["XAUTHORITY"] = IF env["DISPLAY"] = Unset THEN Unset ELSE "home"

LeadsToX11(n) ==
  /\ NamesWithCookie(n)
  /\ pc \in XScans => n \in stable
  /\ pc = "open_display" => env["DISPLAY"] = Unset
  /\ pc = "x11" => env["DISPLAY"] = n
  /\ pc # "none"

X11Way == LeftToGuess /\ pc # "start" => \A n \in XNumbers : Lowest(n) => LeadsToX11(n)

LEMMA LowestListens ==
  ASSUME SessionInv, NEW n \in XNumbers, Lowest(n)
  PROVE  /\ n \in listening["x"] /\ n \in sockets["x"] /\ n \in WithScreenSaver
         /\ n # Unset /\ n # Empty /\ n \in Nat
<1>1. n \in listening["x"] /\ n \in sockets["x"] /\ n \in WithScreenSaver
  BY KindsAre DEF Lowest, SessionInv, WorldTypes
<1>2. n \in Nat
  OBVIOUS
<1>3. n \in Int
  BY <1>2
<1> QED
  BY <1>1, <1>2, <1>3

\* The lowest number is the one the guess finds, as it fits an int.
LEMMA GuessIsLowest ==
  ASSUME SessionInv, NEW label \in XScans, EndOfDirectory(label),
         NEW n \in XNumbers, n \in stable, Lowest(n)
  PROVE  found /\ best = n
<1>1. pc \in XScans /\ n \in entries_read /\ KindOf(pc) = "x"
  BY DEF EndOfDirectory, KindOf, WaylandScans, XScans
<1>2. /\ found /\ entries_read \subseteq seen["x"] /\ seen["x"] \subseteq Nat
      /\ \A m \in entries_read : best <= ToInt(strtol(m))
  BY <1>1, KindsAre DEF SessionInv, ScanTypes, XScan, WorldTypes
<1>3. PICK m \in entries_read : best = ToInt(strtol(m))
  BY <1>1, <1>2 DEF SessionInv, XScan
<1>4. m \in Nat /\ n \in Nat /\ n <= m /\ m <= INT_MAX /\ n <= INT_MAX
  BY <1>1, <1>2, <1>3 DEF Lowest
<1>5. ToInt(strtol(m)) = m /\ ToInt(strtol(n)) = n
  BY <1>4, IntsAreKept
<1>6. best = m
  BY <1>3, <1>5
<1>7. best <= n
  BY <1>1, <1>2, <1>5
<1> QED
  BY <1>2, <1>4, <1>6, <1>7

\* What ensure_xauthority_is_set_if_possible() adds.
LEMMA GuessNamesWithCookie ==
  ASSUME SessionInv, NEW n \in XNumbers, Lowest(n), NamesWithCookie(n), best = n, GuessDisplay,
         UNCHANGED worldVars
  PROVE  NamesWithCookie(n)' /\ env'["DISPLAY"] = n
<1>1. /\ env'["DISPLAY"] = IF env["DISPLAY"] = Unset THEN best ELSE env["DISPLAY"]
      /\ env'["XAUTHORITY"] = IF env["XAUTHORITY"] = Unset /\ session.cookie = "home"
                              THEN "home" ELSE env["XAUTHORITY"]
  BY GuessedDisplay DEF SessionInv, ProgramTypes
<1>2. session' = session /\ n # Unset
  BY LowestListens DEF worldVars
<1>3. env'["DISPLAY"] = n
  BY <1>1 DEF NamesWithCookie
<1>4. session.cookie = "given" => env'["XAUTHORITY"] = "given"
  BY <1>1, GuessingAssumption DEF NamesWithCookie
<1>5. session.cookie = "home" => env'["XAUTHORITY"] = "home"
  BY <1>1 DEF NamesWithCookie
<1> QED
  BY <1>2, <1>3, <1>4, <1>5 DEF NamesWithCookie

\* Then Xlib can connect.
LEMMA NamedOpens ==
  ASSUME SessionInv, NEW n \in XNumbers, Lowest(n), NEW variables,
         variables["DISPLAY"] = n,
         session.cookie = "given" => variables["XAUTHORITY"] = "given",
         session.cookie = "home" => variables["XAUTHORITY"] = "home"
  PROVE  XOpenDisplay(variables)
<1>1. session.cookie \in {"none", "given", "home"}
  BY DEF SessionInv, WorldTypes
<1> QED
  BY <1>1, LowestListens DEF XOpenDisplay

LEMMA X11WayFrame ==
  ASSUME X11Way, pc # "start", UNCHANGED worldVars,
         \A n \in XNumbers : Lowest(n) /\ LeadsToX11(n) => LeadsToX11(n)'
  PROVE  X11Way'
<1>1. UNCHANGED <<session, asked_for, reliable, seen>>
  BY DEF worldVars
<1>2. \A n \in XNumbers : Lowest(n)' => Lowest(n)
  BY <1>1 DEF Lowest
<1>3. LeftToGuess' <=> LeftToGuess
  BY <1>1 DEF LeftToGuess
<1> QED
  BY <1>2, <1>3 DEF X11Way

LEMMA X11WayBegins == Begin => X11Way'
<1> SUFFICES ASSUME Begin, LeftToGuess' PROVE \A n \in XNumbers : LeadsToX11(n)'
  BY DEF X11Way
<1>1. pc' = "infer" /\ asked_for' = env'
  BY DEF Begin
<1>2. /\ env'["DISPLAY"] = Unset
      /\ env'["XAUTHORITY"] = (IF session'.cookie = "given" THEN "given" ELSE Unset)
  BY <1>1 DEF LeftToGuess
<1> QED
  BY <1>1, <1>2 DEF LeadsToX11, NamesWithCookie, XScans

LEMMA X11WayServers ==
  ASSUME SessionInv, X11Way, Servers PROVE X11Way'
<1>1. PICK k \in Kinds : \E n \in Names[k] : ServerStarts(k, n) \/ ServerEnds(k, n)
  BY DEF Servers
<1>2. PICK m \in Names[k] : ServerStarts(k, m) \/ ServerEnds(k, m)
  BY <1>1
<1>3. pc # "start" /\ UNCHANGED <<pc, env, session, asked_for>>
  BY <1>2 DEF ServerStarts, ServerEnds
<1>4. ASSUME NEW n \in XNumbers, Lowest(n)' PROVE Lowest(n) /\ (LeadsToX11(n) => LeadsToX11(n)')
  <2>1. /\ reliable'["x"] \subseteq reliable["x"]
        /\ seen["x"] \subseteq seen'["x"]
        /\ pc \in XScans /\ n \in stable => n \in stable'
    <3>1. CASE ServerStarts(k, m)
      <4>1. /\ UNCHANGED reliable
            /\ seen' = [seen EXCEPT ![k] = @ \cup {m}]
            /\ stable' = IF k = KindOf(pc) THEN stable \ {m} ELSE stable
            /\ m \notin listening[k]
        BY <3>1 DEF ServerStarts
      <4>2. seen["x"] \subseteq seen'["x"]
        BY <4>1, KindsAre DEF SessionInv, WorldTypes
      <4>3. n \in listening["x"]
        BY <1>4, <4>1, KindsAre DEF Lowest, SessionInv, WorldTypes
      <4>4. pc \in XScans => KindOf(pc) = "x"
        BY DEF KindOf, WaylandScans, XScans
      <4> QED
        BY <4>1, <4>2, <4>3, <4>4
    <3>2. CASE ServerEnds(k, m)
      <4>1. /\ reliable' = [reliable EXCEPT ![k] = @ \ {m}]
            /\ \/ stable' = stable
               \/ stable' = IF k = KindOf(pc) THEN stable \ {m} ELSE stable
            /\ seen' = seen
        BY <3>2 DEF ServerEnds
      <4>2. reliable'["x"] = IF k = "x" THEN reliable["x"] \ {m} ELSE reliable["x"]
        BY <4>1, KindsAre DEF SessionInv, WorldTypes
      <4>3. n \in reliable'["x"]
        BY <1>4 DEF Lowest
      <4>4. pc \in XScans => KindOf(pc) = "x"
        BY DEF KindOf, WaylandScans, XScans
      <4> QED
        BY <4>1, <4>2, <4>3, <4>4
    <3> QED
      BY <1>2, <3>1, <3>2
  <2>2. Lowest(n)
    BY <1>4, <2>1 DEF Lowest
  <2>3. LeadsToX11(n) => LeadsToX11(n)'
    BY <1>3, <2>1 DEF LeadsToX11, NamesWithCookie
  <2> QED
    BY <2>2, <2>3
<1>5. LeftToGuess' <=> LeftToGuess
  BY <1>3 DEF LeftToGuess
<1> QED
  BY <1>3, <1>4, <1>5 DEF X11Way

\* Steps that do not touch DISPLAY and do not look for an X server.
LEMMA X11WayPasses ==
  ASSUME SessionInv, NEW n \in XNumbers, Lowest(n), LeadsToX11(n), UNCHANGED worldVars,
         env'["DISPLAY"] = env["DISPLAY"], env'["XAUTHORITY"] = env["XAUTHORITY"],
         \/ pc' \in {"connect", "registry", "wayland", "x_open"} \cup WaylandScans
         \/ OpenDirectory("infer_display")
  PROVE  LeadsToX11(n)'
<1>1. session' = session
  BY DEF worldVars
<1>2. NamesWithCookie(n)'
  BY <1>1 DEF LeadsToX11, NamesWithCookie
<1>3. CASE pc' \in {"connect", "registry", "wayland", "x_open"} \cup WaylandScans
  BY <1>2, <1>3 DEF LeadsToX11, WaylandScans, XScans
<1>4. CASE OpenDirectory("infer_display")
  <2>1. pc' = "infer_display" /\ n \in stable'
    BY <1>4, LowestListens DEF OpenDirectory, KindOf, WaylandScans
  <2> QED
    BY <1>2, <2>1 DEF LeadsToX11
<1> QED
  BY <1>3, <1>4

LEMMA X11WayOpens ==
  ASSUME SessionInv, OpenX11Display, NEW n \in XNumbers, Lowest(n), LeadsToX11(n)
  PROVE  LeadsToX11(n)'
<1>1. /\ env' = env /\ session' = session /\ NamesWithCookie(n)
      /\ n \in sockets["x"] /\ n \in listening["x"] /\ n \in WithScreenSaver /\ n # Unset
      /\ listening["x"] \subseteq Nat
  BY LowestListens, KindsAre DEF OpenX11Display, worldVars, LeadsToX11, SessionInv, WorldTypes
<1>2. NamesWithCookie(n)'
  BY <1>1 DEF NamesWithCookie
<1>3. CASE env["DISPLAY"] = n
  <2>1. XOpenDisplay(env)
    BY <1>1, <1>3, NamedOpens DEF NamesWithCookie
  <2>2. pc' = "x11"
    BY <1>1, <1>3, <2>1 DEF OpenX11Display, XScreenSaverQueryExtension
  <2> QED
    BY <1>1, <1>2, <1>3, <2>2 DEF LeadsToX11, XScans
<1>4. CASE env["DISPLAY"] = Unset
  <2>1. Unset \notin listening["x"]
    BY <1>1
  <2>2. ~XOpenDisplay(env)
    BY <1>4, <2>1 DEF XOpenDisplay
  <2>3. OpenDirectory("open_display")
    BY <1>4, <2>2 DEF OpenX11Display, IsNullOrEmpty
  <2>4. pc' = "open_display" /\ n \in stable'
    BY <1>1, <2>3 DEF OpenDirectory, KindOf, WaylandScans
  <2> QED
    BY <1>1, <1>2, <1>4, <2>4 DEF LeadsToX11
<1> QED
  BY <1>1, <1>3, <1>4 DEF NamesWithCookie

LEMMA X11WayGuesses ==
  ASSUME SessionInv, InferDisplay \/ OpenGuessedX11Display,
         NEW n \in XNumbers, Lowest(n), LeadsToX11(n)
  PROVE  LeadsToX11(n)'
<1>1. /\ UNCHANGED worldVars /\ NamesWithCookie(n) /\ n \in stable
      /\ EndOfDirectory("infer_display") \/ EndOfDirectory("open_display")
  BY DEF InferDisplay, OpenGuessedX11Display, EndOfDirectory, XScans, LeadsToX11
<1>2. found /\ best = n
  BY <1>1, GuessIsLowest DEF XScans
<1>3. GuessDisplay
  BY <1>2 DEF InferDisplay, OpenGuessedX11Display
<1>4. NamesWithCookie(n)' /\ env'["DISPLAY"] = n /\ n # Unset /\ n \in WithScreenSaver
  BY <1>1, <1>2, <1>3, GuessNamesWithCookie, LowestListens
<1>5. CASE InferDisplay
  <2>1. pc' = "connect"
    BY <1>5 DEF InferDisplay
  <2> QED
    BY <1>4, <2>1 DEF LeadsToX11, XScans
<1>6. CASE OpenGuessedX11Display
  <2>1. session' = session
    BY <1>1 DEF worldVars
  <2>2. /\ session.cookie = "given" => env'["XAUTHORITY"] = "given"
        /\ session.cookie = "home" => env'["XAUTHORITY"] = "home"
    BY <1>4, <2>1 DEF NamesWithCookie
  <2>3. XOpenDisplay(env')
    BY <1>4, <2>2, NamedOpens
  <2>4. pc' = "x11"
    BY <1>2, <1>4, <1>6, <2>3 DEF OpenGuessedX11Display, XScreenSaverQueryExtension
  <2> QED
    BY <1>4, <2>4 DEF LeadsToX11, XScans
<1> QED
  BY <1>5, <1>6

LEMMA X11WayFindSession == SessionInv /\ X11Way /\ FindSession => X11Way'
<1> SUFFICES ASSUME SessionInv, X11Way, FindSession PROVE X11Way'
  OBVIOUS
<1>1. pc # "start" /\ UNCHANGED worldVars
  BY DEF FindSession, ReadEntry, InferRuntimeDir, InferWaylandDisplay, InferDisplay,
     ConnectByEnvironment, ConnectByGuess, InitializeWaylandBackend, OpenX11Display,
     OpenGuessedX11Display, EndOfDirectory, WaylandScans, XScans
<1>2. env \in Variables
  BY DEF SessionInv, ProgramTypes
<1>3. ASSUME NEW n \in XNumbers, Lowest(n), LeadsToX11(n) PROVE LeadsToX11(n)'
  <2>1. CASE ReadEntry
    <3>1. UNCHANGED <<pc, env, session, stable>>
      BY <2>1 DEF ReadEntry, worldVars
    <3> QED
      BY <1>3, <3>1 DEF LeadsToX11, NamesWithCookie
  <2>2. CASE InferRuntimeDir
    <3>1. env'["DISPLAY"] = env["DISPLAY"] /\ env'["XAUTHORITY"] = env["XAUTHORITY"]
      <4>1. env' = env \/ env' = [env EXCEPT !["XDG_RUNTIME_DIR"] = "run_user"]
        BY <1>2, <2>2, GuessedRuntimeDir DEF InferRuntimeDir
      <4> QED
        BY <1>2, <4>1 DEF Variables
    <3>2. \/ pc' = "connect" \/ OpenDirectory("infer_socket") \/ OpenDirectory("infer_display")
      BY <2>2 DEF InferRuntimeDir
    <3>3. OpenDirectory("infer_socket") => pc' \in WaylandScans
      BY DEF OpenDirectory, WaylandScans
    <3> QED
      BY <1>1, <1>3, <3>1, <3>2, <3>3, X11WayPasses
  <2>3. CASE InferWaylandDisplay
    <3>1. pc \in WaylandScans /\ OpenDirectory("infer_display")
      BY <2>3 DEF InferWaylandDisplay, EndOfDirectory, WaylandScans
    <3>2. env'["DISPLAY"] = env["DISPLAY"] /\ env'["XAUTHORITY"] = env["XAUTHORITY"]
      BY <1>2, <2>3, <3>1, BestIsSocket, GuessedSocket DEF InferWaylandDisplay
    <3> QED
      BY <1>1, <1>3, <3>1, <3>2, X11WayPasses
  <2>4. CASE ConnectByEnvironment \/ InitializeWaylandBackend
    <3>1. env' = env /\ pc' \in {"registry", "wayland", "x_open"} \cup WaylandScans
      BY <2>4 DEF ConnectByEnvironment, InitializeWaylandBackend, OpenDirectory, WaylandScans
    <3> QED
      BY <1>1, <1>3, <3>1, X11WayPasses
  <2>5. CASE ConnectByGuess
    <3>1. /\ env'["DISPLAY"] = env["DISPLAY"] /\ env'["XAUTHORITY"] = env["XAUTHORITY"]
          /\ pc' \in {"registry", "x_open"}
      BY <1>2, <2>5 DEF ConnectByGuess, Variables
    <3> QED
      BY <1>1, <1>3, <3>1, X11WayPasses
  <2> QED
    BY <1>3, <2>1, <2>2, <2>3, <2>4, <2>5, X11WayOpens, X11WayGuesses DEF FindSession
<1> QED
  BY <1>1, <1>3, X11WayFrame

\* Without DISPLAY, and with the cookie in the home directory if one is needed:
\* unless a compositor is found first, the X server with the lowest number is
\* the one that is used, if it runs throughout.
THEOREM FindsXServer == Spec => []WorksUnderX11
<1>1. Init => X11Way
  BY DEF Init, SessionInit, X11Way
<1>2. SessionInv /\ X11Way /\ [Next]_vars => X11Way'
  <2> SUFFICES ASSUME SessionInv, X11Way, [Next]_vars PROVE X11Way'
    OBVIOUS
  <2>1. CASE UNCHANGED sessionVars
    <3>1. UNCHANGED worldVars /\ UNCHANGED <<pc, env, session, stable>>
      BY <2>1 DEF sessionVars, scanVars, worldVars
    <3>2. \A n \in XNumbers : LeadsToX11(n) => LeadsToX11(n)'
      BY <3>1 DEF LeadsToX11, NamesWithCookie
    <3>3. pc = "start" => X11Way'
      BY <3>1 DEF X11Way
    <3> QED
      BY <3>1, <3>2, <3>3, X11WayFrame
  <2> QED
    BY <2>1, X11WayBegins, X11WayServers, X11WayFindSession
       DEF Next, Program, World, StartCommand, vars
<1>3. SessionInv /\ X11Way => WorksUnderX11
  <2> SUFFICES ASSUME SessionInv, X11Way, pc \in Ended, LeftToGuess,
                      NEW n \in reliable["x"] \cap WithScreenSaver,
                      \A m \in seen["x"] : n <= m /\ m <= INT_MAX
               PROVE  pc = "wayland" \/ (pc = "x11" /\ env["DISPLAY"] = n)
    BY DEF WorksUnderX11, LeftToGuess
  <2>1. n \in XNumbers /\ Lowest(n)
    BY KindsAre DEF Lowest, SessionInv, WorldTypes
  <2> QED
    BY <2>1 DEF X11Way, LeadsToX11, Ended
<1> QED
  BY <1>1, <1>2, <1>3, SessionInvariance, PTL DEF Spec
=============================================================================
