------------------------ MODULE EnvironmentGuessing ------------------------
(***************************************************************************)
(* How runwhenidle finds the graphical session: the environment variables, *)
(* the sockets in XDG_RUNTIME_DIR and /tmp/.X11-unix that                  *)
(* environment_guessing.c looks through, and the connections that          *)
(* wayland.c and main() make.  Compositors and X servers start, end and    *)
(* crash meanwhile; a directory is read one entry at a time.               *)
(*                                                                         *)
(* A name "wayland-..." is its rank in strcmp order.  Number gives what    *)
(* its suffix says in digits, or -1 for any other suffix.  An X socket is  *)
(* the number in its name.                                                 *)
(***************************************************************************)
EXTENDS CTypes

CONSTANTS
  SocketNames,      \* of Wayland sockets
  Number,
  DefaultSocket,    \* "wayland-0", what libwayland tries by itself
  Interfaces,       \* the globals that the compositor of each socket announces
  XNumbers,
  WithScreenSaver,  \* the X servers that have the extension
  Unset, Empty,     \* values of environment variables that name nothing
  Environments,     \* what the program may be started with ...
  Directories,      \* ... and the socket files that may be there then
  MaxChanges        \* bounds how often servers start and end

Names == [wayland |-> SocketNames, x |-> XNumbers]
Kinds == DOMAIN Names

Variables ==
  [XDG_RUNTIME_DIR : {Unset, Empty, "run_user"},
   WAYLAND_DISPLAY : SocketNames \cup {Unset, Empty},
   DISPLAY : Int \cup {Unset, Empty},
   XAUTHORITY : {Unset, "given", "home"}]

ASSUME GuessingAssumption ==
  /\ SocketNames \subseteq Nat /\ DefaultSocket \in SocketNames
  /\ Number \in [SocketNames -> Nat \cup {-1}]
  \* Two names with the same number, or INT_MAX itself: the order decides.
  /\ \A n \in SocketNames : Number[n] # INT_MAX
  /\ \A m, n \in SocketNames : Number[m] = Number[n] /\ Number[m] # -1 => m = n
  /\ XNumbers \subseteq Nat /\ WithScreenSaver \subseteq XNumbers
  /\ DOMAIN Interfaces = SocketNames
  /\ Environments \subseteq Variables
  /\ \A d \in Directories :
       d \in [Kinds -> SUBSET Nat] /\ \A k \in Kinds : d[k] \subseteq Names[k]
  /\ Unset \notin Int \cup {Empty} /\ Empty \notin Int
  /\ MaxChanges \in Nat

VARIABLES
  pc,
  env,          \* the environment variables of runwhenidle
  session,      \* what holds of the login session throughout
  sockets,      \* the socket files in each directory
  listening,    \* those with a server behind them
  stable,       \* those that were there all the time since the directory was opened
  entries_read,
  found, lowest, best,
  connection,   \* the socket of the compositor the program is connected to
  changes,
  seen,         \* every socket file that ever was there,
  reliable,     \* ... and those that always had a server,
  asked_for     \* ... and the environment at the start, for the properties

worldVars == <<session, sockets, listening, changes, seen, reliable, asked_for>>
scanVars == <<stable, entries_read, found, lowest, best>>
sessionVars == <<pc, env, worldVars, scanVars, connection>>

WaylandScans == {"infer_socket", "connect_socket"}
XScans == {"infer_display", "open_display"}
Ended == {"wayland", "x11", "none"}
KindOf(label) == IF label \in WaylandScans THEN "wayland" ELSE "x"

IsNullOrEmpty(variable) == env[variable] \in {Unset, Empty}
setenv(variable, value) ==   \* with overwrite = 0
  env' = IF env[variable] = Unset THEN [env EXCEPT ![variable] = value] ELSE env

\* The world is chosen when the program begins to look at it.
SessionInit ==
  /\ pc = "start"
  /\ env = [v \in {"XDG_RUNTIME_DIR", "WAYLAND_DISPLAY", "DISPLAY", "XAUTHORITY"} |-> Unset]
  /\ session = [runtime_dir |-> FALSE, cookie |-> "none"]
  /\ sockets = [k \in Kinds |-> {}] /\ listening = sockets
  /\ seen = sockets /\ reliable = sockets
  /\ stable = {} /\ entries_read = {}
  /\ found = FALSE /\ lowest = INT_MAX /\ best = 0
  /\ connection = Unset
  /\ changes = 0
  /\ asked_for = env

Begin ==
  /\ pc = "start"
  /\ pc' = "infer"
  /\ env' \in Environments /\ asked_for' = env'
  /\ session' \in [runtime_dir : BOOLEAN, cookie : {"none", "given", "home"}]
  /\ sockets' \in Directories
  /\ session'.runtime_dir \/ sockets'["wayland"] = {}
  /\ listening' \in [wayland : SUBSET sockets'["wayland"], x : SUBSET sockets'["x"]]
  /\ seen' = sockets' /\ reliable' = listening'
  /\ UNCHANGED <<scanVars, connection, changes>>

-----------------------------------------------------------------------------
(* The servers. *)

ServerStarts(k, n) ==
  /\ pc \notin Ended \cup {"start"}
  /\ changes < MaxChanges
  /\ n \in Names[k] \ listening[k]
  /\ k = "wayland" => session.runtime_dir
  /\ sockets' = [sockets EXCEPT ![k] = @ \cup {n}]
  /\ listening' = [listening EXCEPT ![k] = @ \cup {n}]
  /\ seen' = [seen EXCEPT ![k] = @ \cup {n}]
  /\ stable' = IF k = KindOf(pc) THEN stable \ {n} ELSE stable  \* it makes the file anew
  /\ changes' = changes + 1
  /\ UNCHANGED <<pc, env, session, reliable, asked_for, entries_read, found, lowest, best,
                 connection>>

\* A server that crashes leaves its socket behind.
ServerEnds(k, n) ==
  /\ pc \notin Ended \cup {"start"}
  /\ changes < MaxChanges
  /\ n \in listening[k]
  /\ listening' = [listening EXCEPT ![k] = @ \ {n}]
  /\ reliable' = [reliable EXCEPT ![k] = @ \ {n}]
  /\ \/ UNCHANGED <<sockets, stable>>
     \/ /\ sockets' = [sockets EXCEPT ![k] = @ \ {n}]
        /\ stable' = IF k = KindOf(pc) THEN stable \ {n} ELSE stable
  /\ connection' = IF k = "wayland" /\ connection = n THEN Unset ELSE connection
  /\ changes' = changes + 1
  /\ UNCHANGED <<pc, env, session, seen, asked_for, entries_read, found, lowest, best>>

Servers == \E k \in Kinds : \E n \in Names[k] : ServerStarts(k, n) \/ ServerEnds(k, n)

-----------------------------------------------------------------------------
(* Reading a directory. *)

OpenDirectory(label) ==
  /\ pc' = label
  /\ stable' = sockets[KindOf(label)]
  /\ entries_read' = {}
  /\ found' = FALSE /\ lowest' = INT_MAX /\ best' = 0

\* The suffix of a name as an int, or -1.
current_socket_numeric_suffix_value(n) ==
  IF Number[n] \in 0 .. INT_MAX THEN Number[n] ELSE -1

\* Mutant: a name without a number that came first stays.
ReadSocketFirstStays(n) ==
  LET suffix == current_socket_numeric_suffix_value(n) IN
    IF ~found \/ (suffix >= 0 /\ suffix < lowest)
    THEN /\ found' = TRUE
         /\ lowest' = IF suffix >= 0 THEN suffix ELSE INT_MAX
         /\ best' = n
    ELSE UNCHANGED <<found, lowest, best>>

ReadSocket(n) ==
  LET suffix == current_socket_numeric_suffix_value(n)
      better == \/ ~found
                \/ suffix >= 0 /\ (lowest = INT_MAX \/ suffix < lowest)
                \/ suffix < 0 /\ lowest = INT_MAX /\ n < best
  IN IF better
     THEN /\ found' = TRUE
          /\ lowest' = IF suffix >= 0 THEN suffix ELSE INT_MAX
          /\ best' = n
     ELSE UNCHANGED <<found, lowest, best>>

\* "X<n>": long to int, without a look at errno.
ReadDisplay(n) ==
  LET display_number == ToInt(strtol(n)) IN
    /\ IF ~found \/ display_number < best
       THEN found' = TRUE /\ best' = display_number
       ELSE UNCHANGED <<found, best>>
    /\ UNCHANGED lowest

\* An entry that is added or removed meanwhile may be returned or not.
ReadEntry ==
  /\ pc \in WaylandScans \cup XScans
  /\ \E n \in sockets[KindOf(pc)] \ entries_read :
       /\ entries_read' = entries_read \cup {n}
       /\ IF pc \in WaylandScans THEN ReadSocket(n) ELSE ReadDisplay(n)
  /\ UNCHANGED <<pc, env, worldVars, stable, connection>>

EndOfDirectory(label) == pc = label /\ stable \subseteq entries_read

-----------------------------------------------------------------------------
(* best_effort_infer_graphical_session_environment_if_missing() *)

InferRuntimeDir ==
  /\ pc = "infer"
  /\ IF ~IsNullOrEmpty("WAYLAND_DISPLAY") \/ ~IsNullOrEmpty("DISPLAY")
     THEN pc' = "connect" /\ UNCHANGED <<env, scanVars>>
     ELSE /\ IF IsNullOrEmpty("XDG_RUNTIME_DIR") /\ session.runtime_dir
             THEN setenv("XDG_RUNTIME_DIR", "run_user") ELSE UNCHANGED env
          /\ IF env'["XDG_RUNTIME_DIR"] = "run_user"
             THEN OpenDirectory("infer_socket") ELSE OpenDirectory("infer_display")
  /\ UNCHANGED <<worldVars, connection>>

InferWaylandDisplay ==
  /\ EndOfDirectory("infer_socket")
  /\ IF found THEN setenv("WAYLAND_DISPLAY", best) ELSE UNCHANGED env
  /\ OpenDirectory("infer_display")
  /\ UNCHANGED <<worldVars, connection>>

\* Mutant: the cookie is not looked for.
GuessDisplayOnly == setenv("DISPLAY", best)

\* setenv("DISPLAY", ...) and ensure_xauthority_is_set_if_possible()
GuessDisplay ==
  LET with_display == IF env["DISPLAY"] = Unset THEN [env EXCEPT !["DISPLAY"] = best] ELSE env
  IN env' = IF with_display["XAUTHORITY"] = Unset /\ session.cookie = "home"
            THEN [with_display EXCEPT !["XAUTHORITY"] = "home"] ELSE with_display

InferDisplay ==
  /\ EndOfDirectory("infer_display")
  /\ IF found THEN GuessDisplay ELSE UNCHANGED env
  /\ pc' = "connect"
  /\ UNCHANGED <<worldVars, scanVars, connection>>

-----------------------------------------------------------------------------
(* connect_to_wayland_best_effort() and the registry *)

\* Mutant: the variable is not looked at.
AlwaysDefault == DefaultSocket

\* wl_display_connect(NULL)
LibWaylandSocket ==
  IF env["WAYLAND_DISPLAY"] = Unset THEN DefaultSocket ELSE env["WAYLAND_DISPLAY"]

\* Mutant: libwayland's own attempt is the only one.
ConnectByEnvironmentOnly ==
  /\ pc = "connect"
  /\ IF env["XDG_RUNTIME_DIR"] = "run_user" /\ LibWaylandSocket \in listening["wayland"]
     THEN pc' = "registry" /\ connection' = LibWaylandSocket
     ELSE pc' = "x_open" /\ UNCHANGED connection
  /\ UNCHANGED <<env, worldVars, scanVars>>

ConnectByEnvironment ==
  /\ pc = "connect"
  /\ IF env["XDG_RUNTIME_DIR"] = "run_user" /\ LibWaylandSocket \in listening["wayland"]
     THEN pc' = "registry" /\ connection' = LibWaylandSocket /\ UNCHANGED scanVars
     ELSE /\ IF env["XDG_RUNTIME_DIR"] = "run_user" \/ session.runtime_dir
             THEN OpenDirectory("connect_socket")
             ELSE pc' = "x_open" /\ UNCHANGED scanVars
          /\ UNCHANGED connection
  /\ UNCHANGED <<env, worldVars>>

ConnectByGuess ==
  /\ EndOfDirectory("connect_socket")
  /\ IF found /\ best \in listening["wayland"]
     THEN /\ pc' = "registry" /\ connection' = best
          /\ env' = [env EXCEPT
               !["XDG_RUNTIME_DIR"] = IF @ = Unset THEN "run_user" ELSE @,
               !["WAYLAND_DISPLAY"] = IF @ = Unset THEN best ELSE @]
     ELSE pc' = "x_open" /\ UNCHANGED <<connection, env>>
  /\ UNCHANGED <<worldVars, scanVars>>

\* One roundtrip announces the globals; a seat and a notifier are needed.
InitializeWaylandBackend ==
  /\ pc = "registry"
  /\ IF connection # Unset /\ {"wl_seat", "ext_idle_notifier_v1"} \subseteq Interfaces[connection]
     THEN pc' = "wayland" /\ UNCHANGED connection
     ELSE pc' = "x_open" /\ connection' = Unset
  /\ UNCHANGED <<env, worldVars, scanVars>>

-----------------------------------------------------------------------------
(* open_x11_display_best_effort() and main() *)

\* XOpenDisplay(NULL), with HOME unset: otherwise Xlib finds "home" by itself.
XOpenDisplay(variables) ==
  /\ variables["DISPLAY"] \in listening["x"]
  /\ session.cookie # "none" => variables["XAUTHORITY"] = session.cookie

XScreenSaverQueryExtension(variables) ==
  pc' = IF variables["DISPLAY"] \in WithScreenSaver THEN "x11" ELSE "none"

OpenX11Display ==
  /\ pc = "x_open"
  /\ IF XOpenDisplay(env)
     THEN XScreenSaverQueryExtension(env) /\ UNCHANGED scanVars
     ELSE IF IsNullOrEmpty("DISPLAY") THEN OpenDirectory("open_display")
                                      ELSE pc' = "none" /\ UNCHANGED scanVars
  /\ UNCHANGED <<env, worldVars, connection>>

OpenGuessedX11Display ==
  /\ EndOfDirectory("open_display")
  /\ IF found THEN GuessDisplay ELSE UNCHANGED env
  /\ IF found /\ XOpenDisplay(env') THEN XScreenSaverQueryExtension(env') ELSE pc' = "none"
  /\ UNCHANGED <<worldVars, scanVars, connection>>

FindSession ==
  \/ ReadEntry
  \/ InferRuntimeDir \/ InferWaylandDisplay \/ InferDisplay
  \/ ConnectByEnvironment \/ ConnectByGuess \/ InitializeWaylandBackend
  \/ OpenX11Display \/ OpenGuessedX11Display

-----------------------------------------------------------------------------
SessionTypeOK ==
  /\ pc \in {"start", "infer", "connect", "registry", "x_open"}
            \cup WaylandScans \cup XScans \cup Ended
  /\ env \in Variables /\ asked_for \in Variables
  /\ session \in [runtime_dir : BOOLEAN, cookie : {"none", "given", "home"}]
  /\ \A k \in Kinds : /\ listening[k] \subseteq sockets[k] /\ reliable[k] \subseteq listening[k]
                      /\ sockets[k] \subseteq seen[k] /\ seen[k] \subseteq Names[k]
  /\ pc \in WaylandScans \cup XScans => stable \subseteq sockets[KindOf(pc)]
  /\ found \in BOOLEAN /\ lowest \in 0 .. INT_MAX /\ best \in Int
  /\ connection \in SocketNames \cup {Unset}
  /\ changes \in 0 .. MaxChanges

\* Reference, without an order of reading: numbers before other names, the
\* lowest number first, other names as strcmp() sorts them.
Preferred(m, n) ==
  LET a == current_socket_numeric_suffix_value(m)
      b == current_socket_numeric_suffix_value(n)
  IN CASE a >= 0 /\ b >= 0 -> a <= b
       [] a < 0 /\ b < 0   -> m <= n
       [] OTHER            -> a >= 0

\* In whatever order the entries come, and whichever appear and disappear
\* meanwhile: when the directory has been read, none that was there all the
\* time is better than the one that was chosen.
GuessIsBest ==
  /\ \A label \in WaylandScans : EndOfDirectory(label) /\ stable # {} =>
       found /\ best \in SocketNames /\ \A n \in stable : Preferred(best, n)
  /\ \A label \in XScans : EndOfDirectory(label) /\ stable # {} =>
       found /\ \A n \in stable : n <= INT_MAX => best <= n

\* A compositor that the environment names, in the user's runtime directory, and
\* that is there throughout is used if it has what is needed; if it has not, no
\* other is used in its place.  (Another may be guessed if the one that was named
\* is not there.)  A guess never replaces a DISPLAY that was set.
HonoursEnvironment ==
  pc \in Ended =>
    /\ LET name == asked_for["WAYLAND_DISPLAY"] IN
         asked_for["XDG_RUNTIME_DIR"] = "run_user" /\ name \in reliable["wayland"] =>
           connection = IF {"wl_seat", "ext_idle_notifier_v1"} \subseteq Interfaces[name]
                        THEN name ELSE Unset
    /\ asked_for["DISPLAY"] \notin {Unset, Empty} => env["DISPLAY"] = asked_for["DISPLAY"]

AskedForNothing ==
  asked_for["WAYLAND_DISPLAY"] \in {Unset, Empty} /\ asked_for["DISPLAY"] \in {Unset, Empty}

\* README: it works "if ran from e.g. cron, both on Wayland and X11".  Without
\* variables the idle notifications of a compositor are used if its socket is
\* the preferred one and it runs throughout, whatever other servers do.
WorksUnderWayland ==
  pc \in Ended /\ AskedForNothing =>
    \A n \in reliable["wayland"] :
      /\ \A m \in seen["wayland"] : Preferred(n, m)
      /\ {"wl_seat", "ext_idle_notifier_v1"} \subseteq Interfaces[n]
      => pc = "wayland" /\ connection = n

\* ... and without such a compositor the X server with the lowest number,
\* with the cookie in the home directory.
WorksUnderX11 ==
  pc \in Ended /\ asked_for["DISPLAY"] = Unset
    /\ asked_for["XAUTHORITY"] = (IF session.cookie = "given" THEN "given" ELSE Unset) =>
    \A n \in reliable["x"] \cap WithScreenSaver :
      (\A m \in seen["x"] : n <= m /\ m <= INT_MAX) =>
        pc = "wayland" \/ (pc = "x11" /\ env["DISPLAY"] = n)
=============================================================================
