----------------------------- MODULE MCStartup -----------------------------
(* An instance of Startup for TLC. *)
EXTENDS Startup

\* One number below, at, inside, at and beyond each end of each range.
MCOptions ==
  {[option |-> "t", number |-> n, junk |-> FALSE] : n \in {-200, 0, 1, 5, 12, 13, 200}}
    \cup {[option |-> "p", number |-> n, junk |-> FALSE] : n \in {-27, -16, 0, 1, 15, 16, 33, 200}}
    \cup {[option |-> "a", number |-> n, junk |-> FALSE] : n \in {-1, 0, 50, 120, 121, 127, 128}}
    \cup {[option |-> o, number |-> 5, junk |-> TRUE] : o \in NumericOptions}
    \cup {[option |-> "m", word |-> w] : w \in Words}
    \cup [option : Flags]
MCCommandLines == UNION {[1 .. n -> MCOptions] : n \in 0 .. 2}

\* Ranks of wayland-0, wayland-10, wayland-2, wayland-99 and wayland-x.
MCNumber == [n \in 0 .. 4 |-> <<0, 10, 2, 99, -1>>[n + 1]]
MCInterfaces ==
  [n \in 0 .. 4 |-> IF n = 0 THEN {"wl_seat"} ELSE {"wl_seat", "ext_idle_notifier_v1"}]

Session(xdg, wayland, display, xauthority) ==
  [XDG_RUNTIME_DIR |-> xdg, WAYLAND_DISPLAY |-> wayland, DISPLAY |-> display,
   XAUTHORITY |-> xauthority]
MCEnvironments ==
  {Session(Unset, Unset, Unset, Unset), Session(Empty, Empty, Unset, Unset),
   Session("run_user", Unset, Unset, Unset), Session("run_user", Unset, Empty, "given"),
   Session("run_user", 2, 0, Unset), Session("run_user", 0, Unset, "given"),
   Session(Unset, Unset, 1, "given")}
MCDirectories ==
  [wayland : {{}, {0}, {1, 2}, {2, 4}, {3, 4}}, x : {{}, {0, 1}, {1, 33}}]

\* Bound: the session is looked for with one command line only.
OneCommandLine == pc = "start" \/ given = <<>>
=============================================================================
