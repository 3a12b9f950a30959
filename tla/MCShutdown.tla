------------------------------ MODULE MCShutdown ------------------------------
(* An instance of Shutdown for TLC: four systems, a hook for each type with one *)
(* that is hidden, and two applications with overlapping inhibitions.           *)
EXTENDS Shutdown

Machine == [backend |-> "systemd", reply |-> "yes", polkit |-> TRUE, sleeps |-> {"SUSPEND"},
            greeter |-> TRUE, kiosk |-> TRUE, LockScreen |-> TRUE, PromptOnLogout |-> TRUE]

MCSystems == {Machine,
              [Machine EXCEPT !.LockScreen = FALSE, !.PromptOnLogout = FALSE, !.greeter = FALSE],
              [Machine EXCEPT !.kiosk = FALSE],
              [Machine EXCEPT !.backend = "consolekit", !.reply = "error"]}

Entry(t) == [Hidden |-> FALSE, RunHook |-> t, Override |-> FALSE, OnlyShowIn |-> {},
             NotShowIn |-> {}, atSpi |-> FALSE, application |-> TRUE, installed |-> TRUE]

MCHooks == {Entry("LOGOUT"), Entry("SHUTDOWN"), [Entry("RESTART") EXCEPT !.OnlyShowIn = {"XFCE"}],
            [Entry("SUSPEND") EXCEPT !.OnlyShowIn = {"GNOME"}, !.Override = TRUE],
            [Entry("SHUTDOWN") EXCEPT !.Hidden = TRUE]}

MCInhibitions == {[cookie |-> 1, flags |-> {"LOGOUT", "SUSPEND"}], [cookie |-> 2, flags |-> {"LOGOUT"}]}
=============================================================================
