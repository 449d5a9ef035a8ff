------------------------------ MODULE Startup ------------------------------
(***************************************************************************)
(* Start, restart and stop of the server, and the start of its child       *)
(* processes: src/web_server/apache_httpd/mod_mp.c, src/libmod_mp.c,       *)
(* src/util_shmem.c, and what src/error_messages.c, the index manager and  *)
(* the file indexer do then.                                               *)
(*                                                                         *)
(* Every virtual host has its error log in a shared segment, and all of    *)
(* them have the same file name for it.  Whoever creates the segment       *)
(* destroys what has the name; children attach to what has the name.       *)
(***************************************************************************)
EXTENDS Integers, Sequences

CONSTANTS
  NumServers, \* the main server, which is 1, and the virtual hosts
  Children,   \* places for child processes
  Faults,     \* a subset of {"create", "owner", "dbd", "xml"}
  Nothing,    \* no segment, NULL
  MaxStarts   \* bound: starts and restarts

Servers == 1 .. NumServers

ASSUME ServersAssumption == NumServers \in Nat \ {0}
ASSUME NothingAssumption == Nothing \notin Nat

VARIABLES
  conf,     \* whose mp_srv_cfg a server has: its own, or that of the main server
  cfg,      \* the mp_srv_cfgs, in the parent process
  pc,       \* what the parent does
  server,   \* s of mp_post_config
  userdata, \* the process pool has the userdata: modules were loaded before
  name,     \* the segment of the file /tmp/mp_errors; it may be gone
  live,     \* the segments to which one can attach
  mine,     \* the segments that the cleanup of pconf destroys
  reports,  \* for each segment so far, the configurations whose reports are in it
  child,    \* the child processes
  starts    \* starts and restarts so far

segments == <<name, live, mine, reports>>
vars == <<conf, cfg, pc, server, userdata, segments, child, starts>>

Segments == 1 .. Len(reports)
Pointers == Segments \cup {Nothing}

Config == [enable : BOOLEAN,         \* srv_conf->enable
           log : Pointers,           \* srv_conf->error_messages
           manager : BOOLEAN,        \* srv_conf->index_manager, with the file indexer
           indexer_log : Pointers,   \* error_messages of the file indexer
           reported : BOOLEAN]       \* the last time it was initialised made reports

\* What a child does: not there; mp_child_init at the log, or at the indexers, of a
\* server; serving.
Child == [pc : {"none", "log", "indexers", "serving"}, server : 1 .. NumServers + 1,
          cfg : [Servers -> Config], generation : Nat]

TypeOK ==
  /\ conf \in [Servers -> Servers]
  /\ cfg \in [Servers -> Config]
  /\ pc \in {"stopped", "config", "log", "rest", "running"}
  /\ server \in 1 .. NumServers + 1
  /\ userdata \in BOOLEAN
  /\ name \in Pointers
  /\ live \subseteq Segments /\ mine \subseteq Segments
  /\ reports \in Seq(SUBSET Servers)
  /\ child \in [Children -> Child]
  /\ starts \in Nat

\* Mutated: the memory is not zeroed.
Fresh_Unset(enable) ==
  [enable |-> enable, log |-> 0, manager |-> FALSE, indexer_log |-> 0, reported |-> FALSE]

\* mp_config_srv zeroes a configuration, mp_set_enable sets enable.
Fresh(enable) ==
  [enable |-> enable, log |-> Nothing, manager |-> FALSE, indexer_log |-> Nothing,
   reported |-> FALSE]

NoChild == [pc |-> "none", server |-> 1, cfg |-> [s \in Servers |-> Fresh(FALSE)],
            generation |-> 0]

\* A virtual host without directives of the module shares the main server's.
Init ==
  /\ conf \in [Servers -> Servers] /\ \A s \in Servers : conf[s] \in {1, s}
  /\ cfg = [s \in Servers |-> Fresh(FALSE)]
  /\ pc = "stopped" /\ server = 1 /\ userdata = FALSE
  /\ name = Nothing /\ live = {} /\ mine = {}
  /\ reports = << >>
  /\ child = [p \in Children |-> NoChild]
  /\ starts = 0

-----------------------------------------------------------------------------
(* The parent: Apache reads the configuration and calls mp_post_config *)

ReadConfig ==
  /\ starts < MaxStarts
  /\ starts' = starts + 1
  /\ \E enabled \in SUBSET Servers : cfg' = [s \in Servers |-> Fresh(s \in enabled)]
  /\ pc' = "config"
  /\ UNCHANGED <<conf, server>>

Start ==
  /\ pc = "stopped"
  /\ ReadConfig
  /\ userdata' = FALSE
  /\ UNCHANGED <<segments, child>>

\* The call after the first load of the modules only leaves a mark.
FirstPass ==
  /\ pc = "config" /\ ~userdata
  /\ userdata' = TRUE
  /\ UNCHANGED <<conf, cfg, pc, server, segments, child, starts>>

SecondPass ==
  /\ pc = "config" /\ userdata
  /\ pc' = "log" /\ server' = 1
  /\ UNCHANGED <<conf, cfg, userdata, segments, child, starts>>

\* The loop goes on with the next server, if there is one.
NextServer ==
  /\ server' = server + 1
  /\ pc' = IF server = NumServers THEN "running" ELSE "log"

srv_conf == cfg[conf[server]]

Skip ==
  /\ pc = "log" /\ ~srv_conf.enable
  /\ NextServer
  /\ UNCHANGED <<conf, cfg, userdata, segments, child, starts>>

\* Mutated: the file is removed and its segment is not.
Kill_File ==
  /\ pc = "log" /\ srv_conf.enable
  /\ name \in live
  /\ name' = Nothing
  /\ UNCHANGED <<conf, cfg, pc, server, userdata, live, mine, reports, child, starts>>

\* setup_shared_memory, when the file exists: "lets kill it with fire".
Kill ==
  /\ pc = "log" /\ srv_conf.enable
  /\ name \in live
  /\ live' = live \ {name} /\ name' = Nothing
  /\ UNCHANGED <<conf, cfg, pc, server, userdata, mine, reports, child, starts>>

\* Mutated: a failure does not turn the module off.
Disable_Not ==
  /\ UNCHANGED cfg
  /\ NextServer
  /\ UNCHANGED <<conf, userdata, child, starts>>

\* error_out of mod_mp_init, which mp_post_config does not notice.
Disable ==
  /\ cfg' = [cfg EXCEPT ![conf[server]].enable = FALSE]
  /\ NextServer
  /\ UNCHANGED <<conf, userdata, child, starts>>

\* The file is there without a segment: the attach fails and leaves the pointer that
\* is then destroyed uninitialised.  The process may die (Crash), or the file stays.
KillFails ==
  /\ pc = "log" /\ srv_conf.enable
  /\ name \notin live \cup {Nothing}
  /\ Disable /\ UNCHANGED segments

Created ==
  /\ reports' = Append(reports, {})
  /\ name' = Len(reports') /\ live' = live \cup {name'} /\ mine' = mine \cup {name'}

\* error_messages_init_shared with setup_shared_memory, which may fail before or
\* after the segment exists.
CreateFails ==
  /\ pc = "log" /\ srv_conf.enable /\ name = Nothing
  /\ \/ "create" \in Faults /\ UNCHANGED segments
     \/ "owner" \in Faults /\ Created
  /\ Disable

Create ==
  /\ pc = "log" /\ srv_conf.enable /\ name = Nothing
  /\ Created
  /\ cfg' = [cfg EXCEPT ![conf[server]] = [@ EXCEPT !.log = name', !.reported = FALSE]]
  /\ pc' = "rest"
  /\ UNCHANGED <<conf, server, userdata, child, starts>>

\* db_manager_init fails.
RestFails ==
  /\ pc = "rest" /\ "dbd" \in Faults
  /\ Disable
  /\ UNCHANGED segments

\* indexer_init of the file indexer, which has the log of its host and reports that
\* its configuration cannot be read.
InitIndexer(c, reported) == [c EXCEPT !.indexer_log = c.log, !.reported = reported]

\* index_manager_init and index_manager_add.
AddIndexer(c) == [c EXCEPT !.manager = TRUE]

\* db_manager_init, the index manager, and the file indexer, which is added whether
\* its configuration could be read or not.
Rest ==
  /\ pc = "rest"
  /\ \E reported \in BOOLEAN :
       /\ reported => "xml" \in Faults
       /\ cfg' = [cfg EXCEPT ![conf[server]] = AddIndexer(InitIndexer(@, reported))]
       /\ reports' = [reports EXCEPT ![srv_conf.log] =
                        @ \cup IF reported THEN {conf[server]} ELSE {}]
  /\ NextServer
  /\ UNCHANGED <<conf, userdata, name, live, mine, child, starts>>

\* The cleanups of pconf: the segments are destroyed, and the file of any of them,
\* which is the same for all.
ClearPool ==
  /\ live' = live \ mine
  /\ name' = IF mine = {} THEN name ELSE Nothing
  /\ mine' = {}
  /\ UNCHANGED <<reports>>

\* Graceful: the children go on.
Restart ==
  /\ pc = "running"
  /\ ReadConfig
  /\ ClearPool
  /\ UNCHANGED <<userdata, child>>

Stop ==
  /\ pc = "running"
  /\ pc' = "stopped"
  /\ ClearPool
  /\ child' = [p \in Children |-> NoChild]
  /\ UNCHANGED <<conf, cfg, server, userdata, starts>>

\* All processes die at once.
Crash ==
  /\ pc # "stopped"
  /\ pc' = "stopped"
  /\ mine' = {}
  /\ child' = [p \in Children |-> NoChild]
  /\ UNCHANGED <<conf, cfg, server, userdata, name, live, reports, starts>>

\* The machine is started again: files may survive that, segments do not.
Reboot ==
  /\ pc = "stopped"
  /\ live' = {} /\ name' \in {name, Nothing}
  /\ UNCHANGED <<conf, cfg, pc, server, userdata, mine, reports, child, starts>>

-----------------------------------------------------------------------------
(* Child processes *)

Fork(p) ==
  /\ pc = "running" /\ child[p].pc = "none"
  /\ child' = [child EXCEPT ![p] = [pc |-> "log", server |-> 1, cfg |-> cfg,
                                    generation |-> starts]]
  /\ UNCHANGED <<conf, cfg, pc, server, userdata, segments, starts>>

ChildDoes(p, c) ==
  /\ child' = [child EXCEPT ![p] = c]
  /\ UNCHANGED <<conf, cfg, pc, server, userdata, segments, starts>>

\* Mutated: the child keeps the log of the parent.
Attached_Not(log) == log

\* error_messages_on_fork of a log: what has the name now; if there is nothing, the
\* log inherited from the parent is kept.
Attached(log) == IF name \in live THEN name ELSE log

\* The loop of mp_child_init.
ChildNextServer(c) ==
  [c EXCEPT !.server = @ + 1, !.pc = IF c.server = NumServers THEN "serving" ELSE "log"]

ChildSkip(p) ==
  LET c == child[p] IN
  /\ c.pc = "log" /\ ~c.cfg[conf[c.server]].enable
  /\ ChildDoes(p, ChildNextServer(c))

ChildLog(p) ==
  LET c == child[p]
      s == conf[c.server] IN
  /\ c.pc = "log" /\ c.cfg[s].enable
  /\ ChildDoes(p, [c EXCEPT !.cfg[s].log = Attached(@), !.pc = "indexers"])

\* Mutated: nothing is done for the indexer.
OnFork_Not(c) == c

\* file_indexer_on_fork.
OnFork(c) == [c EXCEPT !.indexer_log = Attached(@)]

\* index_manager_on_fork, which calls it for each indexer.
ChildIndexers(p) ==
  LET c == child[p]
      s == conf[c.server] IN
  /\ c.pc = "indexers"
  /\ ChildDoes(p, ChildNextServer([c EXCEPT !.cfg[s] = OnFork(@)]))

\* A child ends, by itself or because a graceful restart lets it finish.
ChildEnds(p) == child[p].pc # "none" /\ ChildDoes(p, NoChild)

Parent ==
  \/ Start \/ FirstPass \/ SecondPass
  \/ Skip \/ Kill \/ KillFails \/ CreateFails \/ Create \/ RestFails \/ Rest
  \/ Restart \/ Stop \/ Crash \/ Reboot

Next ==
  \/ Parent
  \/ \E p \in Children :
       Fork(p) \/ ChildSkip(p) \/ ChildLog(p) \/ ChildIndexers(p) \/ ChildEnds(p)

Spec == Init /\ [][Next]_vars

-----------------------------------------------------------------------------
(* Properties *)

\* mp_handler of child p does not decline a request to server s: it goes on to use
\* the index manager, whatever it is.
Served(p, s) ==
  LET c == child[p].cfg[conf[s]] IN
  child[p].pc = "serving" /\ c.enable /\ c.log # Nothing

\* What mp_handler copies from the start-up into an answer of server s.
Shown(p, s) == reports[child[p].cfg[conf[s]].log]

\* A request is only served for a host all of whose parts were initialised,
\* whichever of them failed, for this server or another that shares its configuration.
ServedIsComplete ==
  \A p \in Children, s \in Servers : Served(p, s) => child[p].cfg[conf[s]].manager

Current(p) == pc = "running" /\ child[p].generation = starts

\* The children of the present generation have one log for a host, and its indexer
\* has the same: what one of them reports all of them show, whenever they were forked,
\* whichever host took the name over, and whether or not the name is still there.
OneLog ==
  \A p, q \in Children, s \in Servers :
    Current(p) /\ Current(q) /\ Served(p, s) /\ Served(q, s) =>
      LET one == child[p].cfg[conf[s]]
          other == child[q].cfg[conf[s]] IN
      other.log = one.log /\ other.indexer_log = one.log

\* Whatever crashes and restarts, every segment can be found by its name: none is
\* left that nobody will ever destroy.
NoSegmentLost == live \subseteq {name}

\* "Copy server initalition error messages" (mod_mp.c): an answer shows what was reported
\* when the host that has the name of the log was initialised, whichever host is asked;
\* and if nobody has the name, what was reported of its own host.
ShowsReports ==
  \A p \in Children, s \in Servers : Current(p) /\ Served(p, s) =>
    /\ name \in live => \A c \in Servers : cfg[c].log = name /\ cfg[c].reported => c \in Shown(p, s)
    /\ name \notin live /\ cfg[conf[s]].reported => conf[s] \in Shown(p, s)

=============================================================================
