--------------------------- MODULE Startup_proofs ---------------------------
(* Proofs about Startup, for any number of servers, children and restarts. *)
EXTENDS Startup, TLAPS

-----------------------------------------------------------------------------
(* The inductive invariant *)

\* What is turned on has its log and its index manager.
Complete(c) == c.enable => c.log # Nothing /\ c.manager

\* The loop of mp_post_config leaves complete configurations behind it.
ParentComplete ==
  pc \in {"log", "rest", "running"} =>
    \A s \in Servers : s < server => Complete(cfg[conf[s]])

\* The loop is at a server, which has its log after the first step, or at its end.
AtServer ==
  /\ pc \in {"log", "rest"} => server \in Servers
  /\ pc = "rest" => srv_conf.log \in Segments
  /\ pc = "running" => server = NumServers + 1

ChildComplete(c) ==
  /\ c.pc \in {"log", "indexers"} => c.server \in Servers
  /\ \A s \in Servers : Complete(c.cfg[conf[s]])

ChildrenComplete == \A p \in Children : ChildComplete(child[p])

\* What lives is destroyed with pconf, or was there when the server started.
Owned == mine = {} \/ live \subseteq mine

StartupInv ==
  /\ TypeOK
  /\ ParentComplete /\ AtServer
  /\ ChildrenComplete
  /\ Owned /\ NoSegmentLost

-----------------------------------------------------------------------------
(* Types of the parts of a step *)

LEMMA FreshType ==
  ASSUME NEW enable \in BOOLEAN
  PROVE  Fresh(enable) \in Config
BY DEF Fresh, Config, Pointers

LEMMA NoChildType ==
  ASSUME conf \in [Servers -> Servers]
  PROVE  NoChild \in Child /\ ChildComplete(NoChild)
<1>1. 1 \in 1 .. NumServers + 1
  BY ServersAssumption
<1>2. [s \in Servers |-> Fresh(FALSE)] \in [Servers -> Config]
  BY FreshType
<1>3. NoChild \in Child
  BY <1>1, <1>2 DEF NoChild, Child
<1>4. ChildComplete(NoChild)
  BY DEF NoChild, ChildComplete, Fresh, Complete
<1> QED
  BY <1>3, <1>4

\* There are never fewer segments than before, so what points to one goes on to.
LEMMA ConfigGrows ==
  ASSUME Len(reports) \in Nat, Len(reports') \in Nat, Len(reports) <= Len(reports')
  PROVE  Config \subseteq Config' /\ Child \subseteq Child' /\ Segments \subseteq Segments'
<1>1. Segments \subseteq Segments' /\ Pointers \subseteq Pointers'
  BY DEF Segments, Pointers
<1>2. Config \subseteq Config'
  BY <1>1 DEF Config
<1>3. Child \subseteq Child'
  BY <1>2 DEF Child
<1> QED
  BY <1>1, <1>2, <1>3

LEMMA NextServerStep ==
  ASSUME server \in Servers, NextServer
  PROVE  /\ server' \in 1 .. NumServers + 1
         /\ pc' \in {"running", "log"}
         /\ pc' = "log" => server' \in Servers
         /\ pc' = "running" => server' = NumServers + 1
BY ServersAssumption DEF NextServer, Servers

\* A new segment is the next number, and the only one that lives.
LEMMA CreatedStep ==
  ASSUME StartupInv, name = Nothing, Created
  PROVE  /\ reports' \in Seq(SUBSET Servers) /\ Len(reports') = Len(reports) + 1
         /\ name' \in Segments' /\ live' = {name'}
         /\ live' \subseteq Segments' /\ mine' \subseteq Segments' /\ live' \subseteq mine'
<1>1. /\ reports \in Seq(SUBSET Servers) /\ live \subseteq Segments
      /\ mine \subseteq Segments /\ live \subseteq {name}
  BY DEF StartupInv, TypeOK, NoSegmentLost
<1>2. Len(reports) \in Nat
  BY <1>1
<1>3. /\ reports' \in Seq(SUBSET Servers) /\ Len(reports') = Len(reports) + 1
      /\ name' = Len(reports')
  BY <1>1, <1>2 DEF Created
<1>4. live = {}
  BY <1>1, <1>2, NothingAssumption DEF Segments
<1>5. live' = {name'} /\ mine' = mine \cup {name'}
  BY <1>4 DEF Created
<1>6. Segments' = Segments \cup {name'}
  BY <1>2, <1>3 DEF Segments
<1> QED
  BY <1>1, <1>3, <1>5, <1>6

-----------------------------------------------------------------------------
(* The parent *)

LEMMA StartupInit == Init => StartupInv
<1> SUFFICES ASSUME Init PROVE StartupInv
  OBVIOUS
<1>1. cfg \in [Servers -> Config]
  BY FreshType DEF Init
<1>2. child \in [Children -> Child] /\ ChildrenComplete
  BY NoChildType DEF Init, ChildrenComplete, ChildComplete
<1>3. server \in 1 .. NumServers + 1
  BY ServersAssumption DEF Init
<1>4. reports \in Seq(SUBSET Servers) /\ name \in Pointers
  BY DEF Init, Pointers
<1>5. live = {} /\ mine = {} /\ starts = 0 /\ pc = "stopped" /\ userdata = FALSE
  BY DEF Init
<1>6. conf \in [Servers -> Servers]
  BY DEF Init
<1>7. TypeOK
  BY <1>1, <1>2, <1>3, <1>4, <1>5, <1>6 DEF TypeOK
<1> QED
  BY <1>1, <1>2, <1>5, <1>7
     DEF StartupInv, ParentComplete, AtServer, Owned, NoSegmentLost

\* Reading the configuration makes all configurations new.
LEMMA ReadConfigStep ==
  ASSUME StartupInv, ReadConfig
  PROVE  cfg' \in [Servers -> Config] /\ starts' \in Nat
<1>1. PICK enabled \in SUBSET Servers : cfg' = [s \in Servers |-> Fresh(s \in enabled)]
  BY DEF ReadConfig
<1>2. ASSUME NEW s \in Servers
      PROVE  Fresh(s \in enabled) \in Config
  <2>1. (s \in enabled) \in BOOLEAN
    OBVIOUS
  <2> QED
    BY <2>1, FreshType
<1> QED
  BY <1>1, <1>2 DEF ReadConfig, StartupInv, TypeOK

LEMMA ClearPoolStep ==
  ASSUME StartupInv, ClearPool
  PROVE  /\ name' \in Pointers' /\ live' \subseteq Segments' /\ mine' = {}
         /\ live' \subseteq {name'}
         /\ reports' = reports /\ Segments' = Segments /\ Config' = Config /\ Child' = Child
<1>1. reports' = reports
  BY DEF ClearPool
<1>2. Segments' = Segments /\ Pointers' = Pointers
  BY <1>1 DEF Segments, Pointers
<1>3. Config' = Config
  BY <1>2 DEF Config
<1>4. Child' = Child
  BY <1>3 DEF Child
<1> QED
  BY <1>1, <1>2, <1>3, <1>4
     DEF ClearPool, StartupInv, TypeOK, Owned, NoSegmentLost, Pointers

LEMMA StartStep == ASSUME StartupInv, Start PROVE StartupInv'
<1>1. cfg' \in [Servers -> Config] /\ starts' \in Nat
  BY ReadConfigStep DEF Start
<1>2. Segments' = Segments /\ Pointers' = Pointers /\ Config' = Config /\ Child' = Child
  BY DEF Start, segments, Segments, Pointers, Config, Child
<1>3. TypeOK'
  BY <1>1, <1>2 DEF Start, ReadConfig, segments, StartupInv, TypeOK
<1>4. ParentComplete' /\ AtServer'
  BY <1>1 DEF Start, ReadConfig, ParentComplete, AtServer
<1> QED
  BY <1>3, <1>4 DEF Start, ReadConfig, segments, StartupInv, ChildrenComplete, ChildComplete,
                    Owned, NoSegmentLost

LEMMA RestartStep == ASSUME StartupInv, Restart PROVE StartupInv'
<1>1. cfg' \in [Servers -> Config] /\ starts' \in Nat
  BY ReadConfigStep DEF Restart
<1>2. /\ name' \in Pointers' /\ live' \subseteq Segments' /\ mine' = {}
      /\ live' \subseteq {name'}
      /\ reports' = reports /\ Segments' = Segments /\ Config' = Config /\ Child' = Child
  BY ClearPoolStep DEF Restart
<1>3. TypeOK'
  BY <1>1, <1>2 DEF Restart, ReadConfig, StartupInv, TypeOK
<1>4. ParentComplete' /\ AtServer'
  BY <1>1 DEF Restart, ReadConfig, ParentComplete, AtServer
<1>5. Owned' /\ NoSegmentLost'
  BY <1>2 DEF Owned, NoSegmentLost
<1> QED
  BY <1>3, <1>4, <1>5 DEF Restart, ReadConfig, StartupInv, ChildrenComplete, ChildComplete

LEMMA StopStep == ASSUME StartupInv, Stop PROVE StartupInv'
<1>1. /\ name' \in Pointers' /\ live' \subseteq Segments' /\ mine' = {}
      /\ live' \subseteq {name'}
      /\ reports' = reports /\ Segments' = Segments /\ Config' = Config /\ Child' = Child
  BY ClearPoolStep DEF Stop
<1>2. child' \in [Children -> Child] /\ ChildrenComplete'
  BY NoChildType DEF Stop, StartupInv, TypeOK, ChildrenComplete, ChildComplete
<1>3. TypeOK'
  BY <1>1, <1>2 DEF Stop, StartupInv, TypeOK
<1>4. ParentComplete' /\ AtServer'
  BY DEF Stop, ParentComplete, AtServer
<1>5. Owned' /\ NoSegmentLost'
  BY <1>1 DEF Owned, NoSegmentLost
<1> QED
  BY <1>2, <1>3, <1>4, <1>5 DEF StartupInv

LEMMA CrashStep == ASSUME StartupInv, Crash PROVE StartupInv'
<1>1. Segments' = Segments /\ Pointers' = Pointers /\ Config' = Config /\ Child' = Child
  BY DEF Crash, Segments, Pointers, Config, Child
<1>2. child' \in [Children -> Child] /\ ChildrenComplete'
  BY NoChildType DEF Crash, StartupInv, TypeOK, ChildrenComplete, ChildComplete
<1>3. TypeOK'
  BY <1>1, <1>2 DEF Crash, StartupInv, TypeOK
<1>4. ParentComplete' /\ AtServer' /\ Owned' /\ NoSegmentLost'
  BY DEF Crash, StartupInv, ParentComplete, AtServer, Owned, NoSegmentLost
<1> QED
  BY <1>2, <1>3, <1>4 DEF StartupInv

LEMMA RebootStep == ASSUME StartupInv, Reboot PROVE StartupInv'
<1>1. Segments' = Segments /\ Pointers' = Pointers /\ Config' = Config /\ Child' = Child
  BY DEF Reboot, Segments, Pointers, Config, Child
<1>2. TypeOK'
  BY <1>1 DEF Reboot, StartupInv, TypeOK, Pointers
<1>3. ParentComplete' /\ AtServer' /\ ChildrenComplete' /\ Owned' /\ NoSegmentLost'
  BY DEF Reboot, StartupInv, ParentComplete, AtServer, ChildrenComplete, ChildComplete, Owned,
         NoSegmentLost
<1> QED
  BY <1>2, <1>3 DEF StartupInv

\* Steps that leave the segments and the configurations alone.
LEMMA FirstPassStep == ASSUME StartupInv, FirstPass PROVE StartupInv'
<1>1. Segments' = Segments /\ Pointers' = Pointers /\ Config' = Config /\ Child' = Child
  BY DEF FirstPass, segments, Segments, Pointers, Config, Child
<1>2. TypeOK'
  BY <1>1 DEF FirstPass, segments, StartupInv, TypeOK
<1>3. ParentComplete' /\ AtServer' /\ ChildrenComplete' /\ Owned' /\ NoSegmentLost'
  BY DEF FirstPass, segments, StartupInv, ParentComplete, AtServer, ChildrenComplete,
         ChildComplete, Owned, NoSegmentLost
<1> QED
  BY <1>2, <1>3 DEF StartupInv

LEMMA SecondPassStep == ASSUME StartupInv, SecondPass PROVE StartupInv'
<1>1. Segments' = Segments /\ Pointers' = Pointers /\ Config' = Config /\ Child' = Child
  BY DEF SecondPass, segments, Segments, Pointers, Config, Child
<1>2. server' \in Servers /\ server' \in 1 .. NumServers + 1 /\ pc' = "log"
  BY ServersAssumption DEF SecondPass, Servers
<1>3. TypeOK'
  BY <1>1, <1>2 DEF SecondPass, segments, StartupInv, TypeOK
<1>4. ParentComplete' /\ AtServer' /\ ChildrenComplete' /\ Owned' /\ NoSegmentLost'
  BY <1>2 DEF SecondPass, segments, StartupInv, ParentComplete, AtServer, ChildrenComplete,
              ChildComplete, Owned, NoSegmentLost, Servers
<1> QED
  BY <1>3, <1>4 DEF StartupInv

LEMMA SkipStep == ASSUME StartupInv, Skip PROVE StartupInv'
<1>1. Segments' = Segments /\ Pointers' = Pointers /\ Config' = Config /\ Child' = Child
  BY DEF Skip, segments, Segments, Pointers, Config, Child
<1>2. /\ server' \in 1 .. NumServers + 1 /\ pc' \in {"running", "log"}
      /\ pc' = "log" => server' \in Servers
      /\ pc' = "running" => server' = NumServers + 1
  BY NextServerStep DEF Skip, StartupInv, AtServer
<1>3. TypeOK'
  BY <1>1, <1>2 DEF Skip, segments, StartupInv, TypeOK
<1>4. ParentComplete'
  <2> SUFFICES ASSUME NEW s \in Servers, s < server' PROVE Complete(cfg[conf[s]])
    BY DEF Skip, ParentComplete
  <2>1. CASE s = server
    BY <2>1 DEF Skip, srv_conf, Complete
  <2>2. CASE s # server
    BY <2>2 DEF Skip, NextServer, Servers, StartupInv, AtServer, ParentComplete
  <2> QED
    BY <2>1, <2>2
<1>5. AtServer' /\ ChildrenComplete' /\ Owned' /\ NoSegmentLost'
  BY <1>2 DEF Skip, segments, StartupInv, AtServer, ChildrenComplete, ChildComplete, Owned,
              NoSegmentLost
<1> QED
  BY <1>3, <1>4, <1>5 DEF StartupInv

LEMMA KillStep == ASSUME StartupInv, Kill PROVE StartupInv'
<1>1. Segments' = Segments /\ Pointers' = Pointers /\ Config' = Config /\ Child' = Child
  BY DEF Kill, Segments, Pointers, Config, Child
<1>2. TypeOK'
  BY <1>1 DEF Kill, StartupInv, TypeOK, Pointers
<1>3. ParentComplete' /\ AtServer' /\ ChildrenComplete' /\ Owned' /\ NoSegmentLost'
  BY DEF Kill, StartupInv, ParentComplete, AtServer, ChildrenComplete, ChildComplete, Owned,
         NoSegmentLost
<1> QED
  BY <1>2, <1>3 DEF StartupInv

-----------------------------------------------------------------------------
(* The parent: the parts of mod_mp_init *)

\* A configuration that is turned off is complete, and the others were.
LEMMA DisableStep ==
  ASSUME StartupInv, pc \in {"log", "rest"}, Disable, Config \subseteq Config'
  PROVE  /\ cfg' \in [Servers -> Config']
         /\ server' \in 1 .. NumServers + 1
         /\ pc' \in {"running", "log"}
         /\ ParentComplete' /\ AtServer'
<1>1. /\ server \in Servers /\ conf \in [Servers -> Servers] /\ cfg \in [Servers -> Config]
      /\ ParentComplete
  BY DEF StartupInv, AtServer, TypeOK
<1>2. /\ server' \in 1 .. NumServers + 1 /\ pc' \in {"running", "log"}
      /\ pc' = "log" => server' \in Servers
      /\ pc' = "running" => server' = NumServers + 1
  BY <1>1, NextServerStep DEF Disable
<1>3. PICK t \in Servers : t = conf[server]
  BY <1>1
<1>4. cfg' = [cfg EXCEPT ![t] = [cfg[t] EXCEPT !.enable = FALSE]]
  BY <1>3 DEF Disable
<1>5. [cfg[t] EXCEPT !.enable = FALSE] \in Config
  BY <1>1 DEF Config
<1>6. Complete([cfg[t] EXCEPT !.enable = FALSE])
  BY <1>1 DEF Config, Complete
<1>7. cfg' \in [Servers -> Config']
  BY <1>1, <1>4, <1>5
<1>8. conf' = conf
  BY DEF Disable
<1>9. ASSUME NEW s \in Servers, s < server' PROVE Complete(cfg'[conf[s]])
  <2>1. CASE conf[s] = t
    BY <2>1, <1>1, <1>4, <1>6
  <2>2. CASE conf[s] # t
    <3>1. s < server
      BY <2>2, <1>1, <1>3, <1>9 DEF Disable, NextServer, Servers
    <3>2. Complete(cfg[conf[s]])
      BY <3>1, <1>1 DEF ParentComplete
    <3> QED
      BY <3>2, <2>2, <1>1, <1>4
  <2> QED
    BY <2>1, <2>2
<1> QED
  BY <1>2, <1>7, <1>8, <1>9 DEF ParentComplete, AtServer

LEMMA DisableAlone ==
  ASSUME StartupInv, pc \in {"log", "rest"}, Disable, UNCHANGED segments
  PROVE  StartupInv'
<1>1. Segments' = Segments /\ Pointers' = Pointers /\ Config' = Config /\ Child' = Child
  BY DEF segments, Segments, Pointers, Config, Child
<1>2. /\ cfg' \in [Servers -> Config'] /\ server' \in 1 .. NumServers + 1
      /\ pc' \in {"running", "log"} /\ ParentComplete' /\ AtServer'
  BY <1>1, DisableStep
<1>3. TypeOK'
  BY <1>1, <1>2 DEF Disable, segments, StartupInv, TypeOK
<1>4. ChildrenComplete' /\ Owned' /\ NoSegmentLost'
  BY DEF Disable, segments, StartupInv, ChildrenComplete, ChildComplete, Owned, NoSegmentLost
<1> QED
  BY <1>2, <1>3, <1>4 DEF StartupInv

LEMMA KillFailsStep == ASSUME StartupInv, KillFails PROVE StartupInv'
BY DisableAlone DEF KillFails

LEMMA RestFailsStep == ASSUME StartupInv, RestFails PROVE StartupInv'
BY DisableAlone DEF RestFails

\* What a new segment does to the invariant, but for the parent's configurations.
LEMMA CreatedKeeps ==
  ASSUME StartupInv, name = Nothing, Created
  PROVE  /\ reports' \in Seq(SUBSET Servers) /\ name' \in Segments' /\ name' \in Pointers'
         /\ live' \subseteq Segments' /\ mine' \subseteq Segments'
         /\ Config \subseteq Config' /\ Child \subseteq Child'
         /\ Owned' /\ NoSegmentLost'
<1>1. /\ reports' \in Seq(SUBSET Servers) /\ Len(reports') = Len(reports) + 1
      /\ name' \in Segments' /\ live' = {name'}
      /\ live' \subseteq Segments' /\ mine' \subseteq Segments' /\ live' \subseteq mine'
  BY CreatedStep
<1>2. Len(reports) \in Nat /\ Len(reports') \in Nat /\ Len(reports) <= Len(reports')
  BY <1>1 DEF StartupInv, TypeOK
<1>3. Config \subseteq Config' /\ Child \subseteq Child'
  BY <1>2, ConfigGrows
<1> QED
  BY <1>1, <1>3 DEF Pointers, Owned, NoSegmentLost

LEMMA CreateFailsStep == ASSUME StartupInv, CreateFails PROVE StartupInv'
<1>1. CASE UNCHANGED segments
  BY <1>1, DisableAlone DEF CreateFails
<1>2. CASE Created
  <2>1. /\ reports' \in Seq(SUBSET Servers) /\ name' \in Segments' /\ name' \in Pointers'
        /\ live' \subseteq Segments' /\ mine' \subseteq Segments'
        /\ Config \subseteq Config' /\ Child \subseteq Child'
        /\ Owned' /\ NoSegmentLost'
    BY <1>2, CreatedKeeps DEF CreateFails
  <2>2. /\ cfg' \in [Servers -> Config'] /\ server' \in 1 .. NumServers + 1
        /\ pc' \in {"running", "log"} /\ ParentComplete' /\ AtServer'
    BY <2>1, DisableStep DEF CreateFails
  <2>3. child' \in [Children -> Child'] /\ ChildrenComplete'
    BY <2>1 DEF CreateFails, Disable, StartupInv, TypeOK, ChildrenComplete, ChildComplete
  <2>4. TypeOK'
    BY <2>1, <2>2, <2>3 DEF CreateFails, Disable, StartupInv, TypeOK
  <2> QED
    BY <2>1, <2>2, <2>3, <2>4 DEF StartupInv
<1> QED
  BY <1>1, <1>2 DEF CreateFails

LEMMA CreateStep == ASSUME StartupInv, Create PROVE StartupInv'
<1>1. /\ reports' \in Seq(SUBSET Servers) /\ name' \in Segments' /\ name' \in Pointers'
      /\ live' \subseteq Segments' /\ mine' \subseteq Segments'
      /\ Config \subseteq Config' /\ Child \subseteq Child'
      /\ Owned' /\ NoSegmentLost'
  BY CreatedKeeps DEF Create
<1>2. /\ server \in Servers /\ conf \in [Servers -> Servers] /\ cfg \in [Servers -> Config]
      /\ ParentComplete
  BY DEF Create, StartupInv, AtServer, TypeOK
<1>3. PICK t \in Servers : t = conf[server]
  BY <1>2
<1>4. cfg' = [cfg EXCEPT ![t] = [cfg[t] EXCEPT !.log = name', !.reported = FALSE]]
  BY <1>3 DEF Create
<1>5. cfg[t] \in Config'
  BY <1>1, <1>2
<1>6. [cfg[t] EXCEPT !.log = name', !.reported = FALSE] \in Config'
  BY <1>1, <1>5 DEF Config
<1>7. cfg' \in [Servers -> Config']
  BY <1>1, <1>2, <1>4, <1>6
<1>8. cfg'[t].log = name'
  BY <1>2, <1>4, <1>5 DEF Config
<1>9. ParentComplete'
  <2> SUFFICES ASSUME NEW s \in Servers, s < server PROVE Complete(cfg'[conf[s]])
    BY DEF Create, ParentComplete
  <2>1. Complete(cfg[conf[s]])
    BY <1>2 DEF Create, ParentComplete
  <2>2. CASE conf[s] # t
    BY <2>1, <2>2, <1>2, <1>4
  <2>3. CASE conf[s] = t
    <3>1. cfg'[t].manager = cfg[t].manager /\ cfg'[t].enable = cfg[t].enable
      BY <1>2, <1>4, <1>5 DEF Config
    <3>2. name' # Nothing
      BY <1>1, NothingAssumption DEF Segments
    <3> QED
      BY <2>1, <2>3, <3>1, <3>2, <1>8 DEF Complete
  <2> QED
    BY <2>2, <2>3
<1>10. AtServer'
  BY <1>1, <1>2, <1>3, <1>8 DEF Create, AtServer, srv_conf
<1>11. child' \in [Children -> Child'] /\ ChildrenComplete'
  BY <1>1 DEF Create, StartupInv, TypeOK, ChildrenComplete, ChildComplete
<1>12. TypeOK'
  BY <1>1, <1>7, <1>11 DEF Create, StartupInv, TypeOK
<1> QED
  BY <1>1, <1>9, <1>10, <1>11, <1>12 DEF StartupInv

LEMMA RestStep == ASSUME StartupInv, Rest PROVE StartupInv'
<1>1. PICK reported \in BOOLEAN :
        /\ cfg' = [cfg EXCEPT ![conf[server]] = AddIndexer(InitIndexer(@, reported))]
        /\ reports' = [reports EXCEPT ![srv_conf.log] =
                         @ \cup IF reported THEN {conf[server]} ELSE {}]
  BY DEF Rest
<1>2. /\ server \in Servers /\ conf \in [Servers -> Servers] /\ cfg \in [Servers -> Config]
      /\ ParentComplete /\ srv_conf.log \in Segments /\ reports \in Seq(SUBSET Servers)
  BY DEF Rest, StartupInv, AtServer, TypeOK
<1>3. PICK t \in Servers : t = conf[server] /\ srv_conf = cfg[t]
  BY <1>2 DEF srv_conf
<1>4. reports' \in Seq(SUBSET Servers) /\ Len(reports') = Len(reports)
  <2> DEFINE more == IF reported THEN {conf[server]} ELSE {}
  <2>1. more \in SUBSET Servers
    BY <1>2, <1>3
  <2>2. srv_conf.log \in 1 .. Len(reports)
    BY <1>2 DEF Segments
  <2>3. reports[srv_conf.log] \in SUBSET Servers
    BY <1>2, <2>2
  <2>4. reports[srv_conf.log] \cup more \in SUBSET Servers
    BY <2>1, <2>3
  <2>5. reports' = [reports EXCEPT ![srv_conf.log] = reports[srv_conf.log] \cup more]
    BY <1>1
  <2> QED
    BY <1>2, <2>2, <2>4, <2>5
<1>5. Segments' = Segments /\ Pointers' = Pointers /\ Config' = Config /\ Child' = Child
  BY <1>4 DEF Segments, Pointers, Config, Child
<1>6. cfg' = [cfg EXCEPT ![t] = [[cfg[t] EXCEPT !.indexer_log = srv_conf.log,
                                                !.reported = reported]
                                 EXCEPT !.manager = TRUE]]
  BY <1>1, <1>3 DEF AddIndexer, InitIndexer
<1>7. srv_conf.log \in Pointers /\ cfg[t] \in Config
  BY <1>2 DEF Pointers
<1>8. cfg' \in [Servers -> Config] /\ cfg'[t].manager = TRUE
  BY <1>2, <1>6, <1>7 DEF Config
<1>9. /\ server' \in 1 .. NumServers + 1 /\ pc' \in {"running", "log"}
      /\ pc' = "log" => server' \in Servers
      /\ pc' = "running" => server' = NumServers + 1
  BY <1>2, NextServerStep DEF Rest
<1>10. ASSUME NEW s \in Servers, s < server' PROVE Complete(cfg'[conf[s]])
  <2>1. CASE conf[s] = t
    <3>1. cfg'[t].log = srv_conf.log
      BY <1>2, <1>3, <1>6, <1>7 DEF Config
    <3>2. srv_conf.log # Nothing
      BY <1>2, NothingAssumption DEF Segments
    <3> QED
      BY <2>1, <3>1, <3>2, <1>8 DEF Complete
  <2>2. CASE conf[s] # t
    <3>1. s < server
      BY <2>2, <1>2, <1>3, <1>10 DEF Rest, NextServer, Servers
    <3>2. Complete(cfg[conf[s]])
      BY <3>1, <1>2 DEF Rest, ParentComplete
    <3> QED
      BY <3>2, <2>2, <1>2, <1>3, <1>6
  <2> QED
    BY <2>1, <2>2
<1>11. ParentComplete' /\ AtServer'
  BY <1>9, <1>10 DEF Rest, ParentComplete, AtServer
<1>12. TypeOK'
  BY <1>4, <1>5, <1>8, <1>9 DEF Rest, StartupInv, TypeOK
<1>13. ChildrenComplete' /\ Owned' /\ NoSegmentLost'
  BY DEF Rest, StartupInv, ChildrenComplete, ChildComplete, Owned, NoSegmentLost
<1> QED
  BY <1>11, <1>12, <1>13 DEF StartupInv

-----------------------------------------------------------------------------
(* The children *)

\* A child goes from one state to another; the parent does nothing.
LEMMA ChildDoesStep ==
  ASSUME StartupInv, NEW p \in Children, NEW c \in Child, ChildComplete(c),
         ChildDoes(p, c)
  PROVE  StartupInv'
<1>1. Segments' = Segments /\ Pointers' = Pointers /\ Config' = Config /\ Child' = Child
  BY DEF ChildDoes, segments, Segments, Pointers, Config, Child
<1>2. child \in [Children -> Child]
  BY DEF StartupInv, TypeOK
<1>3. child' = [child EXCEPT ![p] = c]
  BY DEF ChildDoes
<1>4. child' \in [Children -> Child] /\ ChildrenComplete'
  <2>1. child' \in [Children -> Child]
    BY <1>2, <1>3
  <2>2. ASSUME NEW q \in Children PROVE ChildComplete(child[q]) /\ ChildComplete(child'[q])
    BY <1>2, <1>3 DEF StartupInv, ChildrenComplete
  <2>3. conf' = conf
    BY DEF ChildDoes
  <2> QED
    BY <2>1, <2>2, <2>3 DEF ChildrenComplete, ChildComplete
<1>5. TypeOK'
  BY <1>1, <1>4 DEF ChildDoes, segments, StartupInv, TypeOK
<1>6. ParentComplete' /\ AtServer' /\ Owned' /\ NoSegmentLost'
  BY <1>1 DEF ChildDoes, segments, StartupInv, ParentComplete, AtServer, srv_conf, Owned,
              NoSegmentLost
<1> QED
  BY <1>4, <1>5, <1>6 DEF StartupInv

LEMMA ForkStep == ASSUME StartupInv, NEW p \in Children, Fork(p) PROVE StartupInv'
<1> DEFINE c == [pc |-> "log", server |-> 1, cfg |-> cfg, generation |-> starts]
<1>1. 1 \in Servers /\ 1 \in 1 .. NumServers + 1
  BY ServersAssumption DEF Servers
<1>2. cfg \in [Servers -> Config] /\ starts \in Nat
  BY DEF StartupInv, TypeOK
<1>3. c \in Child
  BY <1>1, <1>2 DEF Child
<1>4. \A s \in Servers : Complete(cfg[conf[s]])
  BY ServersAssumption DEF Fork, StartupInv, ParentComplete, AtServer, Servers
<1>5. ChildComplete(c)
  BY <1>1, <1>4 DEF ChildComplete
<1>6. ChildDoes(p, c)
  BY DEF Fork, ChildDoes
<1> QED
  BY <1>3, <1>5, <1>6, ChildDoesStep

LEMMA ChildNextServerStep ==
  ASSUME NEW c \in Child, c.server \in Servers, \A s \in Servers : Complete(c.cfg[conf[s]])
  PROVE  ChildNextServer(c) \in Child /\ ChildComplete(ChildNextServer(c))
<1> DEFINE d == ChildNextServer(c)
<1>1. /\ d.server = c.server + 1 /\ d.cfg = c.cfg /\ d.generation = c.generation
      /\ d.pc = IF c.server = NumServers THEN "serving" ELSE "log"
  BY DEF ChildNextServer, Child
<1>2. /\ d.server \in 1 .. NumServers + 1
      /\ d.pc = "log" => d.server \in Servers
  BY <1>1, ServersAssumption DEF Servers
<1>3. c.cfg \in [Servers -> Config] /\ c.generation \in Nat
  BY DEF Child
<1>4. d.pc \in {"log", "serving"}
  BY <1>1
<1>5. d \in Child
  BY <1>1, <1>2, <1>3, <1>4 DEF Child, ChildNextServer
<1>6. ChildComplete(d)
  BY <1>1, <1>2, <1>4 DEF ChildComplete
<1> QED
  BY <1>5, <1>6

LEMMA ChildSkipStep == ASSUME StartupInv, NEW p \in Children, ChildSkip(p) PROVE StartupInv'
<1>1. child[p] \in Child /\ ChildComplete(child[p])
  BY DEF StartupInv, TypeOK, ChildrenComplete
<1>2. child[p].server \in Servers /\ \A s \in Servers : Complete(child[p].cfg[conf[s]])
  BY <1>1 DEF ChildSkip, ChildComplete
<1>3. /\ ChildNextServer(child[p]) \in Child
      /\ ChildComplete(ChildNextServer(child[p]))
  BY <1>1, <1>2, ChildNextServerStep
<1> QED
  BY <1>3, ChildDoesStep DEF ChildSkip

\* Attaching changes where a pointer points; what pointed somewhere still does.
LEMMA AttachedType ==
  ASSUME StartupInv, NEW log \in Pointers
  PROVE  Attached(log) \in Pointers /\ (log # Nothing => Attached(log) # Nothing)
<1>1. Nothing \notin live
  <2>1. live \subseteq Segments /\ Len(reports) \in Nat
    BY DEF StartupInv, TypeOK
  <2>2. 1 .. Len(reports) \subseteq Nat
    BY <2>1
  <2> QED
    BY <2>1, <2>2, NothingAssumption DEF Segments
<1>2. name \in Pointers
  BY DEF StartupInv, TypeOK
<1> QED
  BY <1>1, <1>2 DEF Attached

LEMMA ChildLogStep == ASSUME StartupInv, NEW p \in Children, ChildLog(p) PROVE StartupInv'
<1> DEFINE c == child[p]
<1>1. c \in Child /\ ChildComplete(c) /\ conf \in [Servers -> Servers]
  BY DEF StartupInv, TypeOK, ChildrenComplete
<1>2. PICK t \in Servers : t = conf[c.server]
  BY <1>1 DEF ChildLog, ChildComplete
<1>3. c.cfg \in [Servers -> Config] /\ c.cfg[t] \in Config
  BY <1>1, <1>2 DEF Child
<1> DEFINE new == [c.cfg[t] EXCEPT !.log = Attached(c.cfg[t].log)]
           d == [c EXCEPT !.cfg = [c.cfg EXCEPT ![t] = new], !.pc = "indexers"]
<1>4. Attached(c.cfg[t].log) \in Pointers
      /\ (c.cfg[t].log # Nothing => Attached(c.cfg[t].log) # Nothing)
  BY <1>3, AttachedType DEF Config
<1>5. new \in Config
  BY <1>3, <1>4 DEF Config
<1>6. Complete(c.cfg[t]) => Complete(new)
  BY <1>3, <1>4 DEF Config, Complete
<1>7. d \in Child
  BY <1>1, <1>3, <1>5 DEF Child
<1>8. d.cfg = [c.cfg EXCEPT ![t] = new] /\ d.server = c.server /\ d.pc = "indexers"
  BY <1>1 DEF Child
<1>9. ASSUME NEW s \in Servers PROVE Complete(d.cfg[conf[s]])
  <2>1. Complete(c.cfg[conf[s]])
    BY <1>1 DEF ChildComplete
  <2>2. CASE conf[s] = t
    BY <2>1, <2>2, <1>3, <1>6, <1>8
  <2>3. CASE conf[s] # t
    BY <2>1, <2>3, <1>1, <1>3, <1>8
  <2> QED
    BY <2>2, <2>3
<1>10. ChildComplete(d)
  BY <1>1, <1>8, <1>9 DEF ChildComplete, ChildLog
<1>11. ChildDoes(p, d)
  BY <1>2 DEF ChildLog
<1> QED
  BY <1>7, <1>10, <1>11, ChildDoesStep

LEMMA ChildIndexersStep ==
  ASSUME StartupInv, NEW p \in Children, ChildIndexers(p) PROVE StartupInv'
<1> DEFINE c == child[p]
<1>1. c \in Child /\ ChildComplete(c) /\ conf \in [Servers -> Servers]
  BY DEF StartupInv, TypeOK, ChildrenComplete
<1>2. PICK t \in Servers : t = conf[c.server]
  BY <1>1 DEF ChildIndexers, ChildComplete
<1>3. c.cfg \in [Servers -> Config] /\ c.cfg[t] \in Config
  BY <1>1, <1>2 DEF Child
<1> DEFINE new == [c.cfg[t] EXCEPT !.indexer_log = Attached(c.cfg[t].indexer_log)]
           d == [c EXCEPT !.cfg = [c.cfg EXCEPT ![t] = new]]
<1>4. Attached(c.cfg[t].indexer_log) \in Pointers
  BY <1>3, AttachedType DEF Config
<1>5. new \in Config
  BY <1>3, <1>4 DEF Config
<1>6. Complete(c.cfg[t]) => Complete(new)
  BY <1>3 DEF Config, Complete
<1>7. d \in Child
  BY <1>1, <1>3, <1>5 DEF Child
<1>8. d.cfg = [c.cfg EXCEPT ![t] = new] /\ d.server = c.server
  BY <1>1 DEF Child
<1>9. ASSUME NEW s \in Servers PROVE Complete(d.cfg[conf[s]])
  <2>1. Complete(c.cfg[conf[s]])
    BY <1>1 DEF ChildComplete
  <2>2. CASE conf[s] = t
    BY <2>1, <2>2, <1>3, <1>6, <1>8
  <2>3. CASE conf[s] # t
    BY <2>1, <2>3, <1>1, <1>3, <1>8
  <2> QED
    BY <2>2, <2>3
<1>10. d.server \in Servers
  BY <1>1, <1>8 DEF ChildComplete, ChildIndexers
<1>11. ChildNextServer(d) \in Child /\ ChildComplete(ChildNextServer(d))
  BY <1>7, <1>9, <1>10, ChildNextServerStep
<1>12. ChildDoes(p, ChildNextServer(d))
  BY <1>2 DEF ChildIndexers, OnFork
<1> QED
  BY <1>11, <1>12, ChildDoesStep

LEMMA ChildEndsStep == ASSUME StartupInv, NEW p \in Children, ChildEnds(p) PROVE StartupInv'
<1>1. conf \in [Servers -> Servers]
  BY DEF StartupInv, TypeOK
<1>2. NoChild \in Child /\ ChildComplete(NoChild)
  BY <1>1, NoChildType
<1> QED
  BY <1>2, ChildDoesStep DEF ChildEnds

-----------------------------------------------------------------------------
(* The invariant, and the theorems *)

LEMMA StartupNext == StartupInv /\ [Next]_vars => StartupInv'
<1> SUFFICES ASSUME StartupInv, [Next]_vars PROVE StartupInv'
  OBVIOUS
<1>1. CASE Parent
  BY <1>1, StartStep, FirstPassStep, SecondPassStep, SkipStep, KillStep, KillFailsStep,
     CreateFailsStep, CreateStep, RestFailsStep, RestStep, RestartStep, StopStep, CrashStep,
     RebootStep DEF Parent
<1>2. ASSUME NEW p \in Children,
             Fork(p) \/ ChildSkip(p) \/ ChildLog(p) \/ ChildIndexers(p) \/ ChildEnds(p)
      PROVE  StartupInv'
  BY <1>2, ForkStep, ChildSkipStep, ChildLogStep, ChildIndexersStep, ChildEndsStep
<1>3. CASE UNCHANGED vars
  <2>1. Segments' = Segments /\ Pointers' = Pointers /\ Config' = Config /\ Child' = Child
    BY <1>3 DEF vars, segments, Segments, Pointers, Config, Child
  <2>2. TypeOK'
    BY <2>1, <1>3 DEF vars, segments, StartupInv, TypeOK
  <2>3. /\ ParentComplete' /\ AtServer' /\ ChildrenComplete' /\ Owned' /\ NoSegmentLost'
    BY <1>3, <2>1 DEF vars, segments, StartupInv, ParentComplete, AtServer, srv_conf,
                      ChildrenComplete, ChildComplete, Owned, NoSegmentLost
  <2> QED
    BY <2>2, <2>3 DEF StartupInv
<1> QED
  BY <1>1, <1>2, <1>3 DEF Next

THEOREM StartupInvariant == Spec => []StartupInv
<1> QED
  BY StartupInit, StartupNext, PTL DEF Spec

\* Every variable keeps its type through starts, restarts, stops and crashes of any
\* number of hosts (mod_mp.c, util_shmem.c).
THEOREM StartupTypes == Spec => []TypeOK
<1>1. StartupInv => TypeOK
  BY DEF StartupInv
<1> QED
  BY <1>1, StartupInvariant, PTL

\* mp_handler never serves a request with an index manager that was not initialised,
\* whatever part of mod_mp_init failed for whichever host.
THEOREM NothingHalfServed == Spec => []ServedIsComplete
<1>1. StartupInv => ServedIsComplete
  BY DEF StartupInv, ChildrenComplete, ChildComplete, Complete, ServedIsComplete, Served
<1> QED
  BY <1>1, StartupInvariant, PTL

\* setup_shared_memory never leaves a segment behind that no name leads to.
THEOREM SegmentsAreFound == Spec => []NoSegmentLost
<1>1. StartupInv => NoSegmentLost
  BY DEF StartupInv
<1> QED
  BY <1>1, StartupInvariant, PTL

-----------------------------------------------------------------------------
(* One log, which shows what was reported *)

\* The loop leaves an indexer with the log of its host behind it, but for the host
\* that it is at when two of them share a configuration.
IndexersHaveLogs ==
  pc \in {"log", "rest", "running"} =>
    \A s \in Servers :
      s < server /\ cfg[conf[s]].enable /\ (pc = "rest" => conf[s] # conf[server]) =>
        cfg[conf[s]].indexer_log = cfg[conf[s]].log

\* What was reported last for a host is in the log that it has.
ReportsInLog ==
  \A c \in Servers :
    cfg[c].reported => cfg[c].log \in Segments /\ c \in reports[cfg[c].log]

\* A child of the present generation.
Young(p) == child[p].pc # "none" /\ child[p].generation = starts

Generations ==
  \A p \in Children : child[p].generation <= starts /\ (Young(p) => pc = "running")

\* A child has the configurations of the parent, except that the servers it is
\* through with have the log to which one attaches now.
Inherits(c) ==
  /\ c.pc = "serving" => c.server = NumServers + 1
  /\ \A t \in Servers :
       /\ c.cfg[t].enable = cfg[t].enable
       /\ c.cfg[t].log \in {cfg[t].log, Attached(cfg[t].log)}
       /\ c.cfg[t].indexer_log \in {cfg[t].indexer_log, Attached(cfg[t].indexer_log)}
  /\ \A s \in Servers : cfg[conf[s]].enable =>
       /\ s < c.server \/ (s = c.server /\ c.pc = "indexers") =>
            c.cfg[conf[s]].log = Attached(cfg[conf[s]].log)
       /\ s < c.server =>
            c.cfg[conf[s]].indexer_log = Attached(cfg[conf[s]].indexer_log)

YoungInherit == \A p \in Children : Young(p) => Inherits(child[p])

LogsInv == IndexersHaveLogs /\ ReportsInLog /\ Generations /\ YoungInherit

LEMMA LogsInit == Init => LogsInv
  BY DEF Init, Fresh, NoChild, LogsInv, IndexersHaveLogs, ReportsInLog, Generations, Young,
         YoungInherit

\* While the parent starts or restarts, no child of the new generation is there.
LEMMA NoneYoung ==
  ASSUME StartupInv, Generations, Parent
  PROVE  Generations' /\ YoungInherit'
<1>1. starts \in Nat /\ \A p \in Children : child[p].generation \in Nat
  BY DEF StartupInv, TypeOK, Child
<1>2. ASSUME NEW p \in Children
      PROVE  child'[p].generation <= starts' /\ ~ Young(p)'
  <2>1. CASE Start \/ Restart
    BY <1>1, <1>2, <2>1 DEF Start, Restart, ReadConfig, Generations, Young
  <2>2. CASE Stop \/ Crash
    <3>1. child'[p] = NoChild /\ starts' = starts
      BY <1>2, <2>2 DEF Stop, Crash
    <3>2. NoChild.generation = 0 /\ NoChild.pc = "none"
      BY DEF NoChild
    <3> QED
      BY <1>1, <3>1, <3>2 DEF Young
  <2>3. CASE ~ (Start \/ Restart \/ Stop \/ Crash)
    <3>1. child' = child /\ starts' = starts /\ pc # "running"
      BY <2>3 DEF Parent, FirstPass, SecondPass, Skip, Kill, KillFails, CreateFails, Create,
                  RestFails, Rest, Reboot, Disable
    <3> QED
      BY <1>2, <3>1 DEF Generations, Young
  <2> QED
    BY <2>1, <2>2, <2>3
<1> QED
  BY <1>2 DEF Generations, YoungInherit

\* A configuration that is turned off keeps its logs and reports.
LEMMA DisableFields ==
  ASSUME StartupInv, pc \in {"log", "rest"}, Disable
  PROVE  \A c \in Servers :
           /\ cfg'[c].log = cfg[c].log /\ cfg'[c].reported = cfg[c].reported
           /\ cfg'[c].indexer_log = cfg[c].indexer_log
           /\ cfg'[c].enable => cfg[c].enable /\ c # conf[server]
<1>1. PICK t \in Servers : t = conf[server]
  BY DEF StartupInv, AtServer, TypeOK
<1>2. cfg' = [cfg EXCEPT ![t] = [cfg[t] EXCEPT !.enable = FALSE]]
  BY <1>1 DEF Disable
<1>3. cfg \in [Servers -> Config] /\ cfg[t] \in Config
  BY DEF StartupInv, TypeOK
<1>4. ASSUME NEW c \in Servers, c # t PROVE cfg'[c] = cfg[c]
  BY <1>2, <1>3, <1>4
<1>5. /\ cfg'[t].log = cfg[t].log /\ cfg'[t].reported = cfg[t].reported
      /\ cfg'[t].indexer_log = cfg[t].indexer_log /\ cfg'[t].enable = FALSE
  BY <1>2, <1>3 DEF Config
<1> QED
  BY <1>1, <1>4, <1>5

LEMMA DisableIndexers ==
  ASSUME StartupInv, IndexersHaveLogs, pc \in {"log", "rest"}, Disable
  PROVE  IndexersHaveLogs'
<1>1. /\ server' = server + 1 /\ conf' = conf /\ server \in Servers /\ server \in Int
      /\ conf \in [Servers -> Servers] /\ pc' # "rest"
  BY DEF Disable, NextServer, StartupInv, AtServer, TypeOK, Servers
<1>2. ASSUME NEW s \in Servers, s < server', cfg'[conf[s]].enable
      PROVE  cfg'[conf[s]].indexer_log = cfg'[conf[s]].log
  <2>1. PICK c \in Servers : c = conf[s]
    BY <1>1
  <2>2. /\ cfg'[c].log = cfg[c].log /\ cfg'[c].indexer_log = cfg[c].indexer_log
        /\ cfg[c].enable /\ c # conf[server]
    BY <1>2, <2>1, DisableFields
  <2>3. s < server
    BY <1>1, <1>2, <2>1, <2>2 DEF Servers
  <2> QED
    BY <2>1, <2>2, <2>3 DEF IndexersHaveLogs
<1> QED
  BY <1>1, <1>2 DEF IndexersHaveLogs

\* What is in the segments stays in them.
LEMMA ReportsGrow ==
  ASSUME StartupInv, ReportsInLog,
         \A c \in Servers : cfg'[c].reported =>
           cfg[c].reported /\ cfg'[c].log = cfg[c].log,
         \/ UNCHANGED reports
         \/ reports' = Append(reports, {})
  PROVE  ReportsInLog'
<1>1. reports \in Seq(SUBSET Servers) /\ Len(reports) \in Nat
  BY DEF StartupInv, TypeOK
<1>2. ASSUME NEW i \in Segments PROVE i \in Segments' /\ reports'[i] = reports[i]
  <2>1. i \in 1 .. Len(reports)
    BY DEF Segments
  <2>2. CASE reports' = Append(reports, {})
    BY <1>1, <2>1, <2>2 DEF Segments
  <2> QED
    BY <2>1, <2>2 DEF Segments
<1> QED
  BY <1>2 DEF ReportsInLog

LEMMA CreateLogs ==
  ASSUME StartupInv, IndexersHaveLogs, ReportsInLog, Create
  PROVE  IndexersHaveLogs' /\ ReportsInLog'
<1>1. PICK t \in Servers : t = conf[server]
  BY DEF Create, StartupInv, AtServer, TypeOK
<1>2. cfg' = [cfg EXCEPT ![t] = [cfg[t] EXCEPT !.log = name', !.reported = FALSE]]
  BY <1>1 DEF Create
<1>3. cfg \in [Servers -> Config] /\ cfg[t] \in Config /\ conf \in [Servers -> Servers]
  BY DEF StartupInv, TypeOK
<1>4. ASSUME NEW c \in Servers, c # t PROVE cfg'[c] = cfg[c]
  BY <1>2, <1>3, <1>4
<1>5. cfg'[t].reported = FALSE
  BY <1>2, <1>3 DEF Config
<1>6. reports' = Append(reports, {})
  BY DEF Create, Created
<1>7. ReportsInLog'
  BY <1>4, <1>5, <1>6, ReportsGrow
<1>8. IndexersHaveLogs'
  <2>1. pc = "log" /\ pc' = "rest" /\ server' = server /\ conf' = conf
    BY DEF Create
  <2>2. ASSUME NEW s \in Servers, s < server, cfg'[conf[s]].enable, conf[s] # t
        PROVE  cfg'[conf[s]].indexer_log = cfg'[conf[s]].log
    <3>1. cfg'[conf[s]] = cfg[conf[s]]
      BY <1>3, <1>4, <2>2
    <3> QED
      BY <2>1, <2>2, <3>1 DEF IndexersHaveLogs
  <2> QED
    BY <1>1, <2>1, <2>2 DEF IndexersHaveLogs
<1> QED
  BY <1>7, <1>8

LEMMA RestLogs ==
  ASSUME StartupInv, IndexersHaveLogs, ReportsInLog, Rest
  PROVE  IndexersHaveLogs' /\ ReportsInLog'
<1>1. PICK t \in Servers : t = conf[server] /\ srv_conf = cfg[t]
  BY DEF Rest, StartupInv, AtServer, TypeOK, srv_conf
<1>2. PICK log \in Segments : log = cfg[t].log
  BY <1>1 DEF Rest, StartupInv, AtServer
<1>3. PICK reported \in BOOLEAN :
        /\ cfg' = [cfg EXCEPT ![t] = AddIndexer(InitIndexer(cfg[t], reported))]
        /\ reports' = [reports EXCEPT ![log] =
                         reports[log] \cup IF reported THEN {t} ELSE {}]
  BY <1>1, <1>2 DEF Rest
<1>4. /\ cfg \in [Servers -> Config] /\ cfg[t] \in Config /\ conf \in [Servers -> Servers]
      /\ reports \in Seq(SUBSET Servers) /\ Len(reports) \in Nat /\ log \in 1 .. Len(reports)
  BY <1>2 DEF StartupInv, TypeOK, Segments
<1>5. cfg' = [cfg EXCEPT ![t] = [[cfg[t] EXCEPT !.indexer_log = log, !.reported = reported]
                                 EXCEPT !.manager = TRUE]]
  BY <1>2, <1>3 DEF AddIndexer, InitIndexer
<1>6. cfg'[t].log = log /\ cfg'[t].indexer_log = log /\ cfg'[t].reported = reported
  BY <1>2, <1>4, <1>5 DEF Config
<1>7. ASSUME NEW c \in Servers, c # t PROVE cfg'[c] = cfg[c]
  BY <1>4, <1>5, <1>7
<1>8. Len(reports') = Len(reports)
  BY <1>3, <1>4
<1>9. \A i \in Segments : i \in Segments' /\ reports[i] \subseteq reports'[i]
  BY <1>3, <1>4, <1>8 DEF Segments
<1>10. reported => t \in reports'[log]
  BY <1>3, <1>4
<1>11. ReportsInLog'
  <2> SUFFICES ASSUME NEW c \in Servers, cfg'[c].reported
               PROVE  cfg'[c].log \in Segments' /\ c \in reports'[cfg'[c].log]
    BY DEF ReportsInLog
  <2>1. CASE c = t
    BY <1>2, <1>6, <1>9, <1>10, <2>1
  <2>2. CASE c # t
    BY <1>7, <1>9, <2>2 DEF ReportsInLog
  <2> QED
    BY <2>1, <2>2
<1>12. IndexersHaveLogs'
  <2>1. /\ pc = "rest" /\ pc' # "rest" /\ server' = server + 1 /\ conf' = conf
        /\ server \in Servers
    BY DEF Rest, NextServer, StartupInv, AtServer
  <2>2. ASSUME NEW s \in Servers, s < server + 1, cfg'[conf[s]].enable
        PROVE  cfg'[conf[s]].indexer_log = cfg'[conf[s]].log
    <3>1. CASE conf[s] = t
      BY <1>6, <3>1
    <3>2. CASE conf[s] # t
      <4>1. cfg'[conf[s]] = cfg[conf[s]]
        BY <1>4, <1>7, <3>2
      <4>2. s < server
        BY <1>1, <2>1, <2>2, <3>2 DEF Servers
      <4> QED
        BY <1>1, <2>1, <2>2, <3>2, <4>1, <4>2 DEF IndexersHaveLogs
    <3> QED
      BY <3>1, <3>2
  <2> QED
    BY <2>1, <2>2 DEF IndexersHaveLogs
<1> QED
  BY <1>11, <1>12

LEMMA ParentLogs ==
  ASSUME StartupInv, IndexersHaveLogs, ReportsInLog, Parent
  PROVE  IndexersHaveLogs' /\ ReportsInLog'
<1>1. CASE Start \/ Restart
  <2>1. PICK enabled : cfg' = [s \in Servers |-> Fresh(s \in enabled)]
    BY <1>1 DEF Start, Restart, ReadConfig
  <2>2. pc' = "config" /\ \A s \in Servers : ~ cfg'[s].reported
    BY <1>1, <2>1 DEF Start, Restart, ReadConfig, Fresh
  <2> QED
    BY <2>2 DEF IndexersHaveLogs, ReportsInLog
<1>2. CASE Stop \/ Crash \/ Reboot
  <2>1. pc' = "stopped" /\ cfg' = cfg /\ reports' = reports
    BY <1>2 DEF Stop, Crash, Reboot, ClearPool
  <2> QED
    BY <2>1, ReportsGrow DEF IndexersHaveLogs
<1>3. CASE FirstPass \/ SecondPass \/ Kill
  <2>1. cfg' = cfg /\ reports' = reports /\ conf' = conf
    BY <1>3 DEF FirstPass, SecondPass, Kill, segments
  <2>2. pc' = "config" \/ (pc' = "log" /\ server' = 1) \/ UNCHANGED <<pc, server>>
    BY <1>3 DEF FirstPass, SecondPass, Kill
  <2> QED
    BY <2>1, <2>2, ReportsGrow DEF IndexersHaveLogs, Servers
<1>4. CASE Skip
  <2>1. /\ cfg' = cfg /\ reports' = reports /\ conf' = conf /\ pc = "log" /\ pc' # "rest"
        /\ server' = server + 1 /\ server \in Servers /\ ~ cfg[conf[server]].enable
    BY <1>4 DEF Skip, segments, NextServer, srv_conf, StartupInv, AtServer
  <2>2. ASSUME NEW s \in Servers, s < server + 1, cfg[conf[s]].enable
        PROVE  cfg[conf[s]].indexer_log = cfg[conf[s]].log
    <3>1. s < server
      BY <2>1, <2>2 DEF Servers
    <3> QED
      BY <2>1, <2>2, <3>1 DEF IndexersHaveLogs
  <2> QED
    BY <2>1, <2>2, ReportsGrow DEF IndexersHaveLogs
<1>5. CASE KillFails \/ CreateFails \/ RestFails
  <2>1. pc \in {"log", "rest"} /\ Disable
    BY <1>5 DEF KillFails, CreateFails, RestFails
  <2>2. UNCHANGED reports \/ reports' = Append(reports, {})
    BY <1>5 DEF KillFails, CreateFails, RestFails, segments, Created
  <2>3. ReportsInLog'
    BY <2>1, <2>2, DisableFields, ReportsGrow
  <2> QED
    BY <2>1, <2>3, DisableIndexers
<1> QED
  BY <1>1, <1>2, <1>3, <1>4, <1>5, CreateLogs, RestLogs DEF Parent

-----------------------------------------------------------------------------
(* The children and the logs *)

\* A child goes on without the parent.
LEMMA ChildLogs ==
  ASSUME StartupInv, LogsInv, NEW p \in Children, NEW c, ChildDoes(p, c),
         c = NoChild \/ (c.generation = child[p].generation /\ child[p].pc # "none"),
         Young(p) /\ c # NoChild => Inherits(c)
  PROVE  LogsInv'
<1>1. /\ IndexersHaveLogs' /\ ReportsInLog'
  BY DEF ChildDoes, segments, LogsInv, IndexersHaveLogs, ReportsInLog, Segments
<1>2. child' = [child EXCEPT ![p] = c] /\ child \in [Children -> Child] /\ starts \in Nat
  BY DEF ChildDoes, StartupInv, TypeOK
<1>3. NoChild.pc = "none" /\ NoChild.generation = 0
  BY DEF NoChild
<1>4. UNCHANGED <<conf, cfg, pc, name, live, starts>>
  BY DEF ChildDoes, segments
<1>5. \A q \in Children \ {p} : child'[q] = child[q]
  BY <1>2
<1>6. child'[p] = c
  BY <1>2
<1>7. Generations'
  BY <1>2, <1>3, <1>4, <1>5, <1>6 DEF LogsInv, Generations, Young
<1>8. YoungInherit'
  <2> SUFFICES ASSUME NEW q \in Children, Young(q)' PROVE Inherits(child[q])'
    BY DEF YoungInherit
  <2>1. Inherits(child'[q])
    BY <1>3, <1>4, <1>5, <1>6 DEF LogsInv, YoungInherit, Young
  <2> QED
    BY <1>4, <2>1 DEF Inherits, Attached
<1> QED
  BY <1>1, <1>7, <1>8 DEF LogsInv

LEMMA ForkLogs ==
  ASSUME StartupInv, LogsInv, NEW p \in Children, Fork(p)
  PROVE  LogsInv'
<1> DEFINE c == [pc |-> "log", server |-> 1, cfg |-> cfg, generation |-> starts]
<1>1. ChildDoes(p, c) /\ pc = "running" /\ starts \in Nat
  BY DEF Fork, ChildDoes, StartupInv, TypeOK
<1>2. Inherits(c)
  BY DEF Inherits, Servers
<1>3. /\ IndexersHaveLogs' /\ ReportsInLog'
  BY <1>1 DEF ChildDoes, segments, LogsInv, IndexersHaveLogs, ReportsInLog, Segments
<1>4. child' = [child EXCEPT ![p] = c] /\ child \in [Children -> Child]
  BY <1>1 DEF ChildDoes, StartupInv, TypeOK
<1>5. UNCHANGED <<conf, cfg, pc, name, live, starts>>
  BY <1>1 DEF ChildDoes, segments
<1>6. child'[p] = c /\ \A q \in Children \ {p} : child'[q] = child[q]
  BY <1>4
<1>7. Generations'
  BY <1>1, <1>5, <1>6 DEF LogsInv, Generations, Young
<1>8. YoungInherit'
  <2> SUFFICES ASSUME NEW q \in Children, Young(q)' PROVE Inherits(child[q])'
    BY DEF YoungInherit
  <2>1. Inherits(child'[q])
    BY <1>2, <1>5, <1>6 DEF LogsInv, YoungInherit, Young
  <2> QED
    BY <1>5, <2>1 DEF Inherits, Attached
<1> QED
  BY <1>3, <1>7, <1>8 DEF LogsInv

\* What the loop has done for a server stays done at the next one.
LEMMA NextInherits ==
  ASSUME NEW c \in Child, Inherits(c), c.server \in Servers,
         cfg[conf[c.server]].enable =>
           /\ c.cfg[conf[c.server]].log = Attached(cfg[conf[c.server]].log)
           /\ c.cfg[conf[c.server]].indexer_log = Attached(cfg[conf[c.server]].indexer_log)
  PROVE  Inherits(ChildNextServer(c))
<1> DEFINE d == ChildNextServer(c)
<1>1. /\ d.server = c.server + 1 /\ d.cfg = c.cfg
      /\ d.pc = IF c.server = NumServers THEN "serving" ELSE "log"
  BY DEF ChildNextServer, Child
<1>2. ASSUME NEW s \in Servers, s < d.server, cfg[conf[s]].enable
      PROVE  /\ c.cfg[conf[s]].log = Attached(cfg[conf[s]].log)
             /\ c.cfg[conf[s]].indexer_log = Attached(cfg[conf[s]].indexer_log)
  <2>1. s < c.server \/ s = c.server
    BY <1>1, <1>2 DEF Servers
  <2> QED
    BY <1>2, <2>1 DEF Inherits
<1> HIDE DEF d
<1>3. /\ d.pc = "serving" => d.server = NumServers + 1
      /\ d.pc # "indexers"
  BY <1>1
<1>4. Inherits(d)
  BY <1>1, <1>2, <1>3 DEF Inherits
<1> QED
  BY <1>4 DEF d

LEMMA ChildSkipLogs ==
  ASSUME StartupInv, LogsInv, NEW p \in Children, ChildSkip(p)
  PROVE  LogsInv'
<1> DEFINE c == child[p]
<1>1. /\ c \in Child /\ c.server \in Servers /\ conf \in [Servers -> Servers]
      /\ c.pc = "log"
  BY DEF ChildSkip, StartupInv, TypeOK, ChildrenComplete, ChildComplete
<1>2. ASSUME Young(p) PROVE Inherits(ChildNextServer(c))
  <2>1. Inherits(c)
    BY <1>2 DEF LogsInv, YoungInherit
  <2>2. ~ cfg[conf[c.server]].enable
    BY <1>1, <2>1 DEF ChildSkip, Inherits
  <2> QED
    BY <1>1, <2>1, <2>2, NextInherits
<1>3. ChildNextServer(c).generation = c.generation
  BY <1>1 DEF ChildNextServer, Child
<1> QED
  BY <1>1, <1>2, <1>3, ChildLogs DEF ChildSkip

\* Attaching twice is attaching once.
LEMMA AttachedOnce ==
  \A log, old : log \in {old, Attached(old)} => Attached(log) = Attached(old)
BY DEF Attached

LEMMA ChildLogLogs ==
  ASSUME StartupInv, LogsInv, NEW p \in Children, ChildLog(p)
  PROVE  LogsInv'
<1> DEFINE c == child[p]
<1>1. /\ c \in Child /\ c.server \in Servers /\ conf \in [Servers -> Servers]
      /\ c.pc = "log"
  BY DEF ChildLog, StartupInv, TypeOK, ChildrenComplete, ChildComplete
<1>2. PICK t \in Servers : t = conf[c.server]
  BY <1>1
<1>3. c.cfg \in [Servers -> Config] /\ c.cfg[t] \in Config
  BY <1>1 DEF Child
<1> DEFINE new == [c.cfg[t] EXCEPT !.log = Attached(c.cfg[t].log)]
           d == [c EXCEPT !.cfg = [c.cfg EXCEPT ![t] = new], !.pc = "indexers"]
<1>4. /\ new.log = Attached(c.cfg[t].log)
      /\ new.enable = c.cfg[t].enable /\ new.indexer_log = c.cfg[t].indexer_log
  BY <1>3 DEF Config
<1>5. /\ d.cfg = [c.cfg EXCEPT ![t] = new] /\ d.server = c.server /\ d.pc = "indexers"
      /\ d.generation = c.generation
  BY <1>1 DEF Child
<1>6. d.cfg[t] = new /\ \A u \in Servers \ {t} : d.cfg[u] = c.cfg[u]
  BY <1>3, <1>5
<1>7. ChildDoes(p, d)
  BY <1>2 DEF ChildLog
<1> HIDE DEF new, d
<1>8. ASSUME Young(p) PROVE Inherits(d)
  <2>1. Inherits(c)
    BY <1>8 DEF LogsInv, YoungInherit
  <2>2. new.log = Attached(cfg[t].log)
    BY <1>4, <2>1, AttachedOnce DEF Inherits
  <2>3. ASSUME NEW u \in Servers
        PROVE  /\ d.cfg[u].enable = cfg[u].enable
               /\ d.cfg[u].log \in {cfg[u].log, Attached(cfg[u].log)}
               /\ d.cfg[u].indexer_log \in {cfg[u].indexer_log, Attached(cfg[u].indexer_log)}
    <3>1. CASE u = t
      BY <1>4, <1>6, <2>1, <2>2, <3>1 DEF Inherits
    <3>2. CASE u # t
      BY <1>6, <2>1, <3>2 DEF Inherits
    <3> QED
      BY <3>1, <3>2
  <2>4. ASSUME NEW s \in Servers, cfg[conf[s]].enable, s < c.server \/ s = c.server
        PROVE  d.cfg[conf[s]].log = Attached(cfg[conf[s]].log)
    BY <1>1, <1>2, <1>6, <2>1, <2>2, <2>4 DEF Inherits
  <2>5. ASSUME NEW s \in Servers, cfg[conf[s]].enable, s < c.server
        PROVE  d.cfg[conf[s]].indexer_log = Attached(cfg[conf[s]].indexer_log)
    <3>1. c.cfg[conf[s]].indexer_log = Attached(cfg[conf[s]].indexer_log)
      BY <2>1, <2>5 DEF Inherits
    <3> QED
      BY <1>1, <1>4, <1>6, <3>1
  <2> QED
    BY <1>5, <2>3, <2>4, <2>5 DEF Inherits
<1> QED
  BY <1>1, <1>5, <1>7, <1>8, ChildLogs

LEMMA ChildIndexersLogs ==
  ASSUME StartupInv, LogsInv, NEW p \in Children, ChildIndexers(p)
  PROVE  LogsInv'
<1> DEFINE c == child[p]
<1>1. /\ c \in Child /\ c.server \in Servers /\ conf \in [Servers -> Servers]
      /\ c.pc = "indexers"
  BY DEF ChildIndexers, StartupInv, TypeOK, ChildrenComplete, ChildComplete
<1>2. PICK t \in Servers : t = conf[c.server]
  BY <1>1
<1>3. c.cfg \in [Servers -> Config] /\ c.cfg[t] \in Config
  BY <1>1 DEF Child
<1> DEFINE new == [c.cfg[t] EXCEPT !.indexer_log = Attached(c.cfg[t].indexer_log)]
           d == [c EXCEPT !.cfg = [c.cfg EXCEPT ![t] = new]]
<1>4. /\ new.indexer_log = Attached(c.cfg[t].indexer_log)
      /\ new.enable = c.cfg[t].enable /\ new.log = c.cfg[t].log
      /\ new \in Config
  <2>1. Attached(c.cfg[t].indexer_log) \in Pointers
    BY <1>3, AttachedType DEF Config
  <2> QED
    BY <1>3, <2>1 DEF Config
<1>5. /\ d.cfg = [c.cfg EXCEPT ![t] = new] /\ d.server = c.server /\ d.pc = "indexers"
      /\ d.generation = c.generation /\ d \in Child
  <2>1. [c.cfg EXCEPT ![t] = new] \in [Servers -> Config]
    BY <1>3, <1>4
  <2> HIDE DEF new
  <2> QED
    BY <1>1, <2>1 DEF Child
<1>6. d.cfg[t] = new /\ \A u \in Servers \ {t} : d.cfg[u] = c.cfg[u]
  BY <1>3, <1>5
<1>7. ChildDoes(p, ChildNextServer(d))
  BY <1>2 DEF ChildIndexers, OnFork
<1> HIDE DEF new, d
<1>8. ASSUME Young(p) PROVE Inherits(ChildNextServer(d))
  <2>1. Inherits(c)
    BY <1>8 DEF LogsInv, YoungInherit
  <2>2. new.indexer_log = Attached(cfg[t].indexer_log)
    BY <1>4, <2>1, AttachedOnce DEF Inherits
  <2>3. ASSUME NEW u \in Servers
        PROVE  /\ d.cfg[u].enable = cfg[u].enable
               /\ d.cfg[u].log \in {cfg[u].log, Attached(cfg[u].log)}
               /\ d.cfg[u].indexer_log \in {cfg[u].indexer_log, Attached(cfg[u].indexer_log)}
    <3>1. CASE u = t
      BY <1>4, <1>6, <2>1, <2>2, <3>1 DEF Inherits
    <3>2. CASE u # t
      BY <1>6, <2>1, <3>2 DEF Inherits
    <3> QED
      BY <3>1, <3>2
  <2>4. ASSUME NEW s \in Servers, cfg[conf[s]].enable, s < c.server \/ s = c.server
        PROVE  d.cfg[conf[s]].log = Attached(cfg[conf[s]].log)
    <3>1. c.cfg[conf[s]].log = Attached(cfg[conf[s]].log)
      BY <1>1, <2>1, <2>4 DEF Inherits
    <3> QED
      BY <1>1, <1>4, <1>6, <3>1
  <2>5. ASSUME NEW s \in Servers, cfg[conf[s]].enable, s < c.server
        PROVE  d.cfg[conf[s]].indexer_log = Attached(cfg[conf[s]].indexer_log)
    BY <1>1, <1>6, <2>1, <2>2, <2>5 DEF Inherits
  <2>6. Inherits(d)
    BY <1>5, <2>3, <2>4, <2>5 DEF Inherits
  <2>7. cfg[conf[c.server]].enable =>
           /\ d.cfg[conf[c.server]].log = Attached(cfg[conf[c.server]].log)
           /\ d.cfg[conf[c.server]].indexer_log = Attached(cfg[conf[c.server]].indexer_log)
    BY <1>1, <1>2, <1>6, <2>2, <2>4
  <2> QED
    BY <1>1, <1>5, <2>6, <2>7, NextInherits
<1>9. ChildNextServer(d).generation = c.generation
  BY <1>5 DEF ChildNextServer, Child
<1> QED
  BY <1>1, <1>7, <1>8, <1>9, ChildLogs

LEMMA ChildEndsLogs ==
  ASSUME StartupInv, LogsInv, NEW p \in Children, ChildEnds(p)
  PROVE  LogsInv'
BY ChildLogs DEF ChildEnds

LEMMA LogsNext == StartupInv /\ LogsInv /\ [Next]_vars => LogsInv'
<1> SUFFICES ASSUME StartupInv, LogsInv, [Next]_vars PROVE LogsInv'
  OBVIOUS
<1>1. CASE Parent
  BY <1>1, ParentLogs, NoneYoung DEF LogsInv
<1>2. ASSUME NEW p \in Children,
             Fork(p) \/ ChildSkip(p) \/ ChildLog(p) \/ ChildIndexers(p) \/ ChildEnds(p)
      PROVE  LogsInv'
  BY <1>2, ForkLogs, ChildSkipLogs, ChildLogLogs, ChildIndexersLogs, ChildEndsLogs
<1>3. CASE UNCHANGED vars
  BY <1>3 DEF vars, segments, LogsInv, IndexersHaveLogs, ReportsInLog, Segments, Generations,
              Young, YoungInherit, Inherits, Attached
<1> QED
  BY <1>1, <1>2, <1>3 DEF Next

THEOREM LogsInvariant == Spec => []LogsInv
<1> QED
  BY LogsInit, LogsNext, StartupInvariant, PTL DEF Spec

\* A child that serves a host has for it the log to which one attaches now, and its
\* indexer has the same.
LEMMA ServedLogs ==
  ASSUME StartupInv, LogsInv, NEW p \in Children, NEW s \in Servers,
         Current(p), Served(p, s)
  PROVE  /\ cfg[conf[s]].enable
         /\ child[p].cfg[conf[s]].log = Attached(cfg[conf[s]].log)
         /\ child[p].cfg[conf[s]].indexer_log = Attached(cfg[conf[s]].log)
<1>1. Young(p) /\ child[p].pc = "serving" /\ pc = "running"
  BY DEF Served, Current, Young
<1>2. Inherits(child[p]) /\ child[p].server = NumServers + 1
  BY <1>1 DEF LogsInv, YoungInherit, Inherits
<1>3. s < child[p].server /\ s < server
  BY <1>1, <1>2, ServersAssumption DEF Servers, StartupInv, AtServer
<1>4. cfg[conf[s]].enable
  BY <1>2 DEF Served, Inherits, StartupInv, TypeOK
<1>5. cfg[conf[s]].indexer_log = cfg[conf[s]].log
  BY <1>1, <1>3, <1>4 DEF LogsInv, IndexersHaveLogs
<1> QED
  BY <1>2, <1>3, <1>4, <1>5 DEF Inherits

\* All children of one generation have one log for a host and its indexer, whenever
\* they were forked and whichever hosts took the name over or failed to
\* (mp_child_init, error_messages_on_fork, file_indexer_on_fork).
THEOREM ChildrenHaveOneLog == Spec => []OneLog
<1>1. StartupInv /\ LogsInv => OneLog
  BY ServedLogs DEF OneLog
<1> QED
  BY <1>1, StartupInvariant, LogsInvariant, PTL

\* An answer shows what was reported when the host that has the name of the log was
\* initialised, or the host itself if nobody has the name (mp_handler).
THEOREM ReportsAreShown == Spec => []ShowsReports
<1>1. ASSUME StartupInv, LogsInv, NEW p \in Children, NEW s \in Servers,
             Current(p), Served(p, s)
      PROVE  /\ name \in live =>
                  \A c \in Servers : cfg[c].log = name /\ cfg[c].reported => c \in Shown(p, s)
             /\ name \notin live /\ cfg[conf[s]].reported => conf[s] \in Shown(p, s)
  <2>1. child[p].cfg[conf[s]].log = Attached(cfg[conf[s]].log) /\ conf[s] \in Servers
    BY <1>1, ServedLogs DEF StartupInv, TypeOK
  <2> QED
    BY <1>1, <2>1 DEF LogsInv, ReportsInLog, Shown, Attached
<1>2. StartupInv /\ LogsInv => ShowsReports
  BY <1>1 DEF ShowsReports
<1> QED
  BY <1>2, StartupInvariant, LogsInvariant, PTL

=============================================================================
