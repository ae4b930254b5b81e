----------------------------- MODULE PowerStream -----------------------------
(***************************************************************************)
(* The power supply among the threads of the daemon: its thread reads the  *)
(* system, the logger reads what the thread has found if it gets the lock, *)
(* and a client reads the log from its start and follows it.  Of the log   *)
(* only the last record of the power supply matters; {} is none.  A        *)
(* REFRESH and a MOD do the same to what a client shows.                   *)
(***************************************************************************)
EXTENDS DaemonThreads

CONSTANT power
ASSUME PowerAssumption == power \in AtStart /\ power \notin SlowProbes

VARIABLES
  supply,          \* the system has its power supply
  power_ac_state,  \* what the thread has found
  ac_prev,         \* what the logger saw last
  broadcast,       \* enigmatic->broadcast
  record,          \* the record of this poll
  newest,          \* the last record of the log
  missed,          \* the lock was taken when the logger broadcast last
  unread,          \* the last record the client has not read
  shown, told      \* snapshot->power, and whether this log said so

found  == <<power_ac_state, ac_prev>>
log    == <<record, newest, missed>>
reader == <<unread, shown, told>>
power_vars == <<supply, found, broadcast, log, reader>>
all_vars   == <<vars, power_vars>>

PowerInit ==
  /\ Init /\ supply \in BOOLEAN /\ power_ac_state = supply /\ ac_prev = FALSE
  /\ broadcast = TRUE /\ record = {} /\ newest = {}
  /\ missed = FALSE /\ unread = {} /\ shown = FALSE /\ told = FALSE

(* The cable is pulled or plugged. *)
SupplyChanges ==
  /\ main = "running" /\ supply' = ~supply
  /\ UNCHANGED <<vars, found, broadcast, log, reader>>

Later(old, new) == IF new = {} THEN old ELSE new

-----------------------------------------------------------------------------
(* The thread. *)
ProbePower ==
  /\ EndProbe(power) /\ power_ac_state' = supply
  /\ UNCHANGED <<supply, ac_prev, broadcast, log, reader>>

(* The poll begins, perhaps in a new log.  Any poll but one that does may  *)
(* be a broadcast.                                                         *)
BeginPoll ==
  /\ Begin /\ record' = {}
  /\ \/ broadcast' = TRUE /\ newest' = {} /\ unread' = {} /\ told' = FALSE
     \/ UNCHANGED <<broadcast, newest, unread, told>>
  /\ missed' = (missed /\ ~broadcast')
  /\ UNCHANGED <<supply, found, shown>>

(* Deliberately wrong: a broadcast writes what has changed, and no more.   *)
NewsOfChanges(ac) == IF ac # ac_prev THEN {ac} ELSE {}

(* What is written of the power supply: always at a broadcast.             *)
News(ac) == IF broadcast \/ ac # ac_prev THEN {ac} ELSE {}

(* Deliberately wrong: a refresh is not remembered. *)
RememberedNot(ac) == IF broadcast THEN ac_prev ELSE ac

Remembered(ac) == ac

(* enigmatic_monitor_power with the lock. *)
VisitPower ==
  /\ EndVisit /\ Inside(power)
  /\ record' = News(power_ac_state) /\ ac_prev' = Remembered(power_ac_state)
  /\ UNCHANGED <<supply, power_ac_state, broadcast, newest, missed, reader>>

(* enigmatic_monitor_power without it. *)
MissPower ==
  /\ Visit /\ Visits[visit] = power /\ lock[power] # Nobody
  /\ missed' = (missed \/ broadcast)
  /\ UNCHANGED <<supply, found, broadcast, record, newest, reader>>

(* The records of the poll reach the log together. *)
EndPoll ==
  /\ Write
  /\ newest' = Later(newest, record) /\ unread' = Later(unread, record)
  /\ broadcast' \in BOOLEAN /\ record' = {}
  /\ UNCHANGED <<supply, found, missed, shown, told>>

(* Everything else the threads do. *)
OtherSteps ==
  /\ \/ Cancel \/ Stop \/ Check \/ Wake
     \/ EndVisit /\ ~Inside(power)
     \/ Visit /\ (Visits[visit] # power \/ lock[power] = Nobody)
     \/ \E m \in Monitors : Naps(m) \/ (m # power /\ EndProbe(m))
  /\ UNCHANGED power_vars

-----------------------------------------------------------------------------
(* A client is opened, at the start of the log.                            *)
Open ==
  /\ main = "running" /\ unread' = newest /\ shown' = FALSE /\ told' = FALSE
  /\ UNCHANGED <<vars, supply, found, broadcast, log>>

(* message_power *)
Read ==
  /\ unread # {} /\ shown' \in unread /\ told' = TRUE /\ unread' = {}
  /\ UNCHANGED <<vars, supply, found, broadcast, log>>

PowerNext ==
  \/ SupplyChanges \/ ProbePower \/ BeginPoll \/ VisitPower \/ MissPower
  \/ EndPoll \/ OtherSteps \/ Open \/ Read

PowerSpec == PowerInit /\ [][PowerNext]_all_vars /\ Fairness

-----------------------------------------------------------------------------
(* A client that has read all there is, and was told of the power supply   *)
(* since the log or the client began, shows what the logger saw last.      *)
PowerAgrees ==
  told /\ unread = {} /\ record = {} => shown = ac_prev

(* Every broadcast, and so the first poll of every log, says whether there *)
(* is a power supply, unless the thread had the lock when the logger came: *)
(* nothing else keeps the clients of a new log in the dark.                *)
BroadcastTells == logger = "write" /\ broadcast => record # {} \/ missed
=============================================================================
