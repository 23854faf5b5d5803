------------------------------ MODULE Lifecycle ------------------------------
(***************************************************************************)
(* The program from start to end: the order in which main starts the       *)
(* threads and what it waits for, its two signal handlers, and the service *)
(* manager and RNBO, which come and go beside it.                          *)
(*                                                                         *)
(* pthread_create may fail, which start() does not tell its caller.        *)
(* SIGINT and SIGSEGV may come between any two steps.                      *)
(***************************************************************************)
EXTENDS Naturals

VARIABLES
  process,    \* where the process is in its life
  program,    \* what main and its threads have come to
  rnbo_up,    \* RNBO runs (and answers on its HTTP port)
  registered  \* and sends what it has to say to the program's port

lifecycle == <<process, program, rnbo_up, registered>>

(* main is a place in main(): about to fetch the configuration, to start   *)
(* the OSC sender, to construct the others, to start the listener, to      *)
(* start the serial thread, waiting for its descriptor, sleeping, and      *)
(* returning.  osc_sender and serial are what these threads have done so   *)
(* far; configured says that the configuration was read.                   *)
Fresh == [main |-> "config", running |-> TRUE, osc_sender |-> "none",
          listener |-> FALSE, serial |-> "none", configured |-> FALSE]

LifecycleInit ==
  /\ process = "up" /\ program = Fresh
  /\ rnbo_up \in BOOLEAN /\ registered = FALSE

Running == process = "up"

At(here) == Running /\ program.main = here

Alone == UNCHANGED <<process, rnbo_up, registered>>

(* What may become of a thread that start() creates: it may fail.          *)
Started(state) == {state, "none"}

-----------------------------------------------------------------------------
(* main                                                                    *)

(* loadConfig; nothing comes of it if RNBO does not answer, or not well.   *)
LoadConfig ==
  /\ At("config")
  /\ \E read \in {FALSE, rnbo_up} :
       program' = [program EXCEPT !.main = "sender", !.configured = read]
  /\ Alone

StartSender ==
  /\ At("sender")
  /\ \E state \in Started("starting") :
       program' = [program EXCEPT !.main = "others", !.osc_sender = state]
  /\ Alone

ConstructOthers ==
  /\ At("others")
  /\ program' = [program EXCEPT !.main = "listener"]
  /\ Alone

StartListener ==
  /\ At("listener")
  /\ \E created \in BOOLEAN :
       program' = [program EXCEPT !.main = "serial", !.listener = created]
  /\ Alone

StartSerial ==
  /\ At("serial")
  /\ \E state \in Started("opening") :
       program' = [program EXCEPT !.main = "wait", !.serial = state]
  /\ Alone

(* The descriptor is there; the serial sender and the pinger are started,  *)
(* on which nothing depends here.                                          *)
GotDescriptor ==
  /\ At("wait") /\ program.serial \in {"reading", "closed"}
  /\ program' = [program EXCEPT !.main = "sleep"]
  /\ Alone

StopSleeping ==
  /\ At("sleep") /\ ~program.running
  /\ program' = [program EXCEPT !.main = "return"]
  /\ Alone

(* The objects are destroyed while the threads use them: a condition       *)
(* variable with a waiter, a joinable thread.                              *)
Return ==
  /\ At("return")
  /\ process' \in {"ended", "crashing", "failed", "hung"}
  /\ UNCHANGED <<program, rnbo_up, registered>>

Main ==
  \/ LoadConfig \/ StartSender \/ ConstructOthers \/ StartListener
  \/ StartSerial \/ GotDescriptor \/ StopSleeping \/ Return

-----------------------------------------------------------------------------
(* The threads.                                                            *)

(* addRNBOListenter, once.                                                 *)
Register ==
  /\ Running /\ program.osc_sender = "starting"
  /\ program' = [program EXCEPT !.osc_sender = "serving"]
  /\ \E arrives \in {FALSE, rnbo_up} : registered' = (registered \/ arrives)
  /\ UNCHANGED <<process, rnbo_up>>

(* Mutation of OpenPort: no descriptor is published if there is no port.   *)
OpenPort_OnlyGood ==
  /\ Running /\ program.serial = "opening"
  /\ \E state \in {"reading", "failed"} :
       program' = [program EXCEPT !.serial = state]
  /\ Alone

(* The descriptor is published in any case; without a port it is -1 and    *)
(* the thread ends.                                                        *)
OpenPort ==
  /\ Running /\ program.serial = "opening"
  /\ \E state \in {"reading", "closed"} :
       program' = [program EXCEPT !.serial = state]
  /\ Alone

(* The listener reads the configuration again when RNBO has loaded a set.  *)
Reload ==
  /\ Running /\ program.listener /\ rnbo_up
  /\ program' = [program EXCEPT !.configured = TRUE]
  /\ Alone

-----------------------------------------------------------------------------
(* Signals.                                                                *)

(* What the threads still do until the handler exits, they might have done *)
(* before the crash.                                                       *)
Crash ==
  /\ process = "up"
  /\ process' = "crashing"
  /\ UNCHANGED <<program, rnbo_up, registered>>

(* Mutation of handle_sigint: the threads are stopped and joined, as in    *)
(* the lines that are commented out there.                                 *)
handle_sigint_Joins ==
  /\ process = "up"
  /\ program' = [program EXCEPT !.running = FALSE]
  /\ process' = IF program.main \in {"config", "sender"} THEN "up" ELSE "hung"
  /\ UNCHANGED <<rnbo_up, registered>>

(* Before there is a sender main goes on, and finds out in its loop.  A    *)
(* sender without a handle, and then the pinger's handle, which nothing    *)
(* ever assigns, are null pointers.  In between, SIGKILL for the sender's  *)
(* thread ends the process; if it was not created, its handle may be       *)
(* anything.                                                               *)
handle_sigint ==
  /\ process = "up"
  /\ program' = [program EXCEPT !.running = FALSE]
  /\ process' \in CASE program.main = "config" -> {"up"}
                    [] program.main = "sender" -> {"up", "crashing"}
                    [] program.main = "others" ->
                         IF program.osc_sender = "none"
                         THEN {"up", "crashing", "failed"} ELSE {"failed"}
                    [] OTHER -> {"crashing"}
  /\ UNCHANGED <<rnbo_up, registered>>

(* Mutation of handler_sigsev: it exits as if nothing were wrong.          *)
handler_sigsev_Success ==
  /\ process = "crashing"
  /\ process' = "ended"
  /\ UNCHANGED <<program, rnbo_up, registered>>

(* exit(1), after the debugger's stack trace.                              *)
handler_sigsev ==
  /\ process = "crashing"
  /\ process' = "failed"
  /\ UNCHANGED <<program, rnbo_up, registered>>

-----------------------------------------------------------------------------
(* Around the program.                                                     *)

(* The service is declared with Restart=on-failure.                        *)
Restart ==
  /\ process = "failed"
  /\ process' = "up" /\ program' = Fresh
  /\ UNCHANGED <<rnbo_up, registered>>

(* Somebody starts it (having killed it if it hangs).                      *)
StartAgain ==
  /\ process \in {"ended", "hung"}
  /\ process' = "up" /\ program' = Fresh
  /\ UNCHANGED <<rnbo_up, registered>>

RnboStarts == ~rnbo_up /\ rnbo_up' = TRUE /\ UNCHANGED <<process, program, registered>>

RnboStops ==
  /\ rnbo_up
  /\ rnbo_up' = FALSE /\ registered' = FALSE
  /\ UNCHANGED <<process, program>>

-----------------------------------------------------------------------------
Progress == Main \/ Register \/ OpenPort \/ handler_sigsev \/ Restart

LifecycleNext ==
  \/ Progress \/ Reload \/ Crash \/ handle_sigint
  \/ StartAgain \/ RnboStarts \/ RnboStops

Programs ==
  [main : {"config", "sender", "others", "listener", "serial", "wait", "sleep",
           "return"},
   running : BOOLEAN, osc_sender : {"none", "starting", "serving"},
   listener : BOOLEAN, serial : {"none", "opening", "reading", "closed"},
   configured : BOOLEAN]

LifecycleTypeOK ==
  /\ process \in {"up", "crashing", "failed", "ended", "hung"}
  /\ program \in Programs
  /\ rnbo_up \in BOOLEAN /\ registered \in BOOLEAN

(* main waits for a serial thread that could not be created.               *)
WaitsInVain == At("wait") /\ program.serial = "none"

(* A program that failed is back, and one that starts comes to where its   *)
(* threads serve: with or without a serial port and RNBO main passes its   *)
(* busy wait.  Only a thread that was not created, another crash or SIGINT *)
(* prevents that.                                                          *)
StartupCompletes ==
  /\ process \in {"crashing", "failed"} ~> At("config")
  /\ At("config") ~>
       At("sleep") \/ WaitsInVain \/ process = "crashing" \/ ~program.running

Ignored == process \in {"up", "hung"} /\ ~program.running

(* A SIGINT ends the program whenever it comes, though the handler does it *)
(* by a null pointer that it sends a signal through.  Only main may wait   *)
(* in vain then or, if there was no thread yet, hang as it destroys what   *)
(* threads wait for.                                                       *)
SigintIsObeyed ==
  Ignored ~>
    ~Ignored \/ WaitsInVain \/ (process = "hung" /\ program.main = "return")
=============================================================================
