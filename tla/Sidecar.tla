-------------------------------- MODULE Sidecar --------------------------------
(***************************************************************************)
(* The sidecar: the Node.js process of sidecar/src, index.ts (express) and *)
(* identity.ts (the IOTA library).                                         *)
(*                                                                         *)
(* Node runs one callback at a time, so a handler is atomic up to its      *)
(* await; checks of several requests are in flight between the two halves  *)
(* of POST /verify.  The process has no state but those.  It is not        *)
(* started again by itself ("# restart: always" in docker-compose.yml).    *)
(*                                                                         *)
(* A socket is one connection; open says whether the client still holds    *)
(* its end, task what the server does for it, wire the answer on its way.  *)
(***************************************************************************)
EXTENDS Integers, FiniteSets, PresentationVerification

CONSTANTS Sockets,    \* the connections the process can have
          Requests,   \* what clients send
          NoRequest, NoAnswer

(* A request to the sidecar: POST /verify with a presentation, for which   *)
(* the library would report the flags in defects; with a JSON body without *)
(* a proof (also the {} of a body that is not JSON); with a body that      *)
(* cannot be parsed; or GET /health.                                       *)
Request == [kind : {"presentation", "proofless", "unparsable", "health"},
            defects : SUBSET Flags]

ASSUME SidecarAssumption ==
    /\ Requests \subseteq Request
    /\ NoRequest \notin Requests
    /\ NoAnswer \notin Answer

VARIABLES process,  \* "down": not started yet, or killed; "exited": by itself;
                    \* "binding": the script has run; "listening"
          open,     \* sockets whose client has not closed its end
          task,     \* per socket: what the server does, "gone": its end is closed
          request,  \* per socket: the request being served
          wire      \* per socket: an answer the client has not read

sidecarVars == <<process, open, task, request, wire>>

SidecarTypeOK ==
    /\ process \in {"down", "exited", "binding", "listening"}
    /\ open \subseteq Sockets
    /\ task \in [Sockets -> {"none", "received", "checking", "gone"}]
    /\ request \in [Sockets -> Requests \cup {NoRequest}]
    /\ wire \in [Sockets -> SidecarAnswers \cup {NoAnswer}]

SidecarInit ==
    /\ process = "down"
    /\ open = {}
    /\ task = [c \in Sockets |-> "none"]
    /\ request = [c \in Sockets |-> NoRequest]
    /\ wire = [c \in Sockets |-> NoAnswer]

-------------------------------------------------------------------------------
(* What a start finds: identity.ts builds the client of the library when   *)
(* it is imported, which may throw; PORT comes from the environment or     *)
(* from the file .env.                                                     *)
Environment == [client : BOOLEAN, port : {"missing", "invalid", "number"}]

(* The script: exit(1) without PORT, an exception of listen for NaN.  The  *)
(* routes are registered in the same turn of the event loop as listen, so  *)
(* no connection meets an application without them.                        *)
Load ==
    /\ process \in {"down", "exited"}
    /\ \E e \in Environment :
           process' = IF e.client /\ e.port = "number" THEN "binding" ELSE "exited"
    /\ UNCHANGED <<open, task, request, wire>>

(* The port is bound, or it is in use: an error event without a listener   *)
(* ends the process.                                                       *)
Listen ==
    /\ process = "binding"
    /\ process' \in {"listening", "exited"}
    /\ UNCHANGED <<open, task, request, wire>>

(* The process ends, and with it its ends of the connections.              *)
Die(status) ==
    /\ process' = status
    /\ task' = [c \in Sockets |-> IF c \in open THEN "gone" ELSE "none"]
    /\ request' = [c \in Sockets |-> NoRequest]

Kill ==
    /\ process \in {"binding", "listening"}
    /\ Die("down")
    /\ UNCHANGED <<open, wire>>

-------------------------------------------------------------------------------
(* res.send: nobody gets it if the client has closed its end meanwhile.    *)
Reply(c, a) ==
    /\ wire' = IF c \in open THEN [wire EXCEPT ![c] = a] ELSE wire
    /\ task' = [task EXCEPT ![c] = "none"]
    /\ request' = [request EXCEPT ![c] = NoRequest]
    /\ UNCHANGED <<process, open>>

Received(c, kind) == task[c] = "received" /\ request[c].kind = kind

(* express.json() rejects the body: status 400 and a page in HTML.         *)
Unparsable(c) == Received(c, "unparsable") /\ Reply(c, Flagless("unreachable"))

(* The process says UP whatever the checks do.                             *)
Health(c) == Received(c, "health") /\ Reply(c, Flagless("error"))

(* Mutation: the challenge is read before the try block.  The promise of   *)
(* the handler is rejected with nobody to handle it, which ends a Node     *)
(* process.                                                                *)
VerifyUncaught(c) ==
    /\ Received(c, "proofless")
    /\ Die("exited")
    /\ UNCHANGED <<open, wire>>

(* presentation.proof.challenge is a TypeError inside the try block.       *)
VerifyProofless(c) == Received(c, "proofless") /\ Reply(c, Flagless("error"))

(* check up to its await.                                                  *)
Verify(c) ==
    /\ Received(c, "presentation")
    /\ task' = [task EXCEPT ![c] = "checking"]
    /\ UNCHANGED <<process, open, request, wire>>

(* Mutation: requests that arrive while a check is in flight share it.     *)
VerifyEndsShared(c) ==
    /\ task[c] = "checking"
    /\ \E d \in Sockets :
           task[d] = "checking" /\ Reply(c, Result(request[d].defects))

(* Mutation: the flags that are known so far go into the error answer.     *)
VerifyEndsMixed(c) ==
    /\ task[c] = "checking"
    /\ \E kind \in {"result", "error"} :
           Reply(c, [kind |-> kind, failing |-> request[c].defects])

(* The library has resolved the DIDs and checked, or has thrown; the       *)
(* handler goes on with the outcome of its own check.                      *)
VerifyEnds(c) ==
    /\ task[c] = "checking"
    /\ \/ Reply(c, Result(request[c].defects))
       \/ Reply(c, Flagless("error"))

Serve(c) ==
    \/ Unparsable(c) \/ Health(c)
    \/ VerifyProofless(c) \/ Verify(c) \/ VerifyEnds(c)

SidecarNext == Load \/ Listen \/ Kill \/ \E c \in Sockets : Serve(c)
===============================================================================
