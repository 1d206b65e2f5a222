-------------------------------- MODULE Rpc --------------------------------
(***************************************************************************)
(* Remote system calls (proxy/rpmsg_retarget.c): _open, _read, _write and  *)
(* _close send a request and wait on the flag nacked until the endpoint    *)
(* callback has stored the answer in a buffer on their stack.  The         *)
(* callback runs in another context, or inside the caller's poll function. *)
(* Messages from the host arrive in the order in which it sent them.       *)
(***************************************************************************)
EXTENDS Naturals, Sequences, SequencesExt

CONSTANTS Syscalls,     \* the ids of the calls, OPEN_SYSCALL_ID and so on
          Serials       \* calls are told apart by serials 1 .. Serials, reused

ASSUME RpcAssumption == Serials \in Nat \ {0, 1}

NoCall == 0             \* respbuf = NULL, and the resp.id = 0 of a caller

VARIABLES rpcPc,        \* where the caller is; "off" without a session
          rpcCall,      \* the last call: [ser, id, ret]
          respbuf,      \* serial of the call whose buffer rpc->respbuf is
          respGot,      \* what the caller's resp holds: an answer, or NoAnswer
          nacked,       \* rpc->nacked
          eptState,     \* "none", "bound" or "unbound": the endpoint
          eptDestroyed, \* rpc->ept_destroyed
          cbPc,         \* the endpoint callback: "none" or "copied"
          toHost,       \* requests the host has not taken
          fromHost,     \* messages of the host
          hostUp,       \* the host has its end of the channel
          terminated

rpcVars == <<rpcPc, rpcCall, respbuf, respGot, nacked, eptState, eptDestroyed,
             cbPc, toHost, fromHost, hostUp, terminated>>

NoAnswer == [ser |-> NoCall, id |-> NoCall]

RpcInit ==
  /\ rpcPc = "off" /\ rpcCall = [ser |-> 0, id |-> NoCall, ret |-> NoAnswer]
  /\ respbuf = NoCall /\ respGot = NoAnswer /\ nacked = FALSE
  /\ eptState = "none" /\ eptDestroyed = FALSE /\ cbPc = "none"
  /\ toHost = <<>> /\ fromHost = <<>> /\ hostUp = FALSE
  /\ terminated = FALSE
-----------------------------------------------------------------------------
(***************************************************************************)
(* The session.                                                            *)
(***************************************************************************)
\* rpmsg_rpc_init up to its loop; created says whether rpmsg_create_ept
\* succeeds.  The host takes the announcement, which brings up its end, after
\* the requests before it, which found no endpoint any more.
RpcSessionInit(created) ==
  /\ rpcPc = "off"
  /\ eptDestroyed' = FALSE /\ respbuf' = NoCall /\ nacked' = TRUE
  /\ eptState' = IF created THEN "unbound" ELSE "none"
  /\ hostUp' = created /\ fromHost' = IF created THEN Append(fromHost, [kind |-> "bind"]) ELSE fromHost
  /\ toHost' = <<>>
  /\ rpcPc' = IF created THEN "init" ELSE "off"
  /\ terminated' = FALSE
  /\ UNCHANGED <<rpcCall, respGot, cbPc>>

EptReady == eptState = "bound"

\* The loop of rpmsg_rpc_init goes on, ...
StillNotReady == rpcPc = "init" /\ ~EptReady /\ UNCHANGED rpcVars

\* ... or ends.
RpcSessionReady ==
  /\ rpcPc = "init" /\ EptReady
  /\ rpcPc' = "idle"
  /\ UNCHANGED <<rpcCall, respbuf, respGot, nacked, eptState, eptDestroyed,
                 cbPc, toHost, fromHost, hostUp, terminated>>

\* rpmsg_destroy_ept: the host hears of it and sends nothing more.
DestroyEndpoint ==
  /\ eptState' = "none"
  /\ hostUp' = FALSE

\* rpmsg_rpc_release.
RpcRelease ==
  /\ rpcPc = "idle" /\ cbPc = "none"
  /\ IF eptDestroyed THEN UNCHANGED <<eptState, hostUp>> ELSE DestroyEndpoint
  /\ respbuf' = NoCall
  /\ rpcPc' = "off"
  /\ UNCHANGED <<rpcCall, respGot, nacked, eptDestroyed, cbPc, toHost, fromHost,
                 terminated>>
-----------------------------------------------------------------------------
(***************************************************************************)
(* The caller: _open, _read, _write and _close around rpmsg_rpc_send.      *)
(***************************************************************************)
\* The request is built, resp.id = 0, and the buffer is stored under buflock.
Syscall(id) ==
  /\ rpcPc = "idle" /\ cbPc = "none"
  /\ rpcCall' = [ser |-> (rpcCall.ser % Serials) + 1, id |-> id, ret |-> NoAnswer]
  /\ respGot' = NoAnswer
  /\ respbuf' = rpcCall'.ser
  /\ rpcPc' = "flag"
  /\ UNCHANGED <<nacked, eptState, eptDestroyed, cbPc, toHost, fromHost, hostUp,
                 terminated>>

\* Mutant: the flag is left for the wait loop to set.
SetNackedNot ==
  /\ rpcPc = "flag"
  /\ nacked' = FALSE
  /\ rpcPc' = "send"
  /\ UNCHANGED <<rpcCall, respbuf, respGot, eptState, eptDestroyed, cbPc, toHost,
                 fromHost, hostUp, terminated>>

SetNacked ==
  /\ rpcPc = "flag"
  /\ nacked' = TRUE
  /\ rpcPc' = "send"
  /\ UNCHANGED <<rpcCall, respbuf, respGot, eptState, eptDestroyed, cbPc, toHost,
                 fromHost, hostUp, terminated>>

\* rpmsg_send fails without a buffer, an endpoint or a destination.
SendRequest(sent) ==
  /\ rpcPc = "send" /\ (sent => EptReady)
  /\ toHost' = IF sent THEN Append(toHost, [ser |-> rpcCall.ser, id |-> rpcCall.id]) ELSE toHost
  /\ rpcPc' = IF sent THEN "wait" ELSE "idle"
  /\ UNCHANGED <<rpcCall, respbuf, respGot, nacked, eptState, eptDestroyed, cbPc,
                 fromHost, hostUp, terminated>>

\* atomic_flag_test_and_set in the loop: it is still set, ...
StillNacked == rpcPc = "wait" /\ nacked /\ UNCHANGED rpcVars

\* ... or the answer is there, and counts when its id is that of the call.
Acked ==
  /\ rpcPc = "wait" /\ ~nacked
  /\ nacked' = TRUE
  /\ rpcCall' = [rpcCall EXCEPT !.ret = IF respGot.id = rpcCall.id THEN respGot ELSE NoAnswer]
  /\ rpcPc' = "idle"
  /\ UNCHANGED <<respbuf, respGot, eptState, eptDestroyed, cbPc, toHost, fromHost,
                 hostUp, terminated>>
-----------------------------------------------------------------------------
(***************************************************************************)
(* What arrives from the host.                                             *)
(***************************************************************************)
Arrived(kind) ==
  /\ cbPc = "none" /\ fromHost # <<>> /\ Head(fromHost).kind = kind
  /\ fromHost' = Tail(fromHost)

\* The name service has found the host's endpoint.
BindCb ==
  /\ Arrived("bind")
  /\ eptState' = IF eptState = "unbound" THEN "bound" ELSE eptState
  /\ UNCHANGED <<rpcPc, rpcCall, respbuf, respGot, nacked, eptDestroyed, cbPc,
                 toHost, hostUp, terminated>>

\* Mutant: the caller is released before its buffer is filled.
EptCbCopyReleases ==
  /\ Arrived("answer")
  /\ respGot' = respGot /\ nacked' = FALSE
  /\ cbPc' = IF eptState = "none" THEN "none" ELSE "copied"
  /\ UNCHANGED <<rpcPc, rpcCall, respbuf, eptState, eptDestroyed, toHost,
                 hostUp, terminated>>

\* rpmsg_rpc_ept_cb copies the answer; buflock is held until EptCbAck.  A
\* message for a destroyed endpoint finds no callback.
EptCbCopy ==
  /\ Arrived("answer")
  /\ LET ans == [ser |-> Head(fromHost).ser, id |-> Head(fromHost).id]
     IN  respGot' = IF eptState # "none" /\ respbuf = rpcCall.ser THEN ans ELSE respGot
  /\ cbPc' = IF eptState = "none" THEN "none" ELSE "copied"
  /\ UNCHANGED <<rpcPc, rpcCall, respbuf, nacked, eptState, eptDestroyed, toHost,
                 hostUp, terminated>>

EptCbAck ==
  /\ cbPc = "copied"
  /\ nacked' = FALSE
  /\ cbPc' = "none"
  /\ UNCHANGED <<rpcPc, rpcCall, respbuf, respGot, eptState, eptDestroyed, toHost,
                 fromHost, hostUp, terminated>>

\* rpmsg_rpc_ept_cb for TERM_SYSCALL_ID: the endpoint goes, the flag stays.
TermCb ==
  /\ Arrived("term")
  /\ IF eptState # "none" THEN DestroyEndpoint ELSE UNCHANGED <<eptState, hostUp>>
  /\ terminated' = TRUE
  /\ UNCHANGED <<rpcPc, rpcCall, respbuf, respGot, nacked, eptDestroyed, cbPc,
                 toHost>>

\* Mutant: the waiting caller is not released.
UnbindCbKeepsFlag ==
  /\ Arrived("unbind")
  /\ IF eptState = "none" THEN UNCHANGED <<eptDestroyed, eptState, hostUp>>
     ELSE eptDestroyed' = TRUE /\ DestroyEndpoint
  /\ UNCHANGED <<rpcPc, rpcCall, respbuf, respGot, nacked, cbPc, toHost, terminated>>

\* The name service drops the binding and calls rpmsg_service_unbind.
UnbindCb ==
  /\ Arrived("unbind")
  /\ IF eptState = "none" THEN UNCHANGED <<eptDestroyed, eptState, hostUp, nacked>>
     ELSE eptDestroyed' = TRUE /\ DestroyEndpoint /\ nacked' = FALSE
  /\ UNCHANGED <<rpcPc, rpcCall, respbuf, respGot, cbPc, toHost, terminated>>

\* The host answers each request once, in order, ...
HostAnswers ==
  /\ toHost # <<>>
  /\ toHost' = Tail(toHost)
  /\ fromHost' = IF hostUp THEN Append(fromHost, [kind |-> "answer", ser |-> Head(toHost).ser, id |-> Head(toHost).id])
                 ELSE fromHost
  /\ UNCHANGED <<rpcPc, rpcCall, respbuf, respGot, nacked, eptState, eptDestroyed,
                 cbPc, hostUp, terminated>>

\* ... until it ends the session or destroys its endpoint.
HostLeaves(kind) ==
  /\ hostUp /\ eptState = "bound"
  /\ hostUp' = FALSE
  /\ fromHost' = Append(fromHost, [kind |-> kind])
  /\ UNCHANGED <<rpcPc, rpcCall, respbuf, respGot, nacked, eptState, eptDestroyed,
                 cbPc, toHost, terminated>>

FromHost == BindCb \/ EptCbCopy \/ EptCbAck \/ TermCb \/ UnbindCb
CallerStep == SetNacked \/ SendRequest(TRUE) \/ SendRequest(FALSE) \/ StillNacked \/ Acked
              \/ StillNotReady \/ RpcSessionReady

RpcNext ==
  \/ \E b \in BOOLEAN : RpcSessionInit(b)
  \/ \E id \in Syscalls : Syscall(id)
  \/ CallerStep \/ RpcRelease
  \/ FromHost \/ HostAnswers
  \/ HostLeaves("term") \/ HostLeaves("unbind")

RpcSpec == RpcInit /\ [][RpcNext]_rpcVars
-----------------------------------------------------------------------------
\* rpc->respbuf is not cleared when a call returns and then points into a dead
\* stack frame: whenever an answer is on its way to a living endpoint the call
\* that it belongs to is still waiting for it.
FrameLive ==
  eptState # "none" =>
    /\ \A k \in DOMAIN fromHost :
         fromHost[k].kind = "answer" =>
           respbuf = fromHost[k].ser /\ rpcCall.ser = respbuf /\ rpcPc = "wait"
    /\ cbPc = "copied" => rpcPc = "wait"

\* A system call that returns while the session lasts returns the answer to
\* its own request: not the one before, and not before rpmsg_rpc_ept_cb has
\* filled the buffer; and the buffer is there as long as an answer may come.
AnswerIsOwn ==
  [][ /\ FrameLive'
      /\ (rpcPc = "wait" /\ rpcPc' = "idle" /\ ~eptDestroyed
          => rpcCall'.ret.ser = rpcCall.ser /\ rpcCall'.ret.id = rpcCall.id) ]_rpcVars

\* rpmsg_rpc_send returns when the host answers or destroys its endpoint, also
\* when that happens before the wait loop is entered.  (A TERM message destroys
\* the endpoint and leaves the caller in its loop.)
CallEnds == rpcPc = "wait" ~> rpcPc # "wait" \/ terminated
=============================================================================
