--------------------------- MODULE NcrSender ---------------------------
(***************************************************************************)
(* How the DHCP server hands name change requests to bundy-dhcp-ddns:      *)
(* NameChangeSender and NameChangeUDPSender of src/lib/dhcp_ddns under     *)
(* D2ClientMgr of src/lib/dhcpsrv.  The module has no state: a sender is a *)
(* record                                                                  *)
(*   enabled   d2_client_config_->getEnableUpdates()                       *)
(*   sending   sending_: the socket is open, and its watch socket is       *)
(*             registered with the server's select loop                    *)
(*   queue     send_queue_                                                 *)
(*   busy      ncr_to_send_ is set: the first element of the queue is with *)
(*             the socket                                                  *)
(*   unsent    how many requests were accepted and not sent yet            *)
(* Requests are numbered in the order they are accepted, from the oldest   *)
(* that has not been sent; what they say is left out.  The count unsent is *)
(* history: no code reads it.  The UDP socket is external: a send          *)
(* succeeds, fails or, when the sender is stopped first, is never heard of *)
(* again.                                                                  *)
(***************************************************************************)
EXTENDS Naturals, Sequences

CONSTANT MaxSendQueue    \* send_queue_max_

ASSUME SendQueueAssumption == MaxSendQueue \in Nat \ {0}

\* What may become of a send that is under way when the sender is stopped.
SendResults(s) == IF s.busy THEN {"SUCCESS", "ERROR", "STOPPED"} ELSE {"STOPPED"}

\* sendNext(): the request stays in the queue until it has been sent.
sendNext(s) == [s EXCEPT !.busy = s.busy \/ s.queue # <<>>]

\* Fault: a request whose send failed is removed too.
Completed_any(s, result) ==
    [s EXCEPT !.queue = Tail(@), !.unsent = IF result = "SUCCESS" THEN @ - 1 ELSE @,
              !.busy = FALSE]

\* The part of invokeSendHandler() that removes a request that was sent.
Completed(s, result) ==
    IF result = "SUCCESS"
    THEN [s EXCEPT !.queue = [i \in 1 .. Len(@) - 1 |-> @[i + 1] - 1],
                   !.unsent = @ - 1, !.busy = FALSE]
    ELSE [s EXCEPT !.busy = FALSE]

\* stopSending(), as called by D2ClientMgr::stopSender(): it gives a send that
\* is under way the chance to complete, without starting the next one.  Of the
\* error handler only enableUpdates(false) has an effect at that point.
stopSender(s, result) ==
    LET stopped == [s EXCEPT !.sending = FALSE]
    IN  IF ~s.sending \/ ~s.busy \/ result = "STOPPED" THEN stopped
        ELSE [Completed(stopped, result)
                EXCEPT !.enabled = s.enabled /\ result = "SUCCESS"]

\* D2ClientMgr::suspendUpdates(), what d2ClientErrorHandler() does.
suspendUpdates(s, result) ==
    IF s.enabled THEN stopSender([s EXCEPT !.enabled = FALSE], result) ELSE s

\* invokeSendHandler() from the server's select loop.  The ready marker has
\* been cleared, so that stopSender finds nothing under way.
invokeSendHandler(s, result) ==
    IF result = "SUCCESS" THEN sendNext(Completed(s, result))
    ELSE Completed(suspendUpdates(s, "STOPPED"), result)

\* Fault: the queue takes one request more than its maximum.
sendRequest_over(s, result) ==
    IF ~s.sending THEN s
    ELSE IF Len(s.queue) > MaxSendQueue THEN suspendUpdates(s, result)
    ELSE sendNext([s EXCEPT !.queue = Append(@, s.unsent + 1), !.unsent = @ + 1])

\* D2ClientMgr::sendRequest() and NameChangeSender::sendRequest(): a request
\* that finds the queue full is lost, and with it all later ones.
sendRequest(s, result) ==
    IF ~s.sending THEN s
    ELSE IF Len(s.queue) >= MaxSendQueue THEN suspendUpdates(s, result)
    ELSE sendNext([s EXCEPT !.queue = Append(@, s.unsent + 1), !.unsent = @ + 1])

\* D2ClientMgr::setD2ClientConfig() with values that differ from the old ones:
\* a new sender takes over the queue, or there is no sender any more.
setD2ClientConfig(s, enable_updates, result) ==
    LET old == stopSender(s, result)
    IN  IF enable_updates
        THEN [old EXCEPT !.enabled = TRUE, !.busy = FALSE]
        ELSE [old EXCEPT !.enabled = FALSE, !.busy = FALSE, !.queue = <<>>,
                         !.unsent = 0]

\* Dhcpv4Srv::startD2(), D2ClientMgr::startSender() and startSending().
startD2(s, opens) ==
    IF s.enabled /\ ~s.sending /\ opens
    THEN sendNext([s EXCEPT !.sending = TRUE, !.busy = FALSE])
    ELSE s

=========================================================================
