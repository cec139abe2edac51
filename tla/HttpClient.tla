------------------------------ MODULE HttpClient ----------------------------
(***************************************************************************)
(* One call of X402HTTPClient.RequestWithPayment: the first request, what  *)
(* is made of a 402, and the paid request.  The body is the caller's       *)
(* io.Reader, which the transport reads as far as the server lets it; the  *)
(* server may answer anything at any time.                                 *)
(***************************************************************************)
EXTENDS Naturals, Sequences

CONSTANTS Bodies,         \* bound: the sizes of the caller's body
          MaxRequests     \* bound: requests of one call

VARIABLES pc,             \* the step of RequestWithPayment
          size,           \* the size of the caller's body
          unread,         \* what the caller's reader still holds
          sent,           \* history: the requests made, [paid, offered, answered]
          answer,         \* the last answer of the server
          result          \* what the caller got

httpVars == <<pc, size, unread, sent, answer, result>>

\* The PAYMENT-REQUIRED header: absent, not base64, not a PaymentRequired with
\* requirements, or one; and whether the body is one.
Headers == {"absent", "garbled", "empty", "good"}
Answers == [status : {200, 402, 500}, header : Headers, body : BOOLEAN]

NoAnswer == [status |-> 0, header |-> "absent", body |-> FALSE]

\* What the caller gets: the answer of the n-th request, an error, or both.
Result(n, err) == [response |-> n, error |-> err]
Nothing == Result(0, FALSE)

ASSUME BodiesAssumption == Bodies \subseteq Nat /\ MaxRequests \in Nat \ {0}

HttpInit == /\ pc = "first"
            /\ size \in Bodies
            /\ unread = size
            /\ sent = <<>>
            /\ answer = NoAnswer
            /\ result = Nothing

Return(res) == pc' = "done" /\ result' = res

\* Client.Do: the transport reads from the body until it ends or the server has
\* answered; the connection may fail at any point.
Do(paid, next) ==
  \E carried \in 0..unread, answered \in BOOLEAN :
    /\ unread' = unread - carried
    /\ sent' = Append(sent, [paid |-> paid, offered |-> unread, answered |-> answered])
    /\ \/ /\ answered
          /\ answer' \in Answers
          /\ pc' = next
          /\ UNCHANGED result
       \/ ~answered /\ Return(Result(0, TRUE)) /\ UNCHANGED answer

FirstRequest == /\ pc = "first"
                /\ Do(FALSE, "answered")
                /\ UNCHANGED size

\* parsePaymentRequired: a header that is not base64 ends the search, one without
\* requirements does not.
PaymentRequired(a) == \/ a.header = "good"
                      \/ a.header \in {"absent", "empty"} /\ a.body

\* Anything but an intelligible 402 goes to the caller.
Inspect == /\ pc = "answered"
           /\ IF answer.status = 402 /\ PaymentRequired(answer)
              THEN pc' = "pay" /\ UNCHANGED result
              ELSE Return(Result(Len(sent), FALSE))
           /\ UNCHANGED <<size, unread, sent, answer>>

\* mutant: a failure of HandlePayment returns the error alone
HandlePaymentDrops == /\ pc = "pay"
                      /\ \/ pc' = "retry" /\ UNCHANGED result
                         \/ Return(Result(0, TRUE))
                      /\ UNCHANGED <<size, unread, sent, answer>>

\* HandlePayment signs a payload, or fails: then the caller gets the 402 as well.
HandlePayment == /\ pc = "pay"
                 /\ \/ pc' = "retry" /\ UNCHANGED result
                    \/ Return(Result(Len(sent), TRUE))
                 /\ UNCHANGED <<size, unread, sent, answer>>

\* mutant: the paid request goes through the whole of RequestWithPayment
RetryRecursively == /\ pc = "retry"
                    /\ Len(sent) < MaxRequests
                    /\ Do(TRUE, "answered")
                    /\ UNCHANGED size

\* retryWithPayment: the same method, URL and reader, with the payment.
RetryWithPayment == /\ pc = "retry"
                    /\ Do(TRUE, "paid")
                    /\ UNCHANGED size

\* mutant: the caller gets the first response
ReturnFirst == /\ pc = "paid"
               /\ Return(Result(1, FALSE))
               /\ UNCHANGED <<size, unread, sent, answer>>

\* Its answer is the caller's, whatever it is.
ReturnPaid == /\ pc = "paid"
              /\ Return(Result(Len(sent), FALSE))
              /\ UNCHANGED <<size, unread, sent, answer>>

HttpNext == FirstRequest \/ Inspect \/ HandlePayment \/ RetryWithPayment \/ ReturnPaid

HttpSpec == HttpInit /\ [][HttpNext]_httpVars

-----------------------------------------------------------------------------
\* One call pays once: after a paid request, whatever its answer, no other request
\* is made, and none is paid that did not follow a 402.
PaysOnce == \A i \in DOMAIN sent : sent[i].paid <=> i > 1 /\ i = Len(sent)

\* The caller who paid gets the answer to what was paid for, or an error without
\* a response; never the 402 the payment answered.
PaidAnswerReturned ==
  pc = "done" /\ (\E i \in DOMAIN sent : sent[i].paid)
    => result \in {Result(Len(sent), FALSE), Result(0, TRUE)}

\* The caller can close the body of every response but one: nothing closes that of the
\* 402 that was paid for, and no other response is kept from the caller.
OnlyPaid402LeftOpen ==
  pc = "done" => \A i \in DOMAIN sent :
    sent[i].answered /\ i # result.response => i = 1 /\ Len(sent) = 2 /\ sent[2].paid

\* http_client.go: "RequestWithPayment makes request and retries with payment on
\* 402": the request that is paid for is the caller's request, with its body.
PaidBodyIntact == \A i \in DOMAIN sent : sent[i].paid => sent[i].offered = size
=============================================================================
