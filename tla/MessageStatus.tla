--------------------------- MODULE MessageStatus ----------------------------
(***************************************************************************)
(* What becomes of a message that was sent: the carrier reports that it    *)
(* was sent and how that ended, each as a webhook that may arrive late,    *)
(* early, repeatedly and at the same time as another one.  A webhook reads *)
(* the row in one step and saves the four columns in another.              *)
(* A report that comes before the row is visible changes nothing, and is   *)
(* answered as if it had.                                                  *)
(***************************************************************************)
EXTENDS Naturals

CONSTANTS
    Texts,      \* messages accepted by the carrier
    Handlers,   \* webhooks
    NoText

Events == {"sent", "delivered", "delivery_failed", "errors"}
Rank(e) == IF e = "sent" THEN 1 ELSE 2

StatusRow == [status : {"sent", "delivered", "failed"}, error : BOOLEAN, delivered_at : BOOLEAN]
SentRow == [status |-> "sent", error |-> FALSE, delivered_at |-> FALSE]

ASSUME StatusAssumption == NoText \notin Events \cup StatusRow

VARIABLES
    text,       \* text[x]: the row, visible once the sending request committed
    reported,   \* reported[x]: what the carrier has reported
    handler,    \* handler[h]: the event and the row it read, if it is at work
    heard,      \* history: the last report that was saved
    jumbled     \* history: messages whose reports were handled out of order or at once

statusVars == <<text, reported, handler, heard, jumbled>>

StatusTypeOK ==
    /\ text \in [Texts -> StatusRow \cup {NoText}]
    /\ reported \in [Texts -> SUBSET Events]
    /\ handler \in [Handlers -> [of : Texts, event : Events, row : StatusRow] \cup {NoText}]
    /\ heard \in [Texts -> Events \cup {NoText}]
    /\ jumbled \subseteq Texts

StatusInit ==
    /\ text = [x \in Texts |-> NoText]
    /\ reported = [x \in Texts |-> {}]
    /\ handler = [h \in Handlers |-> NoText]
    /\ heard = [x \in Texts |-> NoText]
    /\ jumbled = {}

\* The sending request commits.  If it rolls back instead, no report finds a row.
TextVisible(x) ==
    /\ text[x] = NoText
    /\ text' = [text EXCEPT ![x] = SentRow]
    /\ UNCHANGED <<reported, handler, heard, jumbled>>

Report(x, e) ==
    /\ e \notin reported[x]
    /\ e = "sent" <=> reported[x] = {}
    /\ \A f \in reported[x] : Rank(f) < Rank(e)
    /\ reported' = [reported EXCEPT ![x] = @ \cup {e}]
    /\ UNCHANGED <<text, handler, heard, jumbled>>

Busy(x) == \E h \in Handlers : handler[h] # NoText /\ handler[h].of = x

FindText(h, x, e) ==
    /\ handler[h] = NoText /\ e \in reported[x] /\ text[x] # NoText
    /\ handler' = [handler EXCEPT ![h] = [of |-> x, event |-> e, row |-> text[x]]]
    /\ jumbled' = IF Busy(x) \/ (heard[x] # NoText /\ Rank(heard[x]) > Rank(e))
                  THEN jumbled \cup {x} ELSE jumbled
    /\ UNCHANGED <<text, reported, heard>>

\* Mutant: the errors are looked at last.
NewStatusErrorsLast(row, e) ==
    CASE e = "delivered" -> [row EXCEPT !.status = "delivered", !.delivered_at = TRUE]
      [] e = "delivery_failed" -> [row EXCEPT !.status = "failed"]
      [] OTHER -> [row EXCEPT !.status = "sent"]

NewStatus(row, e) ==
    CASE e = "errors" -> [row EXCEPT !.status = "failed", !.error = TRUE]
      [] e = "delivered" -> [row EXCEPT !.status = "delivered", !.delivered_at = TRUE]
      [] e = "delivery_failed" -> [row EXCEPT !.status = "failed"]
      [] OTHER -> [row EXCEPT !.status = "sent"]

SaveStatus(h) ==
    /\ handler[h] # NoText
    /\ LET x == handler[h].of IN
           /\ text' = [text EXCEPT ![x] = NewStatus(handler[h].row, handler[h].event)]
           /\ heard' = [heard EXCEPT ![x] = handler[h].event]
    /\ handler' = [handler EXCEPT ![h] = NoText]
    /\ UNCHANGED <<reported, jumbled>>

StatusNext ==
    \/ \E x \in Texts :
           \/ TextVisible(x)
           \/ \E e \in Events :
                  Report(x, e) \/ \E h \in Handlers : FindText(h, x, e)
    \/ \E h \in Handlers : SaveStatus(h)

StatusSpec == StatusInit /\ [][StatusNext]_statusVars

Final(e) ==
    [status |-> IF e \in {"sent", "delivered"} THEN e ELSE "failed",
     error |-> e = "errors", delivered_at |-> e = "delivered"]

\* The row says how the message ended as soon as one final report was handled, and goes
\* on saying it however often it is repeated, unless a report of being sent came later
\* or two reports were handled at once.
StatusAsReported ==
    \A x \in Texts :
        (text[x] # NoText /\ heard[x] # NoText /\ x \notin jumbled) =>
            text[x] = Final(heard[x])

=============================================================================
