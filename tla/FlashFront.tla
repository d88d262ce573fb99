----------------------------- MODULE FlashFront -----------------------------
(***************************************************************************)
(* The buffer in front of an NVDIMM (class FrontBuffer, src/nvdimmsim/src) *)
(* with the channels to the host: one for both directions or one for each, *)
(* and perhaps one for the commands.  A transaction whose command and data *)
(* travel apart is passed on when both have arrived.                       *)
(***************************************************************************)
EXTENDS FlashFtl

VARIABLES
  requests, responses, commands,
  requestsSize, responsesSize,
  responseTrans, requestTrans, commandTrans, \* what the channels carry, or NoTransaction
  responseLeft, requestLeft, commandLeft,    \* CyclesLeft of the channels
  pendingData, pendingCommand                \* waiting for their data, for their command

frontVars == <<requests, responses, commands, requestsSize, responsesSize, responseTrans,
               requestTrans, commandTrans, responseLeft, requestLeft, commandLeft, pendingData,
               pendingCommand>>

FrontInit ==
  /\ requests = <<>> /\ responses = <<>> /\ commands = <<>>
  /\ requestsSize = 0 /\ responsesSize = 0
  /\ responseTrans = NoTransaction /\ requestTrans = NoTransaction /\ commandTrans = NoTransaction
  /\ responseLeft = 0 /\ requestLeft = 0 /\ commandLeft = 0
  /\ pendingData = <<>> /\ pendingCommand = <<>>

Minus(a, b) == IF a < b THEN 0 ELSE a - b      \* subtract_params

(***************************************************************************)
(* addTransaction.  The sizes are unsigned: a buffer smaller than a        *)
(* transaction would wrap, and is excluded.                                *)
(***************************************************************************)
ASSUME BuffersHoldAPage ==
  REQUEST_BUFFER_SIZE >= CommandBits + PageBits /\ RESPONSE_BUFFER_SIZE >= PageBits
SizeOf(t) == IF t.type = "DATA_READ" THEN CommandBits ELSE CommandBits + PageBits
FrontHasRoom(t) == requestsSize <= REQUEST_BUFFER_SIZE - SizeOf(t)
FrontAdds(t) ==
  /\ requests' = Append(requests, t)
  /\ commands' = IF setup.commands THEN Append(commands, t) ELSE commands
  /\ requestsSize' = requestsSize + SizeOf(t)
  /\ UNCHANGED <<responses, responsesSize, responseTrans, requestTrans, commandTrans, responseLeft,
                 requestLeft, commandLeft, pendingData, pendingCommand>>

(***************************************************************************)
(* Answers of the controller enter, the last one first, while there is     *)
(* room; the others stay.                                                  *)
(***************************************************************************)
RoomFor == (RESPONSE_BUFFER_SIZE - responsesSize) \div PageBits
LesserOf(a, b) == IF a < b THEN a ELSE b
Entering(answers) == SubSeq(Reverse(answers), 1, LesserOf(RoomFor, Len(answers)))
FrontTakes(answers) ==
  /\ responses' = responses \o Entering(answers)
  /\ responsesSize' = responsesSize + Len(Entering(answers)) * PageBits

-----------------------------------------------------------------------------
(***************************************************************************)
(* The cycles a transaction needs on a channel for requests: nothing but   *)
(* the data of a write when the command goes elsewhere.                    *)
(***************************************************************************)
DataCycles(t) ==
  CASE t.type = "RETURN_DATA" -> FrontPage
    [] t.type = "DATA_READ" -> IF setup.commands THEN 1 ELSE FrontCommand
    [] t.type = "DATA_WRITE" -> IF setup.commands THEN FrontPage ELSE FrontPage + FrontCommand
LeftAfter(left, cycles) == (IF left = 0 THEN cycles ELSE left) - 1

(***************************************************************************)
(* sendToFTL.  A full queue makes the transaction stay; a layer in panic   *)
(* mode ends the program.                                                  *)
(***************************************************************************)
SendToFtl(t) ==
  /\ readQueue' = IF FtlHasRoom /\ ~panic THEN Append(readQueue, t) ELSE readQueue
  /\ complaint' = IF panic THEN "added in panic mode" ELSE complaint
SendNothing == UNCHANGED <<readQueue, complaint>>

(***************************************************************************)
(* A transaction t has arrived on a channel.  Without a channel for        *)
(* commands it goes on; otherwise it goes on with the first of its address *)
(* that waits for it in `waiting`, or waits itself.                        *)
(***************************************************************************)
Partners(t, waiting) == {i \in 1 .. Len(waiting) : waiting[i].vAddr = t.vAddr}
GoesOn(t, waiting) == ~setup.commands \/ Partners(t, waiting) # {}
Stays(t, waiting) == GoesOn(t, waiting) /\ (panic \/ ~FtlHasRoom)
WithoutPartner(t, waiting) ==
  IF setup.commands /\ GoesOn(t, waiting) /\ ~Stays(t, waiting)
  THEN RemoveAt(waiting, Least(Partners(t, waiting))) ELSE waiting
WithWaiting(t, waiting, others) == IF GoesOn(t, waiting) THEN others ELSE Append(others, t)
Remaining(t, waiting) == IF Stays(t, waiting) THEN t ELSE NoTransaction

DataArrives(t) ==
  /\ pendingData' = WithoutPartner(t, pendingData)
  /\ pendingCommand' = WithWaiting(t, pendingData, pendingCommand)
  /\ IF GoesOn(t, pendingData) THEN SendToFtl(t) ELSE SendNothing
CommandArrives(t) ==
  /\ pendingCommand' = WithoutPartner(t, pendingCommand)
  /\ pendingData' = WithWaiting(t, pendingCommand, pendingData)
  /\ IF GoesOn(t, pendingCommand) THEN SendToFtl(t) ELSE SendNothing

(***************************************************************************)
(* The response channel: what it carries already, then responses, then     *)
(* requests if they have no channel of their own.                          *)
(***************************************************************************)
TakesRequest == ~setup.requests /\ responseTrans = NoTransaction /\ responses = <<>> /\ requests # <<>>
OnResponse ==
  CASE responseTrans # NoTransaction -> responseTrans
    [] responseTrans = NoTransaction /\ responses # <<>> -> Head(responses)
    [] TakesRequest -> Head(requests)
    [] OTHER -> NoTransaction
WithoutRequest ==
  /\ requests' = Tail(requests)
  /\ requestsSize' = Minus(requestsSize, IF setup.commands THEN PageBits ELSE CommandBits + PageBits)

UpdateResponse ==
  LET t == OnResponse
      left == LeftAfter(responseLeft, DataCycles(t))
  IN  /\ IF t = NoTransaction
         THEN UNCHANGED <<responseTrans, responseLeft, pendingData, pendingCommand>> /\ SendNothing
         ELSE /\ responseLeft' = left
              /\ IF left = 0 /\ t.type # "RETURN_DATA"
                 THEN DataArrives(t) /\ responseTrans' = Remaining(t, pendingData)
                 ELSE /\ responseTrans' = IF left = 0 THEN NoTransaction ELSE t
                      /\ UNCHANGED <<pendingData, pendingCommand>> /\ SendNothing
      /\ IF responseTrans = NoTransaction /\ responses # <<>>
         THEN responses' = Tail(responses) /\ responsesSize' = Minus(responsesSize, PageBits)
         ELSE UNCHANGED <<responses, responsesSize>>
      /\ IF TakesRequest THEN WithoutRequest ELSE UNCHANGED <<requests, requestsSize>>
      /\ UNCHANGED <<commands, requestTrans, commandTrans, requestLeft, commandLeft>>
SentToHost ==
  IF /\ OnResponse.type = "RETURN_DATA"
     /\ LeftAfter(responseLeft, FrontPage) = 0 THEN <<OnResponse>> ELSE <<>>

(***************************************************************************)
(* The request channel.                                                    *)
(***************************************************************************)
OnRequest ==
  IF requestTrans # NoTransaction THEN requestTrans
  ELSE IF requests # <<>> THEN Head(requests) ELSE NoTransaction
UpdateRequest ==
  LET t == OnRequest
      left == LeftAfter(requestLeft, DataCycles(t))
  IN  /\ IF t = NoTransaction
         THEN UNCHANGED <<requestTrans, requestLeft, pendingData, pendingCommand>> /\ SendNothing
         ELSE /\ requestLeft' = left
              /\ IF left = 0 THEN DataArrives(t) /\ requestTrans' = Remaining(t, pendingData)
                 ELSE /\ requestTrans' = t
                      /\ UNCHANGED <<pendingData, pendingCommand>> /\ SendNothing
      /\ IF requestTrans = NoTransaction /\ requests # <<>>
         THEN WithoutRequest ELSE UNCHANGED <<requests, requestsSize>>
      /\ UNCHANGED <<responses, commands, responsesSize, responseTrans, commandTrans, responseLeft,
                     commandLeft>>

(***************************************************************************)
(* The command channel.                                                    *)
(***************************************************************************)
OnCommand ==
  IF commandTrans # NoTransaction THEN commandTrans
  ELSE IF commands # <<>> THEN Head(commands) ELSE NoTransaction
UpdateCommand ==
  LET t == OnCommand
      left == LeftAfter(commandLeft, FrontCommand)
  IN  /\ IF t = NoTransaction
         THEN UNCHANGED <<commandTrans, commandLeft, pendingData, pendingCommand>> /\ SendNothing
         ELSE /\ commandLeft' = left
              /\ IF left = 0 THEN CommandArrives(t) /\ commandTrans' = Remaining(t, pendingCommand)
                 ELSE /\ commandTrans' = t
                      /\ UNCHANGED <<pendingData, pendingCommand>> /\ SendNothing
      /\ IF commandTrans = NoTransaction /\ commands # <<>>
         THEN commands' = Tail(commands) /\ requestsSize' = Minus(requestsSize, CommandBits)
         ELSE UNCHANGED <<commands, requestsSize>>
      /\ UNCHANGED <<requests, responses, responsesSize, responseTrans, requestTrans, responseLeft,
                     requestLeft>>
=============================================================================
