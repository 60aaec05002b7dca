---------------------------- MODULE OpenAIBudget ----------------------------
(***************************************************************************)
(* The budget of paid text calls: build_ad_copy() of copy_generator.py runs *)
(* in worker threads of generation jobs, and each thread goes through       *)
(* call_text_model() of openai_client.py.  The amount spent is in a file    *)
(* that is read before a call and rewritten after it; the lock covers the   *)
(* read and the rewriting, not the call between them.                       *)
(***************************************************************************)
EXTENDS Integers, FiniteSets, FiniteSetsExt

CONSTANTS
    Threads,        \* worker threads that make copy
    Usages,         \* the usages that answers report
    DefaultModel,   \* OPENAI_MODEL
    HardLimit,      \* OPENAI_BUDGET_LIMIT_USD
    MaxCost,        \* what the dearest answer costs
    UseLLMCopy,     \* USE_LLM_COPY
    MaxFaults,      \* bound on restarts, failed records and unseen charges
    None

\* Price of a prompt and of a completion token, in one unit of cost
ModelPricing ==
    [luna |-> <<2, 12>>, terra |-> <<5, 30>>, sol |-> <<10, 60>>]
FallbackPricing == <<2, 12>>

GetPricing(model) ==
    CASE model \in DOMAIN ModelPricing -> ModelPricing[model]
      [] /\ model \notin DOMAIN ModelPricing
         /\ DefaultModel \in DOMAIN ModelPricing -> ModelPricing[DefaultModel]
      [] OTHER -> FallbackPricing

EstimateCost(model, usage) ==
    usage.prompt * GetPricing(model)[1] + usage.completion * GetPricing(model)[2]

ASSUME BudgetAssumption ==
    /\ IsFiniteSet(Threads) /\ None \notin Threads
    /\ HardLimit \in Nat \ {0} /\ MaxCost \in Nat
    /\ UseLLMCopy \in BOOLEAN /\ MaxFaults \in Nat
    /\ \A usage \in Usages : EstimateCost(DefaultModel, usage) \in 0..MaxCost

VARIABLES
    spentUsd,   \* what the usage file says; no file is 0
    usageLock,  \* the thread that holds _usage_lock between two steps
    at,         \* where each thread is
    cost,       \* what the answer of its call costs
    spent,      \* what it has read from the file to rewrite it
    billed,     \* what OpenAI has charged, ever
    unrecorded, \* what was charged and will never be in the file
    faults

vars == <<spentUsd, usageLock, at, cost, spent, billed, unrecorded, faults>>

\* unrecorded is told by ChargesAreAccounted
TypeOK ==
    /\ spentUsd \in Nat /\ billed \in Nat
    /\ usageLock \in Threads \cup {None}
    /\ at \in [Threads -> {"idle", "check", "call", "record", "save"}]
    /\ cost \in [Threads -> 0..MaxCost]
    /\ spent \in [Threads -> Nat]
    /\ faults \in 0..MaxFaults

Init ==
    /\ spentUsd = 0 /\ billed = 0 /\ unrecorded = 0 /\ faults = 0
    /\ usageLock = None
    /\ at = [t \in Threads |-> "idle"]
    /\ cost = [t \in Threads |-> 0]
    /\ spent = [t \in Threads |-> 0]

Goto(t, place) == at' = [at EXCEPT ![t] = place]

\* build_ad_copy() returns, and the locals of the call are gone
Return(t) ==
    /\ Goto(t, "idle")
    /\ cost' = [cost EXCEPT ![t] = 0]
    /\ spent' = [spent EXCEPT ![t] = 0]

Fault == faults < MaxFaults /\ faults' = faults + 1

-----------------------------------------------------------------------------

\* Copy for a slot that requires promotion data is written by rule if there is
\* none, and so is all copy if USE_LLM_COPY is off: neither comes here.
AsksModel(requiresPromotion, promotion) ==
    UseLLMCopy /\ (requiresPromotion => promotion)

\* build_ad_copy() is called in a thread
BuildAdCopy(t) ==
    /\ at[t] = "idle"
    /\ \E requiresPromotion, promotion \in BOOLEAN :
         AsksModel(requiresPromotion, promotion)
    /\ Goto(t, "check")
    /\ UNCHANGED <<spentUsd, usageLock, cost, spent, billed, unrecorded, faults>>

\* A mutated form: the call that reaches the limit is still made
WithinBudgetLate(amount) == amount <= HardLimit
WithinBudget(amount) == amount < HardLimit

\* Under the lock the file is read; at the limit, or if reading raises, the
\* copy is written by rule.
CheckBudget(t) ==
    /\ at[t] = "check" /\ usageLock = None
    /\ \/ WithinBudget(spentUsd) /\ Goto(t, "call") /\ UNCHANGED <<cost, spent>>
       \/ Return(t)
    /\ UNCHANGED <<spentUsd, usageLock, billed, unrecorded, faults>>

\* A mutated form: a failed call is made again, for as long as it fails
CallFailsRetried(t) ==
    /\ at[t] = "call"
    /\ Goto(t, "check")
    /\ UNCHANGED <<spentUsd, usageLock, cost, spent, billed, unrecorded, faults>>

\* The client cannot be made, or the call fails and was not charged
CallFails(t) ==
    /\ at[t] = "call"
    /\ Return(t)
    /\ UNCHANGED <<spentUsd, usageLock, billed, unrecorded, faults>>

\* The call was charged and its answer is lost or reports no usage
ChargedUnseen(t) ==
    /\ at[t] = "call" /\ Fault
    /\ \E usage \in Usages :
         /\ billed' = billed + EstimateCost(DefaultModel, usage)
         /\ unrecorded' = unrecorded + EstimateCost(DefaultModel, usage)
    /\ Return(t)
    /\ UNCHANGED <<spentUsd, usageLock>>

CallAnswered(t) ==
    /\ at[t] = "call"
    /\ \E usage \in Usages :
         /\ cost' = [cost EXCEPT ![t] = EstimateCost(DefaultModel, usage)]
         /\ billed' = billed + EstimateCost(DefaultModel, usage)
    /\ Goto(t, "record")
    /\ UNCHANGED <<spentUsd, usageLock, spent, unrecorded, faults>>

\* A mutated form: the amount is read and rewritten without the lock
TakesLockNever(t) == usageLock' = usageLock
TakesLock(t) == usageLock = None /\ usageLock' = t

\* _record_cost() reads the file under the lock ...
RecordLoad(t) ==
    /\ at[t] = "record"
    /\ TakesLock(t)
    /\ spent' = [spent EXCEPT ![t] = spentUsd]
    /\ Goto(t, "save")
    /\ UNCHANGED <<spentUsd, cost, billed, unrecorded, faults>>

\* ... and replaces it.  The answer is used, or copy by rule if it is unusable.
RecordSave(t) ==
    /\ at[t] = "save"
    /\ spentUsd' = spent[t] + cost[t]
    /\ usageLock' = None
    /\ Return(t)
    /\ UNCHANGED <<billed, unrecorded, faults>>

\* Writing raises: the exception is swallowed and the cost is forgotten
RecordFails(t) ==
    /\ at[t] = "save" /\ Fault
    /\ usageLock' = None
    /\ unrecorded' = unrecorded + cost[t]
    /\ Return(t)
    /\ UNCHANGED <<spentUsd, billed>>

\* What answered calls have cost that is not yet in the file
Pending ==
    LET waiting == {t \in Threads : at[t] \in {"record", "save"}}
    IN  MapThenSumSet(LAMBDA t : cost[t], waiting)

\* The process dies and starts again; the file is replaced in one step and
\* stays, what was not yet recorded never will be.
Restart ==
    /\ Fault
    /\ unrecorded' = unrecorded + Pending
    /\ usageLock' = None
    /\ at' = [t \in Threads |-> "idle"]
    /\ cost' = [t \in Threads |-> 0]
    /\ spent' = [t \in Threads |-> 0]
    /\ UNCHANGED <<spentUsd, billed>>

Step(t) ==
    \/ CheckBudget(t)
    \/ CallFails(t) \/ ChargedUnseen(t) \/ CallAnswered(t)
    \/ RecordLoad(t) \/ RecordSave(t) \/ RecordFails(t)

Next == Restart \/ \E t \in Threads : BuildAdCopy(t) \/ Step(t)

Spec == Init /\ [][Next]_vars

\* A thread runs on, and a call ends: the SDK has a timeout of its own.
FairSpec == Spec /\ \A t \in Threads : WF_vars(Step(t))

(***************************************************************************)
(* Properties.                                                             *)
(***************************************************************************)

\* No cost is lost between parallel calls, whoever reads and writes the file
\* in which order: what OpenAI has charged is in the file, in the hands of a
\* thread that will record it, or was lost by one of the faults named above.
ChargesAreAccounted == billed = spentUsd + Pending + unrecorded

\* The limit is checked before and the cost recorded after a call, so parallel
\* threads pass it together; the excess is less than one call per thread, as
\* the comment of the limit (openai_client.py:18) has it.
InFlight == {t \in Threads : at[t] \in {"call", "record", "save"}}

ExcessIsBounded ==
    spentUsd < HardLimit + Cardinality(Threads) * MaxCost

\* Whatever fails, copy comes back: no thread waits for ever for the lock or
\* for an answer.
CopyIsMade == \A t \in Threads : (at[t] # "idle") ~> (at[t] = "idle")

=============================================================================
