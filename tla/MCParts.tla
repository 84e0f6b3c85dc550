------------------------------- MODULE MCParts -------------------------------
(* The parts that work alone, for TLC: a behaviour is one of either storage, *)
(* of the admin cache with its calls of Telegram, of the rate limiter, of a  *)
(* bot's lifecycle, of routers that freeze, or it is an input of a pure      *)
(* function.                                                                 *)
EXTENDS AdminCache, Parts, PureParts, TLC

CONSTANTS
  k1, k2, h1, h2,
  TextLength, Limits, Plain, NoText, MaxHtml, MaxBlocks, MaxDepth, MaxColumns \* MCAlgorithms

(* Goroutines h1 and h2 dispatch updates of one user, others of another;     *)
(* their handlers keep to their own conversation.                            *)
MCOwnKey  == [h \in RedisHandlers |-> IF h \in {h1, h2} THEN k1 ELSE k2]
MCOwnOnly == [h \in RedisHandlers |-> {MCOwnKey[h]}]

MCLower == [w \in {"START"} |-> "start"]

Algorithms == INSTANCE MCAlgorithms

NoInput == [of |-> "none"]

MCInit ==
  /\ part \in {"memory", "redis", "cache", "limiter", "lifecycle", "freezing", "function"}
  /\ Init /\ Memory!Init /\ Redis!Init /\ Limiter!Init /\ Bot!Init /\ Tree!Init
  /\ part # "cache" => \A m \in Members : admin[m]
  /\ IF part = "function" THEN Algorithms!InputInit /\ Given ELSE input = NoInput

MCNext ==
  /\ UNCHANGED <<part, input>>
  /\ part # "memory"    => UNCHANGED memoryVars
  /\ part # "redis"     => UNCHANGED redisVars
  /\ part # "cache"     => UNCHANGED vars
  /\ part # "limiter"   => UNCHANGED limiterVars
  /\ part # "lifecycle" => UNCHANGED lifecycleVars
  /\ part # "freezing"  => UNCHANGED freezingVars
  /\ \/ part = "memory"    /\ Memory!Next
     \/ part = "redis"     /\ Redis!Next
     \/ part = "cache"     /\ Next
     \/ part = "limiter"   /\ Limiter!Next
     \/ part = "lifecycle" /\ Bot!Next
     \/ part = "freezing"  /\ Tree!Next
     \/ part = "function"

MCSpec ==
  /\ MCInit
  /\ [][MCNext]_<<part, input, vars, memoryVars, redisVars, limiterVars, lifecycleVars, freezingVars>>

(* Where a map lies does not matter, only what it holds and who shares it;   *)
(* what the last call was is not read by any action.                         *)
MemoryView ==
  LET Stored == {k \in Keys : stored[k] # Nil} IN
  <<[k \in Keys |-> IF k \in Stored THEN <<stored[k].state, stored[k].age, heap[stored[k].data]>>
                                    ELSE <<>>],
    [h \in MapHandlers |-> IF held[h] = Nil THEN <<>> ELSE <<heap[held[h]]>>],
    {<<h, k>> \in MapHandlers \X Stored : held[h] = stored[k].data},
    {<<j, k>> \in Stored \X Stored : stored[j].data = stored[k].data},
    {<<g, h>> \in MapHandlers \X MapHandlers : held[g] = held[h]},
    swept, unused>>

View ==
  CASE part = "memory"    -> <<part, MemoryView>>
    [] part = "redis"     -> <<part, stateKey, dataKey, pc, call, idle>>
    [] part = "lifecycle" -> <<part, lifecycleVars>>
    [] part = "freezing"  -> <<part, freezingVars>>
    [] part = "function"  -> <<part, input>>
    [] OTHER              -> <<part, vars, limiterVars>>

Symmetry == Permutations(Callers) \cup Permutations(Starters) \cup Permutations(Workers)
            \cup Permutations(Walkers)

-----------------------------------------------------------------------------
(* Of the functions in modules with recursive operators *)
RendersRight == part = "function" => Algorithms!RendersRight
=============================================================================
