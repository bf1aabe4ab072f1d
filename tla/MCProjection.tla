---------------------------- MODULE MCProjection ----------------------------
(***************************************************************************)
(* Projection over every list of up to MaxItems items, and of up to        *)
(* MaxSameCall that all name the same call: the list grows by one item at  *)
(* a time, of any shape in Shapes, and every list on the way is projected. *)
(* A list here need not be one a kernel recorded: a client may push any    *)
(* item, and a snapshot may have been edited, so identifiers of calls      *)
(* repeat, results come first, and either half may be missing.             *)
(***************************************************************************)
EXTENDS Projection

CONSTANTS
  MaxItems,     \* bound: how long a list gets
  MaxSameCall,  \* bound: how long one that names a single call gets
  SomeMeta, SomeCounter

ASSUME ShapesAssumption ==
  SomeMeta \in Metas /\ SomeCounter \in Counters /\ Texts \ {EmptyText} # {}

VARIABLES
  items,      \* the context
  projection  \* what it projects to

vars == <<items, projection>>

Shape(kind, calls, answers, state, text) ==
  [id |-> 0, kind |-> kind, calls |-> calls, answers |-> answers, state |-> state,
   note |-> NoNote, text |-> text, meta |-> SomeMeta, priced |-> SomeCounter]

Words == CHOOSE t \in Texts \ {EmptyText} : TRUE

Shapes ==
  {Shape("plain", <<>>, NoCall, state, Words) : state \in {"Active", "Elided"}}
    \cup {Shape("assistant", calls, NoCall, state, text) :
            calls \in {<<>>} \cup {<<c>> : c \in Calls} \cup (Calls \X Calls),
            state \in {"Active", "Elided"}, text \in {Words, EmptyText}}
    \cup {Shape("result", <<>>, c, state, Words) :
            c \in Calls, state \in {"Active", "Excluded", "Elided"}}

Init == items = <<>> /\ projection = Project(<<>>)

NamedIn(list) == UNION {NamedCalls(list[k]) : k \in DOMAIN list}

Grow == /\ \E shape \in Shapes :
             items' = Append(items, [shape EXCEPT !.id = Len(items) + 1])
        /\ Len(items') <= (IF Cardinality(NamedIn(items')) > 1 THEN MaxItems ELSE MaxSameCall)
        /\ projection' = Project(items')

Spec == Init /\ [][Grow]_vars

---------------------------------------------------------------------------
Sent == projection.messages
Skipped == projection.skipped
Included == {Sent[k].id : k \in DOMAIN Sent}

\* Every call that goes out is followed at once by its own results, one each in
\* the order of the calls, and no result goes out anywhere else: what a strict
\* endpoint demands, whatever was excluded, elided, repeated or recorded out of
\* order.
PairsWhole ==
  LET answered(p) == Len(Sent[p].calls)
  IN  /\ \A p \in DOMAIN Sent : \A k \in 1..answered(p) :
           p + k \in DOMAIN Sent /\ Sent[p + k].answers = Sent[p].calls[k]
      /\ \A r \in DOMAIN Sent : Sent[r].answers # NoCall =>
           \E p \in 1..(r - 1) : r - p <= answered(p)

CountIn(calls, call) == Cardinality({k \in DOMAIN calls : calls[k] = call})

\* The k-th result of a call is sent exactly when the call is made k times among
\* the projected items, and a turn loses only the calls beyond the results there
\* are: the reference definition, by rank, of what `build` does by consuming
\* counts.
RanksDecide ==
  LET rank(k) == Cardinality({j \in Answering(items, items[k].answers) : j <= k})
      made(c) == Cardinality(Asking(items, c))
      before(k, c) == Cardinality({p \in Asking(items, c) : p[1] < k})
      kept(k, c) == LET want == CountIn(CallsOf(items[k]), c)
                        left == Cardinality(Answering(items, c)) - before(k, c)
                    IN  IF left <= 0 THEN 0 ELSE IF left < want THEN left ELSE want
      sentAs(k) == {p \in DOMAIN Sent : Sent[p].id = items[k].id}
  IN  \A k \in Projected(items) :
        CASE items[k].kind = "plain" -> sentAs(k) # {}
          [] items[k].kind = "result" -> sentAs(k) # {} <=> rank(k) <= made(items[k].answers)
          [] items[k].kind = "assistant" ->
               /\ sentAs(k) = {} <=> /\ Says(items[k]) = "nothing"
                                     /\ \A c \in Calls : kept(k, c) = 0
               /\ \A p \in sentAs(k), c \in Calls : CountIn(Sent[p].calls, c) = kept(k, c)

\* Nothing is lost without a word: every item is either sent, once, or listed as
\* skipped, and never both; and which half of what pair is, is by rank.
NothingLost ==
  /\ Included \cup Skipped = Ids(items)
  /\ \A j, k \in DOMAIN Sent : Sent[j].id = Sent[k].id => j = k
  /\ \A k \in DOMAIN Sent : Sent[k].id \notin Skipped
  /\ RanksDecide

\* A repair reaches exactly as far as the pair.  Eliding an item costs none its
\* place, not even itself, which is what makes it the change a compactor prefers;
\* and excluding one takes out only items that name a call it names.
RepairsReachNoFurther ==
  \A k \in DOMAIN items :
    /\ items[k].state = "Active" =>
         Included \subseteq Carrying([items EXCEPT ![k].state = "Elided"])
    /\ IsProjected(items[k].state) =>
         LET without == Carrying([items EXCEPT ![k].state = "Excluded"])
         IN  \A j \in DOMAIN items \ {k} :
               NamedCalls(items[j]) \cap NamedCalls(items[k]) = {} =>
                 (items[j].id \in Included <=> items[j].id \in without)

\* The list of moved items is empty exactly when the request has the order of
\* the context, so a reader of the projection is told whenever it has not.
MovesReported ==
  LET order == [k \in DOMAIN Sent |-> Sent[k].id]
  IN  projection.reordered = {}
        <=> \A i, j \in DOMAIN order : i < j => order[i] < order[j]
=============================================================================
