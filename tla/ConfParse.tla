------------------------------ MODULE ConfParse ------------------------------
(* How a configuration file is read (nc_conf.c).  The file is read four times:  *)
(* conf_validate_document, conf_validate_tokens and conf_validate_structure     *)
(* decide whether it is sound, and conf_parse then reads it again, relying on    *)
(* what they accepted.  The two automata are run here in lockstep over one       *)
(* stream of YAML events, and compared when the stream ends.  The streams are    *)
(* all those that a YAML document of nested mappings and sequences can give:     *)
(* no bound is put on their length, since neither automaton counts beyond the    *)
(* nesting depth.                                                                *)
EXTENDS Naturals, Sequences, SequencesExt

CONSTANTS
    Names,        \* the scalars tried: "pools", "global", "pool", "x"
    EmptyAt,      \* the nesting levels at which an empty scalar may be written
    MaxNesting,   \* how deep a document nests
    MaxDocuments  \* how many documents a file holds

CONF_SECTION_ROOT_DEPTH == 2
CONF_POOL_MAX_DEPTH     == CONF_SECTION_ROOT_DEPTH + 1
CONF_GLOBAL_MAX_DEPTH   == CONF_SECTION_ROOT_DEPTH

\* The depths at which count[] of conf_validate_structure is looked at.
Counted == {CONF_SECTION_ROOT_DEPTH, CONF_POOL_MAX_DEPTH}

VARIABLES
    doc,      \* the document so far: open collections, number of documents
    v,        \* the validators' locals and verdict
    cf,       \* the parser's state, struct conf, with the locals of its functions
    ghost     \* what went wrong in the parser, see the properties

vars == <<doc, v, cf, ghost>>

Kinds == {"map+", "map-", "seq+", "seq-", "alias", "scalar", "doc+", "end"}

-----------------------------------------------------------------------------
(* The document.  Every open mapping is waiting for a "key" or a "value", every  *)
(* open sequence for an "item".  An empty collection can only be written in flow  *)
(* syntax ([] and {}); it and an alias mark the document, doc.flow.              *)

\* The waiting position, once the node at its front is complete.
Filled(open) ==
    IF open = <<>> THEN <<>>
    ELSE Front(open) \o <<IF Last(open) = "key" THEN "value"
                          ELSE IF Last(open) = "value" THEN "key" ELSE "item">>

\* Where a scalar stands: its nesting level and whether it is key, value or item.
Role == IF doc.open = <<>> THEN <<0, "root">>
        ELSE <<Len(doc.open), Last(doc.open)>>

\* The events the YAML parser can deliver next.  A mapping's key is a scalar.
Possible(kind) ==
    LET at == IF doc.open = <<>> THEN "root" ELSE Last(doc.open)
    IN  CASE kind = "doc+"   -> ~doc.in /\ doc.n < MaxDocuments
          [] kind = "end"    -> ~doc.in
          [] kind \in {"map+", "seq+"} ->
                doc.in /\ Len(doc.open) < MaxNesting /\ at # "key"
          [] kind = "map-"   -> at = "key"
          [] kind = "seq-"   -> at = "item"
          [] kind = "alias"  -> doc.in
          [] kind = "scalar" -> doc.in

\* The document after the event.
Extended(kind) ==
    CASE kind = "doc+" -> [doc EXCEPT !.n = @ + 1, !.in = TRUE]
      [] kind = "end"  -> [doc EXCEPT !.ended = TRUE]
      [] kind = "map+" -> [doc EXCEPT !.open = Append(@, "key"), !.fresh = TRUE]
      [] kind = "seq+" -> [doc EXCEPT !.open = Append(@, "item"), !.fresh = TRUE]
      [] kind \in {"map-", "seq-"} ->
            [doc EXCEPT !.open = Filled(Front(@)), !.fresh = FALSE,
                        !.in = Len(doc.open) > 1, !.flow = @ \/ doc.fresh]
      [] OTHER ->
            [doc EXCEPT !.open = Filled(@), !.fresh = FALSE, !.in = doc.open # <<>>,
                        !.flow = @ \/ kind = "alias"]

-----------------------------------------------------------------------------
(* conf_validate_document, conf_validate_tokens and conf_validate_structure.     *)

\* strncmp(value, name, length of value) == 0: any prefix of the name passes.
PrefixMatch(s, name) ==
    \/ s = name
    \/ s = ""
    \/ s = "pool" /\ name = "pools"

\* conf_validate_document: exactly one document.
DocumentsValid == doc.n = 1

\* conf_validate_tokens: of the tokens only block collections, keys, values and
\* scalars pass; flow collections, aliases, tags and document markers do not.
TokensValid == ~doc.flow /\ doc.n <= 1

\* YAML_MAPPING_START_EVENT: a pool's mapping must follow one key, and none
\* may be deeper than a pool's.
ValidMapStart(l) ==
    [l EXCEPT !.depth = @ + 1,
              !.error = \/ l.depth = CONF_SECTION_ROOT_DEPTH /\ l.count[l.depth] # 1
                        \/ l.depth >= CONF_POOL_MAX_DEPTH]

\* YAML_MAPPING_END_EVENT: a pool must have had its one sequence; the end of a
\* section's mapping ends the section.
ValidMapEnd(l) ==
    LET inPool  == l.pools /\ l.depth = CONF_POOL_MAX_DEPTH
        ofPools == l.pools /\ l.depth = CONF_SECTION_ROOT_DEPTH
        ofGlobal == ~inPool /\ ~ofPools /\ l.global
    IN  [l EXCEPT !.seq = @ /\ ~inPool,
                  !.error = inPool /\ ~l.seq,
                  !.pools = @ /\ ~ofPools,
                  !.global = @ /\ ~ofGlobal,
                  !.count = [d \in DOMAIN @ |-> IF \/ d = l.depth - 1
                                                   \/ ofGlobal /\ d = l.depth
                                                THEN 0 ELSE @[d]],
                  !.depth = @ - 1]


\* YAML_SEQUENCE_START_EVENT: one sequence, at a pool's depth, after one key.
ValidSeqStart(l) ==
    [l EXCEPT !.seq = TRUE,
              !.error = \/ l.seq
                        \/ l.depth # CONF_POOL_MAX_DEPTH
                        \/ l.count[l.depth] # 1]

\* YAML_SEQUENCE_END_EVENT.
ValidSeqEnd(l) == [l EXCEPT !.count[CONF_POOL_MAX_DEPTH] = 0]

\* YAML_SCALAR_EVENT: a section's name at depth 1; below it, keys and values
\* are counted, and a completed "key: value" starts the count again.
ValidScalar(l, s) ==
    LET isPools  == PrefixMatch(s, "pools")
        isGlobal == ~isPools /\ PrefixMatch(s, "global")
        wrong ==
            \/ l.depth = 0
            \/ l.depth = 1 /\ ~isPools /\ ~isGlobal
            \/ /\ l.pools /\ l.depth = CONF_SECTION_ROOT_DEPTH
               /\ l.count[l.depth] # 0
            \/ /\ l.global /\ l.depth > CONF_GLOBAL_MAX_DEPTH
               /\ ~(l.pools /\ l.count[l.depth] = 2)
        restart ==
            \/ l.pools /\ l.depth = CONF_POOL_MAX_DEPTH /\ l.count[l.depth] = 2
            \/ l.global /\ l.depth = CONF_GLOBAL_MAX_DEPTH /\ l.count[l.depth] = 2
    IN  [l EXCEPT !.pools  = @ \/ (l.depth = 1 /\ isPools),
                  !.global = @ \/ (l.depth = 1 /\ isGlobal),
                  !.error  = wrong,
                  !.count  = [d \in DOMAIN @ |->
                                 IF d # l.depth THEN @[d]
                                 ELSE IF restart THEN 1 ELSE @[d] + 1]]

Validate(l, kind, s) ==
    IF l.error THEN l
    ELSE CASE kind = "map+"   -> ValidMapStart(l)
           [] kind = "map-"   -> ValidMapEnd(l)
           [] kind = "seq+"   -> ValidSeqStart(l)
           [] kind = "seq-"   -> ValidSeqEnd(l)
           [] kind = "scalar" -> ValidScalar(l, s)
           [] OTHER           -> l

\* conf_pre_validate: cf->sound.
Sound == DocumentsValid /\ TokensValid /\ ~v.error

-----------------------------------------------------------------------------
(* conf_parse.  Each operator below gives the set of outcomes of one event: the  *)
(* new state, and what went wrong.  "trap" is an ASSERT that fails, a            *)
(* NOT_REACHED that is reached or a pop of an empty cf->arg; after it the        *)
(* parser is followed no further.                                                *)

Fine(c)   == [c |-> c, trap |-> FALSE, mixed |-> FALSE, raw |-> FALSE]
Trapped(c) == [Fine([c EXCEPT !.at = "trapped"]) EXCEPT !.trap = TRUE]
Failed(c) == Fine([c EXCEPT !.at = "failed"])

\* conf_begin_parse: between the sections.  An unknown section is only logged.
BeginParse(c, kind, s) ==
    CASE kind = "doc+" -> {Fine(c)}
      [] kind = "map+" ->
           IF c.depth >= CONF_POOL_MAX_DEPTH THEN {Trapped(c)}
           ELSE LET section == c.depth + 1 = CONF_SECTION_ROOT_DEPTH
                IN  {Fine([c EXCEPT !.depth = @ + 1,
                                    !.data = FALSE,
                                    !.at = IF section /\ c.pools THEN "pools"
                                           ELSE IF section /\ c.global THEN "global"
                                           ELSE "begin",
                                    !.set = @ \/ (section /\ ~c.pools /\ c.global)])}
      [] kind = "scalar" ->
           IF c.depth >= CONF_POOL_MAX_DEPTH THEN {Trapped(c)}
           ELSE {Fine([c EXCEPT !.pools  = @ \/ s = "pools",
                                !.global = @ \/ s = "global"])}
      [] kind = "map-" ->
           IF c.depth # 1 THEN {Trapped(c)} ELSE {Fine([c EXCEPT !.at = "end"])}
      [] OTHER -> {Trapped(c)}

\* conf_end_parse: only the document's and the stream's end may follow.
EndParse(c, kind) ==
    IF kind = "end" THEN {Fine([c EXCEPT !.at = "parsed"])} ELSE {Trapped(c)}

\* The arguments of conf_handler that are one pool name, or a pool's name with
\* a directive's own key and value.
Matching(arg) ==
    arg \in {<< <<2, "key">> >>,
             << <<2, "key">>, <<3, "key">>, <<3, "value">> >>,
             << <<2, "key">>, <<3, "key">>, <<4, "item">> >>}

\* conf_handler, and what conf_parse_pools_section does after it.  A single
\* argument names a new pool, which conf_pool_init initialises; otherwise the
\* last two are a directive and its value, and the directive may be unknown
\* or its value refused.
Handled(c, leaf) ==
    LET arg    == c.arg
        init   == Len(arg) = 1
        popped == IF leaf THEN SubSeq(arg, 1, Len(arg) - (IF c.seq THEN 1 ELSE 2))
                  ELSE arg
        after  == [c EXCEPT !.arg = popped]
        seen   == [Fine(after) EXCEPT !.mixed = ~Matching(arg),
                                      !.raw = ~leaf /\ ~init]
    IN  IF Len(arg) < (IF leaf /\ ~c.seq THEN 2 ELSE 1) \/ (leaf /\ ~c.data)
        THEN {Trapped(c)}
        ELSE IF init THEN {seen}
        ELSE {seen, [seen EXCEPT !.c.at = "failed"]}

\* The YAML_SCALAR_EVENT of conf_parse_pools_section.  conf_push_scalar
\* refuses an empty scalar, which ends the parse.
PoolsScalar(c, s, role) ==
    LET pushed == [c EXCEPT !.arg = Append(@, role)]
    IN  IF s = "" THEN {Failed(c)}
        ELSE IF c.seq
        THEN IF c.depth = CONF_POOL_MAX_DEPTH THEN Handled(pushed, TRUE)
             ELSE {Trapped(c)}
        ELSE IF c.depth = CONF_SECTION_ROOT_DEPTH
        THEN Handled([pushed EXCEPT !.data = TRUE], FALSE)
        ELSE IF Len(pushed.arg) = c.depth
        THEN IF c.depth = CONF_POOL_MAX_DEPTH THEN Handled(pushed, TRUE)
             ELSE {Trapped(c)}
        ELSE {Fine(pushed)}

\* conf_pop_scalar.
Popped(c) == [c EXCEPT !.arg = Front(@)]

\* conf_parse_pools_section, one event of it; its return to conf_begin_parse
\* clears pools_section.
ParsePools(c, kind, s, role) ==
    CASE kind = "map+" -> {Fine([c EXCEPT !.depth = @ + 1])}
      [] kind = "map-" ->
           LET up == [c EXCEPT !.depth = @ - 1]
           IN  IF up.depth = CONF_SECTION_ROOT_DEPTH
               THEN IF c.arg = <<>> THEN {Trapped(c)} ELSE {Fine(Popped(up))}
               ELSE IF up.depth = CONF_SECTION_ROOT_DEPTH - 1
               THEN {Fine([up EXCEPT !.at = "begin", !.pools = FALSE])}
               ELSE {Fine(up)}
      [] kind = "seq+" -> {Fine([c EXCEPT !.seq = TRUE])}
      [] kind = "seq-" ->
           IF c.arg = <<>> THEN {Trapped(c)}
           ELSE {Fine([Popped(c) EXCEPT !.seq = FALSE])}
      [] kind = "scalar" -> PoolsScalar(c, s, role)
      [] OTHER -> {Trapped(c)}

\* conf_parse_global_section, one event of it.  The result of conf_push_scalar
\* is not looked at, so an empty scalar is passed over.
ParseGlobal(c, kind, s, role) ==
    LET pushed == IF Len(c.arg) < 2 /\ s # "" THEN Append(c.arg, role) ELSE c.arg
        seen   == [Fine([c EXCEPT !.arg = <<>>]) EXCEPT
                      !.mixed = pushed # << <<2, "key">>, <<2, "value">> >>]
    IN  CASE kind = "map-" ->
               {Fine([c EXCEPT !.depth = @ - 1, !.at = "begin", !.global = FALSE])}
          [] kind = "scalar" ->
               IF Len(pushed) < 2 THEN {Fine([c EXCEPT !.arg = pushed])}
               ELSE {seen, [seen EXCEPT !.c.at = "failed"]}
          [] OTHER -> {Fine(c)}

Parse(c, kind, s, role) ==
    CASE c.at = "begin"  -> BeginParse(c, kind, s)
      [] c.at = "pools"  -> ParsePools(c, kind, s, role)
      [] c.at = "global" -> ParseGlobal(c, kind, s, role)
      [] c.at = "end"    -> EndParse(c, kind)
      [] OTHER           -> {Fine(c)}

-----------------------------------------------------------------------------
\* conf_open, and the locals at the start of each pass.
Init ==
    /\ doc = [open |-> <<>>, n |-> 0, in |-> FALSE, fresh |-> FALSE,
              flow |-> FALSE, ended |-> FALSE]
    /\ v = [depth |-> 0, count |-> [d \in Counted |-> 0],
            seq |-> FALSE, pools |-> FALSE, global |-> FALSE, error |-> FALSE]
    /\ cf = [at |-> "begin", depth |-> 0, arg |-> <<>>, seq |-> FALSE,
             pools |-> FALSE, global |-> FALSE, data |-> FALSE, set |-> FALSE]
    /\ ghost = [trap |-> FALSE, mixed |-> FALSE, raw |-> FALSE, lost |-> FALSE]

\* A scalar below the sections that completes a directive.
Completes(kind) ==
    kind = "scalar" /\ Role[1] >= 2 /\ Role[2] \in {"value", "item"}

\* One event, read by the validators and by the parser.
Event(kind, s) ==
    /\ ~doc.ended /\ TokensValid /\ ~v.error
    /\ Possible(kind)
    /\ doc' = Extended(kind)
    /\ v' = Validate(v, kind, s)
    /\ \E o \in Parse(cf, kind, s, Role) :
          /\ cf' = o.c
          /\ ghost' = [trap  |-> ghost.trap \/ o.trap,
                       mixed |-> ghost.mixed \/ o.mixed,
                       raw   |-> ghost.raw \/ o.raw,
                       lost  |-> \/ ghost.lost
                                 \/ /\ Completes(kind)
                                    /\ cf.at \notin {"pools", "global", "failed"}]

Structural == \E kind \in Kinds \ {"scalar"} : Event(kind, "")
Scalar == \E s \in Names : Event("scalar", s)
EmptyScalar == Role[1] \in EmptyAt /\ Event("scalar", "")

Next == Structural \/ Scalar \/ EmptyScalar

Spec == Init /\ [][Next]_vars

-----------------------------------------------------------------------------
Accepted == doc.ended /\ Sound


\* cf->arg is a stack shared by both sections: every directive of a sound file
\* is handed to its setter with its own key and its own value, none is skipped,
\* and a pool's name is never taken for a value.
OwnKeyAndValue == Accepted => ~ghost.mixed /\ ~ghost.lost

\* conf_destroy deinitialises every element of cf->pool, so each must have been
\* through conf_pool_init, even when the file is refused half way.
PoolsInitialised == Accepted => ~ghost.raw
=============================================================================
