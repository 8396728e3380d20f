------------------------------ MODULE MCTurnEnd ------------------------------
EXTENDS TurnEnd

CONSTANTS service, reader, answer, store, failure, client

MCHolds(f) ==
    CASE f = service -> "class"
      [] f = reader -> "readPort"
      [] f = answer -> "dto"
      [] f = store -> "writePort"
      [] f = failure -> "error"
      [] f = client -> "adapter"

(* The service reads through the reader, which returns an answer, writes   *)
(* to the store and throws the failure; it may come to use the answer.     *)
MCDepends(f) ==
    CASE f = service -> {Files \cap {reader, store, failure},
                         Files \cap {reader, answer}}
      [] f = reader -> {Files \cap {answer}}
      [] OTHER -> {{}}

(* Two clean checkouts: the service is in the domain, or above it. *)
MCHome(f, layer) ==
    CASE f = service -> At(layer, "ts")
      [] f = reader -> IF layer = "domain"
                       THEN At("domain/repositories", "repository")
                       ELSE At("application/repositories", "query-repository")
      [] f = answer -> At("application/queries", "dto")
      [] f = store -> At("domain/repositories", "repository")
      [] f = failure -> At("domain", "error")
      [] f = client -> At("src/infrastructure", "ts")

MCImports(f, layer) ==
    CASE f = service -> Files \cap {reader, store, failure}
      [] f = reader /\ layer = "application" -> Files \cap {answer}
      [] OTHER -> {}

MCCheckouts ==
    {<<[f \in Files |-> MCHome(f, layer)], [f \in Files |-> MCImports(f, layer)]>> :
        layer \in {"domain", "application"}}

MCDrafts(f) ==
    CASE f = service -> {At("domain", "ts"), At("application", "ts")}
      [] f = reader -> {At("domain/repositories", "query-repository"),
                        At("infrastructure/other", "repository")}
      [] f = answer -> {At("application/queries/<name>", "dto")}
      [] f = store -> {At("infrastructure/listed", "repository")}
      [] f = failure -> {At("common", "error"), At("domain", "errors")}
      [] f = client -> {At("shared-kernel", "ts")}

(* The second, and every layout in which one of its files is elsewhere or  *)
(* has other imports.                                                      *)
MCNearLayouts ==
    LET h == [f \in Files |-> MCHome(f, "application")]
        i == [f \in Files |-> MCImports(f, "application")]
    IN  {<<h, i>>} \cup
        UNION {{<<[h EXCEPT ![f] = p], [i EXCEPT ![f] = d]>> :
                   p \in MCDrafts(f), d \in MCDepends(f)} : f \in Files}

(* Every layout: each file where a clean checkout or a draft has it. *)
MCAnywhere(f) == MCDrafts(f) \cup {MCHome(f, "domain"), MCHome(f, "application")}

MCLayouts ==
    {<<h, i>> : h \in {g \in [Files -> UNION {MCAnywhere(f) : f \in Files}] :
                          \A f \in Files : g[f] \in MCAnywhere(f)},
                i \in {d \in [Files -> UNION {MCDepends(f) : f \in Files}] :
                          \A f \in Files : d[f] \in MCDepends(f)}}
=============================================================================
