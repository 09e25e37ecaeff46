--------------------------- MODULE CodexAccounting ---------------------------
(***************************************************************************)
(* What a finished exchange amounts to: the identity of its session from   *)
(* the request (codex_request.rs), the tokens and their contradictions     *)
(* (codex_accounting.rs), and an estimate of their price (pricing.rs).     *)
(***************************************************************************)
EXTENDS CodexResponse

CONSTANTS
  MaxToken,      \* u64::MAX, for additions that saturate
  PricedTokens,  \* OPENAI_STANDARD_PRICING_CONTEXT_LIMIT_TOKENS
  PricingFile,   \* [named, readable, trusted, exact, family : models -> prices]
  Builtin,       \* the prices of the program: models -> prices
  FamilyOf       \* family_for_model, None for other models

-----------------------------------------------------------------------------
(* codex_request.rs                                                        *)

\* The order in which an identity is looked for.  A blank value counts as a
\* missing one; all is None for a request that has none of them.
IdentitySources ==
  <<"session_header", "client_request_id", "client_metadata">>

\* The fallback hash is a function of the directory and the first prompt.
FallbackIdentity(request) == <<"codex_fallback", request.cwd, request.prompt>>

\* resolve_session_identity
SessionIdentity(request) ==
  LET present == {i \in DOMAIN IdentitySources : request[IdentitySources[i]] # None}
  IN IF present # {}
       THEN [id |-> request[IdentitySources[Min(present)]],
             source |-> IdentitySources[Min(present)]]
       ELSE [id |-> FallbackIdentity(request), source |-> "fallback_hash"]

\* cwd: metadata, then client_metadata, then the preamble of the input.
WorkingDirectory(request) ==
  OrElse(request.metadata_cwd,
         OrElse(request.client_cwd, request.preamble_cwd))

\* select_user_prompt_candidate: the last text that is no preamble, else the
\* last preamble; a text is [preamble |-> BOOLEAN, words |-> ...].
PromptCandidate(texts) ==
  LET prompts == {i \in DOMAIN texts : ~texts[i].preamble}
  IN IF prompts # {} THEN texts[Max(prompts)].words
     ELSE IF texts # <<>> THEN Last(texts).words
     ELSE None

\* first_user_visible_input: texts of the user, else any text.
FirstUserInput(input) ==
  LET texts == [i \in DOMAIN input |-> input[i]]
      OfUser(t) == t.user
  IN OrElse(PromptCandidate(SelectSeq(texts, OfUser)), PromptCandidate(texts))

\* request_body_for_json: a body is unpacked if and only if it is said to be.
Readable(body) == body.json /\ (body.zstd <=> body.encoding = "zstd")

\* parse_codex_responses_request: model before input, no model no request.
ParseFails(body) == ~Readable(body) \/ body.model = None \/ body.input = None

\* codex_request_headers_from_ext_proc: the header may be spelled session-id.
RequestHeadersOf(h) ==
  [session_id |-> OrElse(h.session_id, h.session_dash_id),
   client_request_id |-> h.client_request_id]

\* The key of the session in SESSIONS (main.rs, request_metadata_from_codex).
ParseRequest(body, headers) ==
  LET prompt == FirstUserInput(body.input)
      request == [session_header |-> headers.session_id,
                  client_request_id |-> headers.client_request_id,
                  client_metadata |-> body.client_id,
                  cwd |-> WorkingDirectory(body), prompt |-> prompt]
  IN [model |-> body.model, prompt |-> prompt, cwd |-> WorkingDirectory(body),
      session |-> SessionIdentity(request)]

-----------------------------------------------------------------------------
(* pricing.rs                                                              *)

\* PricingCatalog::load_from_env: a file that is missing or does not parse
\* leaves the built-in prices; its own trust is as it says, or none.
Catalog ==
  IF PricingFile.named /\ PricingFile.readable
    THEN [exact |-> PricingFile.exact, family |-> PricingFile.family,
          trusted |-> PricingFile.trusted]
    ELSE [exact |-> <<>>, family |-> <<>>, trusted |-> FALSE]

Unpriced(why) == [cost |-> None, source |-> why, trusted |-> FALSE]

\* PricingCatalog::resolve: an exact model of the file, its family, the
\* built-in prices; only the file can be trusted.
ResolvePricing(model) ==
  IF model \in DOMAIN Catalog.exact
    THEN [price |-> Catalog.exact[model], source |-> "file",
          trusted |-> Catalog.trusted]
  ELSE IF FamilyOf[model] \in DOMAIN Catalog.family
    THEN [price |-> Catalog.family[FamilyOf[model]], source |-> "file",
          trusted |-> Catalog.trusted]
  ELSE IF FamilyOf[model] \in DOMAIN Builtin
    THEN [price |-> Builtin[FamilyOf[model]], source |-> "builtin",
          trusted |-> FALSE]
  ELSE [price |-> None, source |-> "unknown_model", trusted |-> FALSE]

\* input_tokens.saturating_sub(cached_input_tokens)
Uncached(input, cached) == IF cached > input THEN 0 ELSE input - cached

\* estimate_codex_api_cost_dollars and CodexPricingEstimate: the built-in
\* prices hold below a limit, beyond it a turn is unpriced.
EstimateCost(model, u) ==
  LET r == ResolvePricing(model) IN
  IF r.source = "unknown_model" THEN Unpriced("unknown_model")
  ELSE IF u.input > PricedTokens /\ r.source = "builtin"
    THEN Unpriced("long_context")
  ELSE [cost |-> Uncached(u.input, u.cached) * r.price.input
                 + u.cached * r.price.cache_read + u.output * r.price.output,
        source |-> r.source, trusted |-> r.trusted]

-----------------------------------------------------------------------------
(* codex_accounting.rs                                                     *)

SaturatingAdd(a, b) == IF a + b > MaxToken THEN MaxToken ELSE a + b

Anomalies(u) ==
  (IF u.cached > u.input THEN {"cached_exceeds_input"} ELSE {})
  \cup (IF u.total # 0 /\ u.total # SaturatingAdd(u.input, u.output)
        THEN {"total_mismatch"} ELSE {})

\* summarize_codex_turn: the served model sets the price, the requested one
\* if none was named.
SummarizeTurn(request, acc) ==
  [session |-> request.session.id, model |-> request.model,
   served |-> acc.served_model, prompt |-> request.prompt,
   status |-> acc.status, tools |-> acc.tools,
   input |-> acc.usage.input, cached |-> acc.usage.cached,
   output |-> acc.usage.output, reasoning |-> acc.usage.reasoning,
   uncached |-> Uncached(acc.usage.input, acc.usage.cached),
   total |-> SaturatingAdd(acc.usage.input, acc.usage.output),
   anomalies |-> Anomalies(acc.usage),
   failure |-> acc.error_message, incomplete |-> acc.incomplete_reason,
   pricing |-> EstimateCost(OrElse(acc.served_model, request.model), acc.usage)]
=============================================================================
