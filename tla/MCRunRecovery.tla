--------------------------- MODULE MCRunRecovery ----------------------------
EXTENDS RunRecovery

\* The mix of durable_chaos_helper, with two writes whose hint is missing.
MixedKinds == <<"model", "read_only", "file_write", "idempotent_http",
                "file_write", "idempotent_http", "opaque_write">>
=============================================================================
