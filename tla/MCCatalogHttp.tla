---------------------------- MODULE MCCatalogHttp ----------------------------
(* CATALOG_POLICY in ticks of 125 ms: 5 attempts, a read timeout of 10 s,  *)
(* a window of 30 s, a first backoff of at most 250 ms.                    *)
EXTENDS CatalogHttp

\* At once, half the read timeout, the whole of it.
PolicyDurations == {0, 40, 80}

\* Retry-After: now, the last wait that fits and the first that does not
\* after an attempt that timed out, and one past any window.
PolicyRetryAfters == {0, 80, 81, 160, 161, 100000}
=============================================================================
