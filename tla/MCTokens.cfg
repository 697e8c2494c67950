\* Two requests against a key set that rotates and retires twice, a slow or
\* dead Keycloak, lapses of the cache and restarts of the gateway.
CONSTANTS
  Requests = {r1, r2}
  MaxKeys = 3
  Faults = {"outage", "gatewayRestart"}
SPECIFICATION FairSpec
INVARIANT TypeOK
PROPERTIES
  RefusedOnlyIfOverwritten
  RetiredKeysForgotten
  EveryRequestAnswered
