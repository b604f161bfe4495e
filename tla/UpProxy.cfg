CONSTANTS
  None = None
  Proxies = {p1}
  Certificates = {c1}
  Mirrors = {m1}
  Addresses = {a1}
SPECIFICATION Spec
INVARIANT ProxyTakesEffect
