\* One host that runs the CLI twice, two tokens to mint and a static one, two
\* listeners, one end of the server process or call that
\* raises, and one end of a CLI.
CONSTANTS
    h1 = h1
    m1 = m1
    m2 = m2
    s1 = s1
    control = control
    bootstrap = bootstrap
    NoToken = NoToken
    NoPort = NoPort
    Nobody = Nobody
    Host = {h1}
    Named = {h1}
    Minted = {m1, m2}
    Static = {s1}
    Port = {control, bootstrap}
    MaxRuns = 2
    MaxMishaps = 1
    MaxExpired = 1
    MaxCliDeaths = 1
SPECIFICATION Spec
SYMMETRY Renamed
INVARIANT SingleUse
INVARIANT NoTokenVanishes
INVARIANT KeepsItsIdentity
PROPERTY ConsumedStays
CHECK_DEADLOCK FALSE
