SPECIFICATION CollectorsSpec
CONSTANTS
    stream = stream
    scrape = scrape
    probe = probe
    api = api
    nginx = nginx
    other = other
    Hosts <- MCHosts
    Stream = stream
    Monitored = {api, nginx}
    Width = 16
    MaxUsage = 2
    MaxRestarts = 1
INVARIANTS
    PercentIsTrue
    BatchIsMeasured
