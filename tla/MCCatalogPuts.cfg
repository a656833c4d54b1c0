CONSTANTS
    Codes = {1}
    Channels = {sms}
    Upstreams = {vendor, stranger}
    Configurations = {{vendor}, {}}
    Priorities = {1}
    Texts = {good}
    ParseJoined = {good}
    ParseApart = {good}
    Editors = {e1, e2}
    Deliveries = {d1}
    NoRow = NoRow
    NoEdit = NoEdit
    NoDelivery = NoDelivery
    MaxVersion = 2
SYMMETRY Symmetry
SPECIFICATION Spec
INVARIANTS
    EditsAreSerial
    TemplatesOutliveDeliveries
    RoutesFollowConfiguration
